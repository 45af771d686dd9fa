------------------------------- MODULE LotViews -------------------------------
(***************************************************************************)
(* What the dashboard reads off one lot: its executions and whether it is  *)
(* open (book-readout.ts, dashboard/positions.tsx), its stop               *)
(* (lib/stoploss.ts, stop-telemetry.ts, learning/exit-policy-panel.tsx),   *)
(* its health (learning/position-health.tsx) and the list of settled round *)
(* trips (learning/lifecycle-view.tsx).  Amounts are small integers,       *)
(* ratios hundredths, returns hundredths of a percent; wording is left out *)
(* and a verdict is named after its sentence.                              *)
(***************************************************************************)
EXTENDS Orders, SequencesExt, FiniteSetsExt

CONSTANTS
  Null,        \* null, undefined and text that is not a number
  FillSet,     \* executions: [id, side, qty, cost, fee, price, at]
  MaxFills,    \* bound on the executions of the lot
  Stamps,      \* times a lot may be closed at
  Stops,       \* stops as the broker sends them
  Returns,     \* marked returns, hundredths of a percent
  Settled,     \* lots of the list of round trips
  MaxEvents    \* bound on the event rows of a round trip

\* What is not Null is a number; the broker's stop has no room of its own
\* (broker.Stoploss).
ASSUME LotAssumption ==
  /\ MaxFills \in Nat /\ MaxEvents \in Nat /\ Stamps \subseteq Nat
  /\ Null \notin Int /\ Returns \subseteq Int
  /\ \A w \in Stops :
       /\ {w.current, w.peak, w.floor, w.initial, w.maxLoss, w.target, w.proximity,
           w.pressure, w.down} \subseteq Int \cup {Null}
       /\ w.room = Null

VARIABLES
  fills,     \* row.fills
  opened,    \* row.opened_at
  closedAt,  \* row.closed_at
  stop,      \* row.stoploss, or Null
  mark,      \* the lot's return, or Null
  trips,     \* the settled lives of the report: lot -> [at, book]
  chosen,    \* LifecycleView: selected
  tripBook,  \* bookAtom
  expanded   \* EventRow: indices whose details are open

lotVars == <<fills, opened, closedAt>>
stopVars == <<stop, mark>>
tripVars == <<trips, chosen, tripBook, expanded>>

Or(a, b) == IF a # Null THEN a ELSE b

-----------------------------------------------------------------------------
(* Executions. *)

\* The executions of one side, the first of each identity only.
distinct(fs, side) ==
  Only(fs, {i \in DOMAIN fs :
              /\ fs[i].side = side
              /\ \A j \in 1..(i - 1) : fs[j].side = side => fs[i].id = Null \/ fs[j].id # fs[i].id})

Total(fs, field) == FoldLeft(LAMBDA a, f : a + f[field], 0, fs)

TotalsOf(mine) ==
  LET live == SelectSeq(mine, LAMBDA f : f.qty # Null /\ f.qty > 0)
      priced == SelectSeq(live, LAMBDA f : f.price # Null)
      dated == SelectSeq(live, LAMBDA f : f.at # Null)
      Sum(field) == IF live # <<>> /\ \A i \in DOMAIN live : live[i][field] # Null
                    THEN Total(live, field) ELSE Null
      qty == Sum("qty")
      cost == Sum("cost")
  IN  [qty |-> qty, cost |-> cost, fee |-> Sum("fee"),
       vwap |-> IF cost # Null THEN <<cost, qty>>
                ELSE IF priced = <<>> THEN Null
                ELSE <<FoldLeft(LAMBDA a, f : a + f.price * f.qty, 0, priced),
                       Total(priced, "qty")>>,
       firstAt |-> IF dated = <<>> THEN Null ELSE Head(dated).at,
       lastAt |-> IF dated = <<>> THEN Null ELSE Last(dated).at]

executionTotals(fs, side) == TotalsOf(distinct(fs, side))

\* Mutant of positionReadout: the last sale dates a lot that is still open.
positionReadoutSold(fs, open, closing) ==
  LET buys == executionTotals(fs, "buy")
      sells == executionTotals(fs, "sell")
      fullySold == buys.qty # Null /\ sells.qty # Null /\ sells.qty >= buys.qty
  IN  [qty |-> buys.qty, exitQty |-> sells.qty, entryPrice |-> buys.vwap,
       fees |-> IF buys.fee = Null THEN sells.fee ELSE buys.fee + Or(sells.fee, 0),
       openedAt |-> Or(open, buys.firstAt),
       closed |-> closing # Null \/ fullySold,
       closedAt |-> Or(closing, sells.lastAt)]

positionReadout(fs, open, closing) ==
  LET buys == executionTotals(fs, "buy")
      sells == executionTotals(fs, "sell")
      fullySold == buys.qty # Null /\ sells.qty # Null /\ sells.qty >= buys.qty
  IN  [qty |-> buys.qty, exitQty |-> sells.qty, entryPrice |-> buys.vwap,
       fees |-> IF buys.fee = Null THEN sells.fee ELSE buys.fee + Or(sells.fee, 0),
       openedAt |-> Or(open, buys.firstAt),
       closed |-> closing # Null \/ fullySold,
       closedAt |-> Or(closing, IF fullySold THEN sells.lastAt ELSE Null)]

lot == positionReadout(fills, opened, closedAt)

\* The cards of the positions panel.
selectPositions(readout) == readout.closedAt = Null
selectClosed(readout) == readout.closedAt # Null

\* The lives of lib/desk-closed-lifecycle.ts exist.
lifecycleFromDeskOpen(readout) == readout.openedAt # Null /\ ~readout.closed
lifecycleFromDeskClosed(readout) ==
  readout.closed /\ readout.openedAt # Null /\ readout.closedAt # Null

FillArrives(f) ==
  /\ Len(fills) < MaxFills
  /\ fills' = Append(fills, f)
  /\ UNCHANGED <<opened, closedAt>>

\* The desk dates the lot.
Dated(open, closing) ==
  /\ opened' = Or(opened, open) /\ closedAt' = Or(closedAt, closing)
  /\ UNCHANGED fills

LotInit == fills = <<>> /\ opened = Null /\ closedAt = Null
LotNext ==
  \/ \E f \in FillSet : FillArrives(f)
  \/ \E open, closing \in Stamps \cup {Null} : Dated(open, closing)

-----------------------------------------------------------------------------
(* The stop. *)

States == <<"Healthy", "Healthy", "Dangerous", "Critical", "Protected", "Triggered">>

\* <<"label", text>>, Stalled read as Dangerous, or <<"code", 0..5>>.
stateFromWire(s) ==
  IF s[1] = "label"
  THEN IF s[2] \in Range(States) THEN s[2]
       ELSE IF s[2] = "Stalled" THEN "Dangerous" ELSE Null
  ELSE IF s[2] \in 0..5 THEN States[s[2] + 1] ELSE Null

\* Hundredths of the span consumed; 1e-9 is the least span.
Consumed(room, span) ==
  IF span <= 0 THEN IF room > 0 THEN 0 ELSE 100
  ELSE Max({0, Min({100, (100 * (span - room)) \div span})})

\* normalizeStoploss: the floor is a number by then, so has_floor is true.
normalizeStoploss(w) ==
  LET state == stateFromWire(w.state)
      span == IF w.target # Null /\ w.maxLoss # Null THEN w.target - w.maxLoss
              ELSE w.peak - w.floor
      room == Or(w.room, w.current - w.floor)
  IN  IF state = Null \/ Null \in {w.current, w.peak, w.floor} THEN Null
      ELSE [state |-> state, current |-> w.current, peak |-> w.peak, floor |-> w.floor,
            friction |-> IF w.initial = Null THEN 0 ELSE Max({w.initial, -w.initial}),
            has_floor |-> TRUE, room |-> room,
            proximity |-> IF w.proximity # Null THEN w.proximity ELSE Consumed(room, span),
            pressure |-> Or(w.pressure, 0), down |-> Or(w.down, 0)]

\* A normalized stop as it is read again from a life.
AsWire(s) ==
  [state |-> <<"label", s.state>>, current |-> s.current, peak |-> s.peak, floor |-> s.floor,
   initial |-> s.friction, maxLoss |-> Null, target |-> Null, room |-> s.room,
   proximity |-> s.proximity, pressure |-> s.pressure, down |-> s.down]

stateTone(s) ==
  CASE s = "Healthy" -> "good"
    [] s = "Protected" -> "info"
    [] s \in {"Dangerous", "Critical", "Triggered"} -> "bad"
    [] OTHER -> "neutral"

\* heldVerdict of a normalized stop, or of none: with a stop there is always a
\* floor and a room, so the verdicts on peak and pressure are not reached.
heldVerdict(s, current) ==
  IF s # Null /\ s.state \in {"Triggered", "Dangerous", "Critical"}
  THEN [word |-> s.state, tone |-> "bad"]
  ELSE IF current = Null THEN [word |-> "Waiting", tone |-> "neutral"]
  ELSE IF s # Null
  THEN IF s.proximity >= 100 THEN [word |-> "AtFloor", tone |-> "bad"]
       ELSE [word |-> "Room",
             tone |-> IF s.proximity >= 70 THEN "warn" ELSE stateTone(s.state)]
  ELSE [word |-> "Holding", tone |-> "good"]

Graded(ratio, bad, warn, info) ==
  IF ratio >= bad THEN "bad" ELSE IF ratio >= warn THEN "warn"
  ELSE IF ratio >= info THEN "info" ELSE "good"

\* The tones of floor, pressure and stall.
buildStopChecks(s) ==
  IF s = Null THEN [floor |-> "neutral", pressure |-> "neutral", stall |-> "neutral"]
  ELSE [floor |-> Graded(s.proximity, 100, 70, 35),
        pressure |-> Graded(s.pressure, 85, 55, 25),
        stall |-> IF s.state = "Critical" THEN "bad"
                  ELSE IF s.down >= 3 THEN "info" ELSE "neutral"]

ExitPolicyPanel ==
  LET s == IF stop = Null THEN Null ELSE normalizeStoploss(stop)
  IN  [badge |-> IF s = Null THEN "no stop" ELSE stateTone(s.state),
       verdict |-> heldVerdict(s, IF s = Null THEN mark ELSE s.current),
       checks |-> buildStopChecks(s)]

-----------------------------------------------------------------------------
(* Health. *)

Nearest(a, b) == (2 * a + b) \div (2 * b)

\* The bands of the gauge and of the card.
health(pct) ==
  IF pct >= 100 THEN [status |-> "IN PROFIT", score |-> Min({100, Nearest(8000 + pct * 5, 100)})]
  ELSE IF pct >= -85 THEN [status |-> "STABLE HOLD", score |-> Nearest(6500 + (pct + 85) * 15, 100)]
  ELSE IF pct >= -250 THEN [status |-> "GUARDED", score |-> Nearest(4000 + (pct + 250) * 15, 100)]
  ELSE [status |-> "DEFENSE STOP", score |-> Max({10, Nearest(2000 + (pct + 500) * 8, 100)})]

\* A trial and a lot without a cost are given half.
PositionHealth(cost) ==
  IF mark = Null \/ cost = 0 THEN [status |-> "PENDING FILL", score |-> 50] ELSE health(mark)

StopArrives(w) == stop' = w /\ UNCHANGED mark
Marked(r) == mark' = r /\ UNCHANGED stop
StopInit == stop = Null /\ mark = Null
StopNext == (\E w \in Stops \cup {Null} : StopArrives(w)) \/ \E r \in Returns : Marked(r)

-----------------------------------------------------------------------------
(* The list of settled round trips. *)

Listed == {l \in DOMAIN trips : trips[l].book = tripBook}

\* The chosen life, or the first of the list: the newest.
active ==
  IF chosen \in Listed THEN chosen
  ELSE IF Listed = {} THEN Null
  ELSE CHOOSE l \in Listed : \A m \in Listed : trips[l].at >= trips[m].at

Settles(l, at, book) ==
  /\ l \notin DOMAIN trips
  /\ \A m \in DOMAIN trips : trips[m].at # at
  /\ trips' = [m \in DOMAIN trips \cup {l} |->
                 IF m = l THEN [at |-> at, book |-> book] ELSE trips[m]]
  /\ UNCHANGED <<chosen, tripBook, expanded>>

Evicted(l) ==
  /\ l \in DOMAIN trips
  /\ trips' = [m \in DOMAIN trips \ {l} |-> trips[m]]
  /\ UNCHANGED <<chosen, tripBook>>
  /\ expanded' = IF active' = Null THEN {} ELSE expanded

Choose(l) == l \in Listed /\ chosen' = l /\ UNCHANGED <<trips, tripBook, expanded>>

\* The rows are keyed by index: what is open stays open when the life changes,
\* and is forgotten only when no life is shown.
ToggleRow(i) ==
  /\ active # Null
  /\ expanded' = IF i \in expanded THEN expanded \ {i} ELSE expanded \cup {i}
  /\ UNCHANGED <<trips, chosen, tripBook>>

SwitchTripBook(b) ==
  /\ b # tripBook /\ tripBook' = b
  /\ UNCHANGED <<trips, chosen>>
  /\ expanded' = IF active' = Null THEN {} ELSE expanded

TripInit == trips = <<>> /\ chosen = Null /\ tripBook = "paper" /\ expanded = {}
TripNext ==
  \/ \E l \in Settled, at \in Stamps, b \in {"paper", "virtual"} : Settles(l, at, b)
  \/ \E l \in Settled : Evicted(l) \/ Choose(l)
  \/ \E i \in 1..MaxEvents : ToggleRow(i)
  \/ \E b \in {"paper", "virtual"} : SwitchTripBook(b)

-----------------------------------------------------------------------------
(* Properties. *)

\* An execution that is sent again changes nothing that is read off the lot:
\* not its quantity, cost, price, fees or dates, and not whether it is closed.
ReplayedFillIgnored ==
  \A f \in FillSet :
    (fills' = Append(fills, f) /\ f.id # Null /\ f \in Range(fills)) => lot' = lot

\* A lot has one card, and the card and the life of the lot agree: a lot with
\* an open life is on an open card and a lot with a closed life on a closed
\* one, whatever executions came and in whichever order.
CardsFollowLives ==
  \A now \in {lot} :
    /\ lifecycleFromDeskOpen(now) => selectPositions(now)
    /\ lifecycleFromDeskClosed(now) => selectClosed(now)
    /\ selectClosed(now) => now.closed

\* "Also accepts an already-normalized object": reading a stop again from the
\* life that holds it shows the same stop.
NormalizedTwice ==
  stop # Null =>
    LET s == normalizeStoploss(stop)
    IN  s # Null => normalizeStoploss(AsWire(s)) = s

\* A lot marked at or below its floor, and a stop that has left the healthy
\* states, never read as calm: the verdict is bad (the broker sends no
\* proximity of its own).
FloorIsAlarming ==
  (stop # Null /\ stop.proximity = Null) =>
    LET s == normalizeStoploss(stop)
    IN  s # Null /\ (s.current <= s.floor \/ stateTone(s.state) = "bad")
        => ExitPolicyPanel.verdict.tone = "bad"

Rank(status) == CHOOSE i \in 1..4 : <<"DEFENSE STOP", "GUARDED", "STABLE HOLD", "IN PROFIT">>[i] = status

\* A better mark never worsens the health status, and within a status never
\* lowers the score.
HealthFollowsMark ==
  mark # Null =>
    LET old == PositionHealth(1)
    IN  \A new \in {health(r) : r \in {x \in Returns : x > mark}} :
          /\ Rank(new.status) >= Rank(old.status)
          /\ new.status = old.status => new.score >= old.score
          /\ old.status = "GUARDED" => new.score >= old.score

\* The chosen round trip stays on show while others settle, are evicted or the
\* book is switched and back; only its own eviction shows another.
ChosenStaysShown ==
  (chosen' = chosen /\ chosen \in Listed /\ chosen \in Listed') => active' = chosen

\* A lot reads the same on every screen: its card is its life's, its stop
\* survives being read again, a breached floor is alarming wherever the stop
\* is judged, and the health gauge follows the mark.
LotReadsTrue == CardsFollowLives /\ NormalizedTwice /\ FloorIsAlarming /\ HealthFollowsMark
=============================================================================
