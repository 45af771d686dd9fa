------------------------------ MODULE Stoploss ------------------------------
(***************************************************************************)
(* The breathing stop of one lot: broker/stoploss.go.                      *)
(*                                                                         *)
(* Returns are whole units of percent.  The pace of the marks (markPace)   *)
(* depends on arrival times only, so it is any factor between MinPace and  *)
(* MaxPace tenths; each whole amount the floor may move by is the result   *)
(* of some pace in that range.                                             *)
(***************************************************************************)
EXTENDS Integers

CONSTANTS
  MaxLoss,   \* Risk.MaxAllowedLossPct
  Returns,   \* returns a lot may be marked at
  MinPace,   \* bounds: slowest and fastest mark pace against its baseline,
  MaxPace    \* in tenths

ASSUME MaxLossAssumption == MaxLoss \in Nat /\ MaxLoss > 0
ASSUME ReturnsAssumption == Returns \subseteq Int
ASSUME PaceAssumption == MinPace \in Nat /\ MaxPace \in Nat

VARIABLES state, initial, current, peak, floor

vars == <<state, initial, current, peak, floor>>

States == {"init", "healthy", "dangerous", "critical", "protected", "triggered"}
ProfitTarget == MaxLoss
Span == ProfitTarget + MaxLoss

Abs(n)      == IF n < 0 THEN -n ELSE n
Larger(m, n) == IF m > n THEN m ELSE n
Clamp(n)    == IF n < 0 THEN 0 ELSE IF n > Span THEN Span ELSE n

TypeOK ==
  /\ state \in States
  /\ initial \in Returns /\ current \in Returns /\ peak \in Returns
  /\ floor \in Int /\ floor >= -MaxLoss

\* NewStoploss
Init ==
  /\ state = "init"
  /\ initial \in Returns
  /\ current = initial /\ peak = initial
  /\ floor = -MaxLoss

\* Room above the floor, of Span: 1 - nearFloor in the code.
RoomAbove(p) == Clamp(p - floor)
\* The larger of nearFloor and nearProfit, of Span.
Pull(p) == Larger(Span - Clamp(p - floor), Span - Clamp(ProfitTarget - p))

\* Whole amounts |delta| * pace * weight / Span for a pace within the bounds.
Amounts(delta, weight) ==
  {a \in 0 .. Abs(delta) * MaxPace :
     /\ Abs(delta) * MinPace * weight <= 10 * a * Span
     /\ 10 * a * Span <= Abs(delta) * MaxPace * weight}

\* Mutant of Breathed: the two directions are swapped.
BreathedSwapped(p) ==
  IF p > current THEN {floor + a : a \in Amounts(p - current, RoomAbove(p))}
  ELSE IF p < current THEN {floor - a : a \in Amounts(p - current, Pull(p))}
  ELSE {floor}

\* breathe: an up-move widens the floor, a down-move tightens it.
Breathed(p) ==
  IF p > current THEN {floor - a : a \in Amounts(p - current, RoomAbove(p))}
  ELSE IF p < current THEN {floor + a : a \in Amounts(p - current, Pull(p))}
  ELSE {floor}

\* health: which of floor and profit target is nearer.
Health(p, f) ==
  IF p - f < ProfitTarget - p
  THEN IF Abs(initial) > 0 /\ p - f < Abs(initial) THEN "critical" ELSE "dangerous"
  ELSE "healthy"

\* Mutant of Settle: a return exactly at the floor is kept.
SettleStrict(p, f) ==
  /\ state' = IF p < f THEN "triggered"
              ELSE IF p >= ProfitTarget THEN "protected"
              ELSE Health(p, f)
  /\ floor' = IF p > f /\ p >= ProfitTarget /\ f < 0 THEN 0 ELSE f

\* Update(p) once the floor has breathed to f, clamped at the maximum loss.
Settle(p, f) ==
  /\ state' = IF p <= f THEN "triggered"
              ELSE IF p >= ProfitTarget THEN "protected"
              ELSE Health(p, f)
  /\ floor' = IF p > f /\ p >= ProfitTarget /\ f < 0 THEN 0 ELSE f

\* Mutant of Update: the stop is judged before the floor breathes.
UpdateJudgesFirst(p) ==
  /\ state # "triggered"
  /\ current' = p
  /\ peak' = Larger(peak, p)
  /\ \E f \in Breathed(p) : floor' = Larger(f, -MaxLoss)
  /\ state' = IF p <= floor THEN "triggered"
              ELSE IF p >= ProfitTarget THEN "protected"
              ELSE Health(p, floor)
  /\ UNCHANGED initial

\* Mutant of Update: a triggered stop keeps watching.
UpdateRevives(p) ==
  /\ current' = p
  /\ peak' = Larger(peak, p)
  /\ \E f \in Breathed(p) : Settle(p, Larger(f, -MaxLoss))
  /\ UNCHANGED initial

\* Mutant of Update: the widened floor is not clamped.
UpdateUnclamped(p) ==
  /\ state # "triggered"
  /\ current' = p
  /\ peak' = Larger(peak, p)
  /\ \E f \in Breathed(p) : Settle(p, f)
  /\ UNCHANGED initial

Update(p) ==
  /\ state # "triggered"
  /\ current' = p
  /\ peak' = Larger(peak, p)
  /\ \E f \in Breathed(p) : Settle(p, Larger(f, -MaxLoss))
  /\ UNCHANGED initial

\* Position.Update creates the stop and feeds it the same return at once;
\* afterwards every repricing feeds it the new one.
Next == \E p \in Returns : (state = "init" => p = initial) /\ Update(p)

Spec == Init /\ [][Next]_vars

-----------------------------------------------------------------------------
\* A lot the stop keeps is above its active floor and above the maximum loss,
\* although the floor itself moves in the very update that judges the lot.
SurvivorAboveFloor ==
  state \notin {"init", "triggered"} => current > floor /\ current > -MaxLoss

\* A protected lot keeps at least its entry: the floor is not below zero.
ProtectedFloor == state = "protected" => floor >= 0

\* The floor tightens on the way down: a falling mark never gives it room.
FallTightens == [][current' < current => floor' >= floor]_vars

\* The stop keeps the promise Position.Update relies on.
Contract == INSTANCE StopContract WITH live <- state # "triggered", pnl <- current
ImplementsContract == Contract!Spec
=============================================================================
