--------------------------- MODULE StoplossProofs ---------------------------
(***************************************************************************)
(* Proofs about Stoploss for every loss limit, every set of returns and    *)
(* every pace.  All that is needed of breathe is its direction, so no      *)
(* proof looks into the amounts.                                           *)
(***************************************************************************)
EXTENDS Stoploss, TLAPS

\* breathe moves the floor by a whole, non-negative amount in one direction.
LEMMA BreathedDirection ==
  ASSUME TypeOK, NEW p \in Returns, NEW f \in Breathed(p)
  PROVE  f \in Int /\ (p < current => f >= floor)
<1>1. \A delta, weight : \A a \in Amounts(delta, weight) : a \in Int /\ a >= 0
  BY DEF Amounts
<1>2. p \in Int /\ current \in Int /\ floor \in Int
  BY ReturnsAssumption DEF TypeOK
<1>3. CASE p > current
  <2>1. PICK a \in Amounts(p - current, RoomAbove(p)) : f = floor - a
    BY <1>3 DEF Breathed
  <2> QED
    BY <1>1, <1>2, <1>3, <2>1
<1>4. CASE p < current
  <2>1. PICK a \in Amounts(p - current, Pull(p)) : f = floor + a
    BY <1>2, <1>4 DEF Breathed
  <2> QED
    BY <1>1, <1>2, <2>1
<1>5. CASE p = current
  BY <1>2, <1>5 DEF Breathed
<1> QED
  BY <1>2, <1>3, <1>4, <1>5

\* What one update does to the state and the floor, with the floor it breathed
\* to already replaced by its bounds.
LEMMA UpdateEffect ==
  ASSUME TypeOK, NEW p \in Returns, Update(p)
  PROVE  /\ state # "triggered" /\ current' = p /\ initial' = initial
         /\ peak' \in Returns
         /\ floor' \in Int /\ floor' >= -MaxLoss
         /\ p < current => floor' >= floor
         /\ state' \in States
         /\ state' # "triggered" => p > floor' /\ p > -MaxLoss
         /\ state' = "protected" => floor' >= 0
<1>1. PICK f \in Breathed(p) : Settle(p, Larger(f, -MaxLoss))
  BY DEF Update
<1> DEFINE g == Larger(f, -MaxLoss)
<1>2. p \in Int /\ current \in Int /\ floor \in Int /\ floor >= -MaxLoss
  BY ReturnsAssumption DEF TypeOK
<1>3. f \in Int /\ (p < current => f >= floor)
  BY BreathedDirection
<1>4. g \in Int /\ g >= -MaxLoss /\ (p < current => g >= floor)
  BY <1>2, <1>3, MaxLossAssumption DEF Larger
<1>5. Health(p, g) \in {"healthy", "dangerous", "critical"}
  BY DEF Health
<1>6. peak' \in Returns
  BY DEF Update, Larger, TypeOK
<1> HIDE DEF g
<1>7. Settle(p, g)
  BY <1>1 DEF g
<1>8. /\ floor' \in Int /\ floor' >= g
      /\ state' = "triggered" \/ p > g
      /\ state' = "protected" => floor' >= 0
      /\ state' # "triggered" => p > floor'
  BY <1>2, <1>4, <1>5, <1>7, MaxLossAssumption DEF Settle, ProfitTarget
<1>9. state' \in States
  BY <1>5, <1>7 DEF Settle, States
<1> QED
  BY <1>2, <1>4, <1>6, <1>8, <1>9, MaxLossAssumption DEF Update

IInv == TypeOK /\ SurvivorAboveFloor /\ ProtectedFloor

\* The safety properties are inductive together with the types.
THEOREM Invariance == Spec => []IInv
<1>1. Init => IInv
  <2> SUFFICES ASSUME Init PROVE IInv
    OBVIOUS
  <2>1. floor \in Int /\ floor >= -MaxLoss
    BY MaxLossAssumption DEF Init
  <2>2. state \in States /\ initial \in Returns /\ current \in Returns /\ peak \in Returns
    BY DEF Init, States
  <2>3. SurvivorAboveFloor /\ ProtectedFloor
    BY DEF Init, SurvivorAboveFloor, ProtectedFloor
  <2> QED
    BY <2>1, <2>2, <2>3 DEF IInv, TypeOK
<1>2. IInv /\ [Next]_vars => IInv'
  <2> SUFFICES ASSUME IInv, [Next]_vars PROVE IInv'
    OBVIOUS
  <2>1. ASSUME NEW p \in Returns, Update(p) PROVE IInv'
    BY <2>1, UpdateEffect DEF IInv, TypeOK, SurvivorAboveFloor, ProtectedFloor
  <2>2. CASE UNCHANGED vars
    BY <2>2 DEF vars, IInv, TypeOK, SurvivorAboveFloor, ProtectedFloor
  <2> QED
    BY <2>1, <2>2 DEF Next
<1> QED
  BY <1>1, <1>2, PTL DEF Spec

\* The floor never passes the maximum loss, and every field keeps its type.
THEOREM TypeCorrect == Spec => []TypeOK
BY Invariance, PTL DEF IInv

\* Update: a lot that is kept is above its floor and above the maximum loss.
THEOREM SurvivorsAboveFloor == Spec => []SurvivorAboveFloor
BY Invariance, PTL DEF IInv

\* Update: a protected lot has a floor of at least zero.
THEOREM ProtectionHolds == Spec => []ProtectedFloor
BY Invariance, PTL DEF IInv

\* breathe: a falling mark never lowers the floor.
THEOREM FallsTighten == Spec => FallTightens
<1>1. TypeOK /\ [Next]_vars => [current' < current => floor' >= floor]_vars
  BY UpdateEffect DEF Next, vars
<1> QED
  BY <1>1, TypeCorrect, PTL DEF Spec, FallTightens

\* The breathing stop implements the contract Position.Update relies on.
THEOREM Refinement == Spec => ImplementsContract
<1>1. Init => Contract!Init
  BY DEF Init, Contract!Init
<1>2. TypeOK /\ [Next]_vars => [Contract!Watch]_<<state # "triggered", current>>
  <2> SUFFICES ASSUME TypeOK, [Next]_vars
               PROVE  [Contract!Watch]_<<state # "triggered", current>>
    OBVIOUS
  <2>1. ASSUME NEW p \in Returns, Update(p) PROVE Contract!Watch
    <3>1. state # "triggered" /\ current' \in Returns
          /\ (state' # "triggered" => current' > -MaxLoss)
      BY <2>1, UpdateEffect
    <3>2. (state' # "triggered") \in BOOLEAN
      OBVIOUS
    <3> QED
      BY <3>1, <3>2 DEF Contract!Watch
  <2>2. CASE UNCHANGED vars
    BY <2>2 DEF vars
  <2> QED
    BY <2>1, <2>2 DEF Next
<1> QED
  BY <1>1, <1>2, TypeCorrect, PTL DEF Spec, ImplementsContract, Contract!Spec
=============================================================================
