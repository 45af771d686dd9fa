-------------------------- MODULE PolicyTreeProofs --------------------------
(***************************************************************************)
(* Proofs about PolicyTree for any tasks, paths, prefixes and bounds.      *)
(***************************************************************************)
EXTENDS PolicyTree, TLAPS

\* A task about to seed a leaf that is there knows of another one that did.
RaceKnown ==
  \A t \in Tasks :
    pc[t] \in {"seed1", "seed2"} /\ Path(t) \in Present(tree) => Path(t) \in raced

IInv == TypeOK /\ StoredIsLive /\ ResistanceKept /\ RaceKnown

\* What an idle task holds is a lot by type.
LEMMA IdleTyped == Idle \in Jobs
BY PathsAssumption DEF Idle, Jobs

USE PathsAssumption, UnderAssumption, LevelsAssumption, BoundsAssumption, IdleTyped DEF Goto

\* A decision that is moved stays a decision and stays present.
LEMMA MovedTyped ==
  ASSUME TypeOK, NEW p \in Present(tree), NEW d \in Int
  PROVE  /\ Moved(p, d) \in Decision
         /\ Moved(p, d).action # "none"
         /\ Moved(p, d).resistance = tree[p].resistance + d
<1>1. tree[p] \in Decision /\ tree[p].action # "none"
  BY DEF TypeOK, Present
<1> QED
  BY <1>1 DEF Moved, Decision

\* Every action keeps the invariant.
LEMMA Step == IInv /\ [Next]_vars => IInv'
<1> SUFFICES ASSUME IInv, [Next]_vars PROVE IInv'
  OBVIOUS
<1> USE DEF IInv
<1>1. ASSUME NEW t \in Tasks, Exit(t) PROVE IInv'
  BY <1>1 DEF Exit, TypeOK, StoredIsLive, ResistanceKept, RaceKnown, Path, Present
<1>2. ASSUME NEW t \in Tasks, Check(t) PROVE IInv'
  BY <1>2 DEF Check, TypeOK, StoredIsLive, ResistanceKept, RaceKnown, Path, Present
<1>3. ASSUME NEW t \in Tasks, Insert(t) PROVE IInv'
  <2> DEFINE p == Path(t)
  <2>1. p \in Paths
    BY <1>3 DEF TypeOK, Path, Jobs
  <2>2. TypeOK'
    BY <1>3, <2>1 DEF Insert, TypeOK, Decision
  <2>3. StoredIsLive'
    BY <1>3, <2>1 DEF Insert, TypeOK, StoredIsLive, Present
  <2>4. ResistanceKept'
    BY <1>3, <2>1 DEF Insert, TypeOK, ResistanceKept, RaceKnown, Present
  <2>5. RaceKnown'
    BY <1>3, <2>1 DEF Insert, TypeOK, RaceKnown, Present, Path
  <2> QED
    BY <2>2, <2>3, <2>4, <2>5
<1>4. ASSUME NEW t \in Tasks, Update(t) PROVE IInv'
  <2> DEFINE d == job[t].delta
  <2>1. d \in Int
    BY DEF TypeOK, Jobs
  <2>2. TypeOK'
    BY <1>4, <2>1, MovedTyped DEF Update, TypeOK
  <2>3. Present(tree)' = Present(tree)
    BY <1>4, <2>1, MovedTyped DEF Update, Present
  <2>4. StoredIsLive'
    BY <1>4, <2>1, MovedTyped DEF Update, StoredIsLive, Present
  <2>5. ResistanceKept'
    BY <1>4, <2>1, <2>3, MovedTyped DEF Update, ResistanceKept, TypeOK, Present
  <2>6. RaceKnown'
    BY <1>4, <2>3 DEF Update, RaceKnown, Path, TypeOK
  <2> QED
    BY <2>2, <2>4, <2>5, <2>6
<1>5. ASSUME NEW t \in Tasks, NEW cut \in Paths, Predict(t, cut) PROVE IInv'
  <2>1. Absent \in Decision /\ Absent.action = "none"
    BY DEF Absent, Decision
  <2>2. TypeOK'
    BY <1>5, <2>1 DEF Predict, TypeOK
  <2>3. StoredIsLive'
    BY <1>5, <2>1 DEF Predict, TypeOK, StoredIsLive, Present, Prunes
  <2>4. ResistanceKept'
    BY <1>5, <2>1 DEF Predict, TypeOK, ResistanceKept, Present
  <2>5. RaceKnown'
    BY <1>5, <2>1 DEF Predict, TypeOK, RaceKnown, Present, Path
  <2> QED
    BY <2>2, <2>3, <2>4, <2>5
<1>6. CASE Restart
  BY <1>6 DEF Restart, TypeOK, StoredIsLive, ResistanceKept, RaceKnown, Path, Present
<1>7. CASE UNCHANGED vars
  BY <1>7 DEF vars, TypeOK, StoredIsLive, ResistanceKept, RaceKnown, Path, Present
<1> QED
  BY <1>1, <1>2, <1>3, <1>4, <1>5, <1>6, <1>7 DEF Next

\* The invariant holds in every reachable state.
THEOREM Invariance == Spec => []IInv
<1>1. Init => IInv
  BY DEF Init, IInv, TypeOK, StoredIsLive, ResistanceKept, RaceKnown, Path, Present, Absent,
         Decision
<1> QED
  BY <1>1, Step, PTL DEF Spec

\* Every variable keeps its type.
THEOREM TypeCorrect == Spec => []TypeOK
BY Invariance, PTL DEF IInv

\* Ensure and Update: resistance is never lost unless two tasks seed a leaf at
\* the same time.
THEOREM ResistanceIsKept == Spec => []ResistanceKept
BY Invariance, PTL DEF IInv

\* Predict and persist: the store never holds what the tree does not.
THEOREM StoreIsLive == Spec => []StoredIsLive
BY Invariance, PTL DEF IInv
=============================================================================
