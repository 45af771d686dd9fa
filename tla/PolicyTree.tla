----------------------------- MODULE PolicyTree -----------------------------
(***************************************************************************)
(* The tree of learned decisions, strategy/tree.go, as the concurrent      *)
(* tasks of Model.Step use it: Predict reads and prunes, Exit              *)
(* (strategy/model.go) seeds the entry and the exit path of a settled lot  *)
(* and then moves their resistance.  Every method takes the tree's lock,   *)
(* but Ensure takes it twice: for the check and for the insert.            *)
(*                                                                         *)
(* A path is an atom; Under says which paths have it as a prefix.  Paths   *)
(* are of the minimum length, the methods return at once for shorter ones. *)
(* Resistance is counted in steps of 0.05 and the brightness of the cut,   *)
(* on which no state depends, is left out.                                 *)
(***************************************************************************)
EXTENDS Integers

CONSTANTS
  Tasks,       \* tasks of a model step, one per symbol
  Paths,
  Under,       \* the paths that have a path as prefix, itself included
  Rank,        \* the order in which a walk meets paths
  Seed, Limit, \* resistance of a new leaf; above Limit a leaf is pruned
  MaxExits,    \* bound: lots settled
  MaxRestarts  \* bound: restarts of the process

ASSUME PathsAssumption == Paths # {}
ASSUME UnderAssumption ==
  Under \in [Paths -> SUBSET Paths] /\ \A p \in Paths : p \in Under[p]
ASSUME RankAssumption == Rank \in [Paths -> Int]
ASSUME LevelsAssumption == Seed \in Int /\ Limit \in Int
ASSUME BoundsAssumption == MaxExits \in Nat /\ MaxRestarts \in Nat

VARIABLES
  tree,        \* the decision at each path
  store,       \* the object at each path
  pc, job,     \* per task: where in Exit it is, and with which lot
  exits, restarts,
  ledger,      \* history: what a leaf was moved since it appeared
  raced        \* history: leaves seeded while another task was about to

vars == <<tree, store, pc, job, exits, restarts, ledger, raced>>

Decision == [action : {"none", "enter", "exit"}, resistance : Int]
Absent == [action |-> "none", resistance |-> 0]
Present(leaves) == {p \in Paths : leaves[p].action # "none"}

Jobs == [entry : Paths, exit : Paths, delta : {-1, 1}]
Idle == LET p == CHOOSE p \in Paths : TRUE IN [entry |-> p, exit |-> p, delta |-> 1]

TypeOK ==
  /\ tree \in [Paths -> Decision] /\ store \in [Paths -> Decision]
  /\ pc \in [Tasks -> {"idle", "check1", "seed1", "check2", "seed2", "move1", "move2"}]
  /\ job \in [Tasks -> Jobs]
  /\ exits \in Nat /\ restarts \in Nat
  /\ ledger \in [Paths -> Int] /\ raced \subseteq Paths

\* NewTree on an empty store.
Init ==
  /\ tree = [p \in Paths |-> Absent] /\ store = [p \in Paths |-> Absent]
  /\ pc = [t \in Tasks |-> "idle"] /\ job = [t \in Tasks |-> Idle]
  /\ exits = 0 /\ restarts = 0
  /\ ledger = [p \in Paths |-> 0] /\ raced = {}

Goto(t, label) == pc' = [pc EXCEPT ![t] = label]
Path(t) == IF pc[t] \in {"check1", "seed1", "move1"} THEN job[t].entry ELSE job[t].exit

\* Mutant of Exit: the delta is taken twice.
ExitTwice(t) ==
  /\ pc[t] = "idle" /\ exits < MaxExits
  /\ \E j \in Jobs : j.entry # j.exit /\ job' = [job EXCEPT ![t] = [j EXCEPT !.delta = 2 * @]]
  /\ exits' = exits + 1
  /\ Goto(t, "check1")
  /\ UNCHANGED <<tree, store, restarts, ledger, raced>>

\* Exit settles a lot, at a gain (-1) or not (1).
Exit(t) ==
  /\ pc[t] = "idle" /\ exits < MaxExits
  /\ \E j \in Jobs : j.entry # j.exit /\ job' = [job EXCEPT ![t] = j]
  /\ exits' = exits + 1
  /\ Goto(t, "check1")
  /\ UNCHANGED <<tree, store, restarts, ledger, raced>>

\* Mutant of Check: a leaf that is there is seeded again.
CheckNothing(t) ==
  /\ pc[t] \in {"check1", "check2"}
  /\ Goto(t, IF pc[t] = "check1" THEN "seed1" ELSE "seed2")
  /\ UNCHANGED <<tree, store, job, exits, restarts, ledger, raced>>

\* Ensure looks the path up and gives the lock back.
Check(t) ==
  /\ pc[t] \in {"check1", "check2"}
  /\ Goto(t, IF Path(t) \in Present(tree)
             THEN IF pc[t] = "check1" THEN "check2" ELSE "move1"
             ELSE IF pc[t] = "check1" THEN "seed1" ELSE "seed2")
  /\ UNCHANGED <<tree, store, job, exits, restarts, ledger, raced>>

\* Insert puts a fresh decision, whatever is there by now, and persists it.
Insert(t) ==
  LET p == Path(t)
      leaf == [action |-> IF pc[t] = "seed1" THEN "enter" ELSE "exit", resistance |-> Seed] IN
  /\ pc[t] \in {"seed1", "seed2"}
  /\ tree' = [tree EXCEPT ![p] = leaf]
  /\ store' = [store EXCEPT ![p] = leaf]
  /\ ledger' = [ledger EXCEPT ![p] = IF p \in Present(tree) THEN @ ELSE 0]
  /\ raced' = IF \E u \in Tasks \ {t} : pc[u] \in {"seed1", "seed2"} /\ Path(u) = p
              THEN raced \cup {p} ELSE raced
  /\ Goto(t, IF pc[t] = "seed1" THEN "check2" ELSE "move1")
  /\ UNCHANGED <<job, exits, restarts>>

Moved(p, d) == [tree[p] EXCEPT !.resistance = @ + d]

\* Update moves every leaf under the path, and persists it.
Update(t) ==
  LET moved == Under[Path(t)] \cap Present(tree) IN
  /\ pc[t] \in {"move1", "move2"}
  /\ tree' = [p \in Paths |-> IF p \in moved THEN Moved(p, job[t].delta) ELSE tree[p]]
  /\ store' = [p \in Paths |-> IF p \in moved THEN Moved(p, job[t].delta) ELSE store[p]]
  /\ ledger' = [p \in Paths |-> IF p \in moved THEN ledger[p] + job[t].delta ELSE ledger[p]]
  /\ Goto(t, IF pc[t] = "move1" THEN "move2" ELSE "idle")
  /\ job' = IF pc[t] = "move1" THEN job ELSE [job EXCEPT ![t] = Idle]
  /\ UNCHANGED <<exits, restarts, raced>>

\* The leaves a walk under a cut prunes: those that agree with the first one
\* and resist too much.
Prunes(cut) ==
  LET leaves == Under[cut] \cap Present(tree) IN
  {p \in leaves :
     /\ tree[p].resistance > Limit
     /\ \E first \in leaves :
          /\ \A q \in leaves : Rank[first] <= Rank[q]
          /\ tree[first].action = tree[p].action}

\* Mutant of Predict: the objects stay.
PredictKeepsObjects(t, cut) ==
  /\ pc[t] = "idle" /\ Prunes(cut) # {}
  /\ tree' = [p \in Paths |-> IF p \in Prunes(cut) THEN Absent ELSE tree[p]]
  /\ raced' = raced \ Prunes(cut)
  /\ UNCHANGED <<store, pc, job, exits, restarts, ledger>>

\* Predict deletes the leaf from the tree, and from the store every object
\* whose key starts with its path.
Predict(t, cut) ==
  /\ pc[t] = "idle" /\ Prunes(cut) # {}
  /\ tree' = [p \in Paths |-> IF p \in Prunes(cut) THEN Absent ELSE tree[p]]
  /\ store' = [p \in Paths |-> IF \E q \in Prunes(cut) : p \in Under[q] THEN Absent ELSE store[p]]
  /\ raced' = raced \ Prunes(cut)
  /\ UNCHANGED <<pc, job, exits, restarts, ledger>>

\* The process ends between any two steps; NewTree loads what is stored.
Restart ==
  /\ restarts < MaxRestarts
  /\ restarts' = restarts + 1
  /\ tree' = store
  /\ pc' = [t \in Tasks |-> "idle"] /\ job' = [t \in Tasks |-> Idle]
  /\ UNCHANGED <<store, exits, ledger, raced>>

Next ==
  \/ \E t \in Tasks :
       \/ Exit(t) \/ Check(t) \/ Insert(t) \/ Update(t)
       \/ \E cut \in Paths : Predict(t, cut)
  \/ Restart

Spec == Init /\ [][Next]_vars

-----------------------------------------------------------------------------
\* Ensure and Update: a leaf's resistance is its seed and all it was moved
\* since it appeared, over tasks, prunes and restarts, unless two tasks were
\* about to seed it at the same time.
ResistanceKept ==
  \A p \in Present(tree) \ raced : tree[p].resistance = Seed + ledger[p]

\* Predict and persist: what is stored is what the tree holds, so a restart
\* brings back no pruned decision and no old resistance.
StoredIsLive == \A p \in Present(store) : store[p] = tree[p]
=============================================================================
