----------------------------- MODULE LotsProofs -----------------------------
(***************************************************************************)
(* Proofs about Lots, for every set of symbols and every bound.            *)
(*                                                                         *)
(* The safety properties are not inductive on their own.  IInv adds what   *)
(* holds between the steps of a settlement: which lots a goroutine or a    *)
(* task may still refer to, where the lot being settled is, and what the   *)
(* statistics and the fills were computed from.                            *)
(***************************************************************************)
EXTENDS Lots, TLAPS

Busy(w) == pc[w] \in {"reached"} \cup Settling

\* Whatever a map, a goroutine or a task refers to was entered, and the lot a
\* task is about to send belongs to the slot it works on.
Refs ==
  /\ open \cup closed \cup pending \cup closedAt \cup dropped \subseteq opened
  /\ \A w \in Workers : Busy(w) => ref[w] \in opened
  /\ \A l \in Lot : <<l, "enter">> \in sent => l \in opened
  /\ \A s \in Symbols : lots[s] \subseteq opened
  /\ \A s \in Symbols : task[s] = "send" =>
       lots[s] # {} /\ \A l \in lots[s] : l[1] = <<at[s], s>>

\* A goroutine past Remove has taken its lot out of the open map.
Removed ==
  \A w \in Workers : pc[w] \in Settling \ {"remove"} => ref[w] \notin open

\* Cache.Add keeps the lot that is there: one open lot per slot.
OneOpenPerSlot == \A k, l \in open : k[1] = l[1] => k = l

\* In a slot that was never dropped, a lot stays in the open map until the
\* goroutine that stopped it removes it.
Tracked ==
  \A l \in opened : In(dropped, l[1]) = {} =>
    /\ l \notin closedAt => l \in open
    /\ \A w \in Workers : pc[w] = "remove" /\ ref[w] = l => l \in open

PaperWon == \E l \in won : Tier(l) = "paper"

\* Every good reading of the paper tier goes back to a lot that was seen
\* closed at a profit.
Profit ==
  /\ \A l \in closedAt : pnl[l] \in PnLs /\ pnl[l] > 0 => l \in won
  /\ \A w \in Workers :
       pc[w] \in {"winrate", "edge", "store"} /\ tally[w].win = "majority" /\ Tier(ref[w]) = "paper"
         => PaperWon
  /\ winRate["paper"] = "majority" => PaperWon
  /\ unlocked => PaperWon

Executed(s) == \E o \in executed : Symbol(o[1]) = s

\* Every entry price comes from an execution on the lot's symbol.
Fills ==
  /\ \A l \in filled : Executed(Symbol(l))
  /\ \A w \in Workers : \A slot \in inhand[w] : Executed(slot[2])
  /\ \A w \in Feeds : pc[w] = "reached" => Executed(Symbol(ref[w]))
  /\ \A l \in Lot : pnl[l] # NoPnL => l \in filled
  /\ closedAt \subseteq filled

IInv ==
  /\ TypeOK
  /\ Refs
  /\ Removed
  /\ SettlesOnce
  /\ PendingIsSettled
  /\ OneOpenPerSlot
  /\ Tracked
  /\ Profit
  /\ RealFollowsPaperProfit
  /\ Fills

-----------------------------------------------------------------------------
\* The loop over the tiers of enterTiers stays within the tiers.
LEMMA NextTierTyped ==
  ASSUME NEW s \in Symbols, NextTier(s),
         task \in [Symbols -> TaskPcs], at \in [Symbols -> Tiers]
  PROVE  task' \in [Symbols -> TaskPcs] /\ at' \in [Symbols -> Tiers]
<1>1. {"gate", "done"} \subseteq TaskPcs /\ {"real", "virtual"} \subseteq Tiers
  BY DEF TaskPcs, Tiers
<1>2. CASE at[s] = "paper"
  BY <1>1, <1>2 DEF NextTier, TaskTo
<1>3. CASE at[s] # "paper"
  BY <1>1, <1>3 DEF NextTier, TaskTo
<1> QED
  BY <1>2, <1>3

\* Every action of every goroutine keeps the types.
LEMMA TypeStep == IInv /\ [Next]_vars => TypeOK'
<1> SUFFICES ASSUME IInv, [Next]_vars PROVE TypeOK'
  OBVIOUS
<1> USE DEF IInv, TypeOK, lotVars, tierVars, venueVars, goVars, stepVars,
            histVars, Goto, Lot, Slots, Order, In, Tier, Symbol, Repricing,
            Settling, Stepping, TaskPcs, Phases, Tallies, NoTally, WinRates,
            Tiers
<1>1. ASSUME NEW w \in Workers, NEW l \in Lot, Reach(w, l) PROVE TypeOK'
  BY <1>1 DEF Reach
<1>2. ASSUME NEW w \in Workers, NEW l \in Lot, Receive(w, l) PROVE TypeOK'
  BY <1>2 DEF Receive
<1>3. ASSUME NEW w \in Workers, NEW slot \in Slots, ReachFill(w, slot) PROVE TypeOK'
  BY <1>3 DEF ReachFill
<1>4. ASSUME NEW w \in Workers, NEW p \in PnLs \cup {NoPnL}, Reprice(w, p) PROVE TypeOK'
  <2>1. ref[w] \in Lot
    BY <1>4 DEF Reprice, Priced, Refs, Busy
  <2> QED
    BY <1>4, <2>1 DEF Reprice, Priced
<1>5. ASSUME NEW w \in Workers, NEW p \in PnLs \cup {NoPnL}, Trigger(w, p) PROVE TypeOK'
  <2>1. ref[w] \in Lot
    BY <1>5 DEF Trigger, Priced, Refs, Busy
  <2> QED
    BY <1>5, <2>1 DEF Trigger, Priced
<1>6. ASSUME NEW w \in Workers, Remove(w) PROVE TypeOK'
  BY <1>6 DEF Remove
<1>7. ASSUME NEW w \in Workers, Recount(w) PROVE TypeOK'
  <2>1. Edge(Tier(ref[w])) \in {-1, 0, 1}
    BY DEF Edge, Sign
  <2>2. WinRate(Tier(ref[w])) \in WinRates
    BY DEF WinRate
  <2> QED
    BY <1>7, <2>1, <2>2 DEF Recount
<1>8. ASSUME NEW w \in Workers, WriteWinRate(w) PROVE TypeOK'
  BY <1>8 DEF WriteWinRate
<1>9. ASSUME NEW w \in Workers, WriteEdge(w) PROVE TypeOK'
  BY <1>9 DEF WriteEdge
<1>10. ASSUME NEW w \in Workers, StorePending(w) PROVE TypeOK'
  <2>1. ref[w] \in Lot
    BY <1>10 DEF StorePending, Refs, Busy
  <2> QED
    BY <1>10, <2>1 DEF StorePending
<1>11. ASSUME BeginStep PROVE TypeOK'
  BY <1>11 DEF BeginStep, StepUnchanged
<1>12. ASSUME NEW s \in Symbols, SettleSkip(s) PROVE TypeOK'
  BY <1>12 DEF SettleSkip, Visit, StepUnchanged, Shown
<1>13. ASSUME NEW s \in Symbols, SettleKnown(s) PROVE TypeOK'
  BY <1>13 DEF SettleKnown, Visit, StepUnchanged, Shown, Clear
<1>14. ASSUME NEW s \in Symbols, SettleLearn(s) PROVE TypeOK'
  BY <1>14 DEF SettleLearn, Visit, StepUnchanged, Shown, Clear
<1>15. ASSUME NextPhase PROVE TypeOK'
  BY <1>15 DEF NextPhase, StepUnchanged
<1>16. ASSUME BeginTasks PROVE TypeOK'
  <2>1. task' \in [Symbols -> TaskPcs]
    BY <1>16 DEF BeginTasks
  <2>2. pc' \in [Workers -> Repricing \cup Settling \cup Stepping]
    BY <1>16 DEF BeginTasks
  <2>3. phase' \in Phases /\ left' \subseteq Symbols /\ seen' \subseteq Symbols /\ batch' \subseteq Lot
    BY <1>16 DEF BeginTasks
  <2> QED
    BY <1>16, <2>1, <2>2, <2>3 DEF BeginTasks, StepUnchanged
<1>17. ASSUME EndStep PROVE TypeOK'
  BY <1>17 DEF EndStep, StepUnchanged
<1>18. ASSUME NEW s \in Symbols, Look(s) PROVE TypeOK'
  BY <1>18 DEF Look, TaskUnchanged, StepUnchanged, TaskTo
<1>19. ASSUME NEW s \in Symbols, Skip(s) PROVE TypeOK'
  BY <1>19 DEF Skip, TaskUnchanged, StepUnchanged, TaskTo
<1>20. ASSUME NEW s \in Symbols, ExitLots(s) PROVE TypeOK'
  BY <1>20 DEF ExitLots, TaskUnchanged, StepUnchanged, TaskTo
<1>21. ASSUME NEW s \in Symbols, NEW t \in Routes, EnterTiers(s, t) PROVE TypeOK'
  BY <1>21, RoutesAssumption DEF EnterTiers, TaskUnchanged, StepUnchanged, TaskTo
<1>22. ASSUME NEW s \in Symbols, Gate(s) PROVE TypeOK'
  BY <1>22 DEF Gate, TaskUnchanged, StepUnchanged, TaskTo
<1>23. ASSUME NEW s \in Symbols, Deny(s) PROVE TypeOK'
  <2>1. task' \in [Symbols -> TaskPcs] /\ at' \in [Symbols -> Tiers]
    BY <1>23, NextTierTyped DEF Deny
  <2> QED
    BY <1>23, <2>1 DEF Deny, TaskUnchanged, StepUnchanged
<1>24. ASSUME NEW s \in Symbols, Admit(s) PROVE TypeOK'
  <2>1. opened' \subseteq Lot /\ open' \subseteq Lot /\ lots' \in [Symbols -> SUBSET Lot]
    BY <1>24 DEF Admit
  <2>2. task' \in [Symbols -> TaskPcs]
    BY <1>24 DEF Admit, TaskTo
  <2> QED
    BY <1>24, <2>1, <2>2 DEF Admit, TaskUnchanged, StepUnchanged
<1>25. ASSUME NEW s \in Symbols, Send(s) PROVE TypeOK'
  <2>1. sent' \subseteq Order /\ executed' \subseteq sent'
    BY <1>25 DEF Send
  <2>2. task' \in [Symbols -> TaskPcs] /\ at' \in [Symbols -> Tiers]
    BY <1>25, NextTierTyped DEF Send
  <2>3. lots' \in [Symbols -> SUBSET Lot]
    BY <1>25 DEF Send
  <2> QED
    BY <1>25, <2>1, <2>2, <2>3 DEF Send
<1>26. ASSUME NEW s \in Symbols, SendFails(s) PROVE TypeOK'
  <2>1. open' \subseteq Lot /\ closed' \subseteq Lot /\ dropped' \subseteq Lot
    BY <1>26 DEF SendFails
  <2>2. task' \in [Symbols -> TaskPcs] /\ at' \in [Symbols -> Tiers]
    BY <1>26, NextTierTyped DEF SendFails
  <2>3. lots' \in [Symbols -> SUBSET Lot]
    BY <1>26 DEF SendFails
  <2> QED
    BY <1>26, <2>1, <2>2, <2>3 DEF SendFails
<1>27. CASE UNCHANGED vars
  BY <1>27 DEF vars
<1> QED
  BY <1>1, <1>2, <1>3, <1>4, <1>5, <1>6, <1>7, <1>8, <1>9, <1>10, <1>11,
     <1>12, <1>13, <1>14, <1>15, <1>16, <1>17, <1>18, <1>19, <1>20, <1>21,
     <1>22, <1>23, <1>24, <1>25, <1>26, <1>27
     DEF Next, Work, Settle, Flush, Task

\* References: entered lots are never forgotten, and Admit is the only source
\* of new ones.
LEMMA RefsStep == IInv /\ [Next]_vars => Refs'
<1> SUFFICES ASSUME IInv, [Next]_vars PROVE Refs'
  OBVIOUS
<1> USE DEF IInv, TypeOK, Refs, lotVars, tierVars, venueVars, goVars,
            stepVars, histVars, Goto, In, Busy, Settling, Repricing, Stepping
<1>1. ASSUME NEW w \in Workers, NEW l \in Lot, Reach(w, l) PROVE Refs'
  BY <1>1 DEF Reach
<1>2. ASSUME NEW w \in Workers, NEW l \in Lot, Receive(w, l) PROVE Refs'
  BY <1>2 DEF Receive
<1>3. ASSUME NEW w \in Workers, NEW slot \in Slots, ReachFill(w, slot) PROVE Refs'
  BY <1>3 DEF ReachFill
<1>4. ASSUME NEW w \in Workers, NEW p \in PnLs \cup {NoPnL}, Reprice(w, p) PROVE Refs'
  BY <1>4 DEF Reprice, Priced
<1>5. ASSUME NEW w \in Workers, NEW p \in PnLs \cup {NoPnL}, Trigger(w, p) PROVE Refs'
  BY <1>5 DEF Trigger, Priced
<1>6. ASSUME NEW w \in Workers, Remove(w) PROVE Refs'
  BY <1>6 DEF Remove
<1>7. ASSUME NEW w \in Workers, Recount(w) PROVE Refs'
  BY <1>7 DEF Recount
<1>8. ASSUME NEW w \in Workers, WriteWinRate(w) PROVE Refs'
  BY <1>8 DEF WriteWinRate
<1>9. ASSUME NEW w \in Workers, WriteEdge(w) PROVE Refs'
  BY <1>9 DEF WriteEdge
<1>10. ASSUME NEW w \in Workers, StorePending(w) PROVE Refs'
  BY <1>10 DEF StorePending
<1>11. ASSUME Flush PROVE Refs'
  BY <1>11 DEF Flush, BeginStep, SettleSkip, SettleKnown, SettleLearn,
               NextPhase, BeginTasks, EndStep, Visit, StepUnchanged, Shown,
               Clear
<1>12. ASSUME NEW s \in Symbols, Look(s) PROVE Refs'
  BY <1>12 DEF Look, TaskUnchanged, StepUnchanged, TaskTo
<1>13. ASSUME NEW s \in Symbols, Skip(s) PROVE Refs'
  BY <1>13 DEF Skip, TaskUnchanged, StepUnchanged, TaskTo
<1>14. ASSUME NEW s \in Symbols, ExitLots(s) PROVE Refs'
  BY <1>14 DEF ExitLots, TaskUnchanged, StepUnchanged, TaskTo
<1>15. ASSUME NEW s \in Symbols, NEW t \in Routes, EnterTiers(s, t) PROVE Refs'
  BY <1>15 DEF EnterTiers, TaskUnchanged, StepUnchanged, TaskTo
<1>16. ASSUME NEW s \in Symbols, Gate(s) PROVE Refs'
  BY <1>16 DEF Gate, TaskUnchanged, StepUnchanged, TaskTo
<1>17. ASSUME NEW s \in Symbols, Deny(s) PROVE Refs'
  BY <1>17 DEF Deny, TaskUnchanged, StepUnchanged, TaskTo, NextTier
<1>18. ASSUME NEW s \in Symbols, Admit(s) PROVE Refs'
  BY <1>18 DEF Admit, TaskUnchanged, StepUnchanged, TaskTo
<1>19. ASSUME NEW s \in Symbols, Send(s) PROVE Refs'
  BY <1>19 DEF Send, TaskTo, NextTier
<1>20. ASSUME NEW s \in Symbols, SendFails(s) PROVE Refs'
  BY <1>20 DEF SendFails, TaskTo, NextTier
<1>21. CASE UNCHANGED vars
  BY <1>21 DEF vars
<1> QED
  BY <1>1, <1>2, <1>3, <1>4, <1>5, <1>6, <1>7, <1>8, <1>9, <1>10, <1>11,
     <1>12, <1>13, <1>14, <1>15, <1>16, <1>17, <1>18, <1>19, <1>20, <1>21
     DEF Next, Work, Settle, Task

\* Removed: only Admit adds to the open map, and it adds a new lot.
LEMMA RemovedStep == IInv /\ [Next]_vars => Removed'
<1> SUFFICES ASSUME IInv, [Next]_vars PROVE Removed'
  OBVIOUS
<1> USE DEF IInv, TypeOK, Refs, Removed, SettlesOnce, PendingIsSettled,
            lotVars, tierVars, venueVars, goVars, stepVars, histVars, Goto,
            In, Busy, Settling
<1>1. ASSUME NEW w \in Workers, NEW l \in Lot, Reach(w, l) PROVE Removed'
  BY <1>1 DEF Reach
<1>2. ASSUME NEW w \in Workers, NEW l \in Lot, Receive(w, l) PROVE Removed'
  BY <1>2 DEF Receive
<1>3. ASSUME NEW w \in Workers, NEW slot \in Slots, ReachFill(w, slot) PROVE Removed'
  BY <1>3 DEF ReachFill
<1>4. ASSUME NEW w \in Workers, NEW p \in PnLs \cup {NoPnL}, Reprice(w, p) PROVE Removed'
  BY <1>4 DEF Reprice, Priced
<1>5. ASSUME NEW w \in Workers, NEW p \in PnLs \cup {NoPnL}, Trigger(w, p) PROVE Removed'
  BY <1>5 DEF Trigger, Priced
<1>6. ASSUME NEW w \in Workers, Remove(w) PROVE Removed'
  BY <1>6 DEF Remove
<1>7. ASSUME NEW w \in Workers, Recount(w) PROVE Removed'
  BY <1>7 DEF Recount
<1>8. ASSUME NEW w \in Workers, WriteWinRate(w) PROVE Removed'
  BY <1>8 DEF WriteWinRate
<1>9. ASSUME NEW w \in Workers, WriteEdge(w) PROVE Removed'
  BY <1>9 DEF WriteEdge
<1>10. ASSUME NEW w \in Workers, StorePending(w) PROVE Removed'
  BY <1>10 DEF StorePending
<1>11. ASSUME Flush PROVE Removed'
  BY <1>11 DEF Flush, BeginStep, SettleSkip, SettleKnown, SettleLearn,
               NextPhase, BeginTasks, EndStep, Visit, StepUnchanged, Shown,
               Clear
<1>12. ASSUME NEW s \in Symbols, Look(s) PROVE Removed'
  BY <1>12 DEF Look, TaskUnchanged, StepUnchanged, TaskTo
<1>13. ASSUME NEW s \in Symbols, Skip(s) PROVE Removed'
  BY <1>13 DEF Skip, TaskUnchanged, StepUnchanged, TaskTo
<1>14. ASSUME NEW s \in Symbols, ExitLots(s) PROVE Removed'
  BY <1>14 DEF ExitLots, TaskUnchanged, StepUnchanged, TaskTo
<1>15. ASSUME NEW s \in Symbols, NEW t \in Routes, EnterTiers(s, t) PROVE Removed'
  BY <1>15 DEF EnterTiers, TaskUnchanged, StepUnchanged, TaskTo
<1>16. ASSUME NEW s \in Symbols, Gate(s) PROVE Removed'
  BY <1>16 DEF Gate, TaskUnchanged, StepUnchanged, TaskTo
<1>17. ASSUME NEW s \in Symbols, Deny(s) PROVE Removed'
  BY <1>17 DEF Deny, TaskUnchanged, StepUnchanged, TaskTo, NextTier
<1>18. ASSUME NEW s \in Symbols, Admit(s) PROVE Removed'
  BY <1>18 DEF Admit, TaskUnchanged, StepUnchanged, TaskTo
<1>19. ASSUME NEW s \in Symbols, Send(s) PROVE Removed'
  BY <1>19 DEF Send, TaskTo, NextTier
<1>20. ASSUME NEW s \in Symbols, SendFails(s) PROVE Removed'
  BY <1>20 DEF SendFails, TaskTo, NextTier
<1>21. CASE UNCHANGED vars
  BY <1>21 DEF vars
<1> QED
  BY <1>1, <1>2, <1>3, <1>4, <1>5, <1>6, <1>7, <1>8, <1>9, <1>10, <1>11,
     <1>12, <1>13, <1>14, <1>15, <1>16, <1>17, <1>18, <1>19, <1>20, <1>21
     DEF Next, Work, Settle, Task

\* onSettled once: Trigger needs a lot that is not closed, so neither pending
\* nor settled by another goroutine.
LEMMA SettlesOnceStep == IInv /\ [Next]_vars => SettlesOnce'
<1> SUFFICES ASSUME IInv, [Next]_vars PROVE SettlesOnce'
  OBVIOUS
<1> USE DEF IInv, TypeOK, SettlesOnce, PendingIsSettled, lotVars, tierVars,
            venueVars, goVars, stepVars, histVars, Goto, In, Busy, Settling
<1>1. ASSUME NEW w \in Workers, NEW l \in Lot, Reach(w, l) PROVE SettlesOnce'
  BY <1>1 DEF Reach
<1>2. ASSUME NEW w \in Workers, NEW l \in Lot, Receive(w, l) PROVE SettlesOnce'
  BY <1>2 DEF Receive
<1>3. ASSUME NEW w \in Workers, NEW slot \in Slots, ReachFill(w, slot) PROVE SettlesOnce'
  BY <1>3 DEF ReachFill
<1>4. ASSUME NEW w \in Workers, NEW p \in PnLs \cup {NoPnL}, Reprice(w, p) PROVE SettlesOnce'
  BY <1>4 DEF Reprice, Priced
<1>5. ASSUME NEW w \in Workers, NEW p \in PnLs \cup {NoPnL}, Trigger(w, p) PROVE SettlesOnce'
  BY <1>5 DEF Trigger, Priced
<1>6. ASSUME NEW w \in Workers, Remove(w) PROVE SettlesOnce'
  BY <1>6 DEF Remove
<1>7. ASSUME NEW w \in Workers, Recount(w) PROVE SettlesOnce'
  BY <1>7 DEF Recount
<1>8. ASSUME NEW w \in Workers, WriteWinRate(w) PROVE SettlesOnce'
  BY <1>8 DEF WriteWinRate
<1>9. ASSUME NEW w \in Workers, WriteEdge(w) PROVE SettlesOnce'
  BY <1>9 DEF WriteEdge
<1>10. ASSUME NEW w \in Workers, StorePending(w) PROVE SettlesOnce'
  BY <1>10 DEF StorePending
<1>11. ASSUME Flush PROVE SettlesOnce'
  BY <1>11 DEF Flush, BeginStep, SettleSkip, SettleKnown, SettleLearn,
               NextPhase, BeginTasks, EndStep, Visit, StepUnchanged, Shown,
               Clear
<1>12. ASSUME NEW s \in Symbols, Look(s) PROVE SettlesOnce'
  BY <1>12 DEF Look, TaskUnchanged, StepUnchanged, TaskTo
<1>13. ASSUME NEW s \in Symbols, Skip(s) PROVE SettlesOnce'
  BY <1>13 DEF Skip, TaskUnchanged, StepUnchanged, TaskTo
<1>14. ASSUME NEW s \in Symbols, ExitLots(s) PROVE SettlesOnce'
  BY <1>14 DEF ExitLots, TaskUnchanged, StepUnchanged, TaskTo
<1>15. ASSUME NEW s \in Symbols, NEW t \in Routes, EnterTiers(s, t) PROVE SettlesOnce'
  BY <1>15 DEF EnterTiers, TaskUnchanged, StepUnchanged, TaskTo
<1>16. ASSUME NEW s \in Symbols, Gate(s) PROVE SettlesOnce'
  BY <1>16 DEF Gate, TaskUnchanged, StepUnchanged, TaskTo
<1>17. ASSUME NEW s \in Symbols, Deny(s) PROVE SettlesOnce'
  BY <1>17 DEF Deny, TaskUnchanged, StepUnchanged, TaskTo, NextTier
<1>18. ASSUME NEW s \in Symbols, Admit(s) PROVE SettlesOnce'
  BY <1>18 DEF Admit, TaskUnchanged, StepUnchanged, TaskTo
<1>19. ASSUME NEW s \in Symbols, Send(s) PROVE SettlesOnce'
  BY <1>19 DEF Send, TaskTo, NextTier
<1>20. ASSUME NEW s \in Symbols, SendFails(s) PROVE SettlesOnce'
  BY <1>20 DEF SendFails, TaskTo, NextTier
<1>21. CASE UNCHANGED vars
  BY <1>21 DEF vars
<1> QED
  BY <1>1, <1>2, <1>3, <1>4, <1>5, <1>6, <1>7, <1>8, <1>9, <1>10, <1>11,
     <1>12, <1>13, <1>14, <1>15, <1>16, <1>17, <1>18, <1>19, <1>20, <1>21
     DEF Next, Work, Settle, Task

\* Pending: the stored lot was closed by Trigger and left the open map in Remove.
LEMMA PendingStep == IInv /\ [Next]_vars => PendingIsSettled'
<1> SUFFICES ASSUME IInv, [Next]_vars PROVE PendingIsSettled'
  OBVIOUS
<1> USE DEF IInv, TypeOK, Refs, Removed, SettlesOnce, PendingIsSettled,
            lotVars, tierVars, venueVars, goVars, stepVars, histVars, Goto,
            In, Busy, Settling
<1>1. ASSUME NEW w \in Workers, NEW l \in Lot, Reach(w, l) PROVE PendingIsSettled'
  BY <1>1 DEF Reach
<1>2. ASSUME NEW w \in Workers, NEW l \in Lot, Receive(w, l) PROVE PendingIsSettled'
  BY <1>2 DEF Receive
<1>3. ASSUME NEW w \in Workers, NEW slot \in Slots, ReachFill(w, slot) PROVE PendingIsSettled'
  BY <1>3 DEF ReachFill
<1>4. ASSUME NEW w \in Workers, NEW p \in PnLs \cup {NoPnL}, Reprice(w, p) PROVE PendingIsSettled'
  BY <1>4 DEF Reprice, Priced
<1>5. ASSUME NEW w \in Workers, NEW p \in PnLs \cup {NoPnL}, Trigger(w, p) PROVE PendingIsSettled'
  BY <1>5 DEF Trigger, Priced
<1>6. ASSUME NEW w \in Workers, Remove(w) PROVE PendingIsSettled'
  BY <1>6 DEF Remove
<1>7. ASSUME NEW w \in Workers, Recount(w) PROVE PendingIsSettled'
  BY <1>7 DEF Recount
<1>8. ASSUME NEW w \in Workers, WriteWinRate(w) PROVE PendingIsSettled'
  BY <1>8 DEF WriteWinRate
<1>9. ASSUME NEW w \in Workers, WriteEdge(w) PROVE PendingIsSettled'
  BY <1>9 DEF WriteEdge
<1>10. ASSUME NEW w \in Workers, StorePending(w) PROVE PendingIsSettled'
  BY <1>10 DEF StorePending
<1>11. ASSUME Flush PROVE PendingIsSettled'
  BY <1>11 DEF Flush, BeginStep, SettleSkip, SettleKnown, SettleLearn,
               NextPhase, BeginTasks, EndStep, Visit, StepUnchanged, Shown,
               Clear
<1>12. ASSUME NEW s \in Symbols, Look(s) PROVE PendingIsSettled'
  BY <1>12 DEF Look, TaskUnchanged, StepUnchanged, TaskTo
<1>13. ASSUME NEW s \in Symbols, Skip(s) PROVE PendingIsSettled'
  BY <1>13 DEF Skip, TaskUnchanged, StepUnchanged, TaskTo
<1>14. ASSUME NEW s \in Symbols, ExitLots(s) PROVE PendingIsSettled'
  BY <1>14 DEF ExitLots, TaskUnchanged, StepUnchanged, TaskTo
<1>15. ASSUME NEW s \in Symbols, NEW t \in Routes, EnterTiers(s, t) PROVE PendingIsSettled'
  BY <1>15 DEF EnterTiers, TaskUnchanged, StepUnchanged, TaskTo
<1>16. ASSUME NEW s \in Symbols, Gate(s) PROVE PendingIsSettled'
  BY <1>16 DEF Gate, TaskUnchanged, StepUnchanged, TaskTo
<1>17. ASSUME NEW s \in Symbols, Deny(s) PROVE PendingIsSettled'
  BY <1>17 DEF Deny, TaskUnchanged, StepUnchanged, TaskTo, NextTier
<1>18. ASSUME NEW s \in Symbols, Admit(s) PROVE PendingIsSettled'
  BY <1>18 DEF Admit, TaskUnchanged, StepUnchanged, TaskTo
<1>19. ASSUME NEW s \in Symbols, Send(s) PROVE PendingIsSettled'
  BY <1>19 DEF Send, TaskTo, NextTier
<1>20. ASSUME NEW s \in Symbols, SendFails(s) PROVE PendingIsSettled'
  BY <1>20 DEF SendFails, TaskTo, NextTier
<1>21. CASE UNCHANGED vars
  BY <1>21 DEF vars
<1> QED
  BY <1>1, <1>2, <1>3, <1>4, <1>5, <1>6, <1>7, <1>8, <1>9, <1>10, <1>11,
     <1>12, <1>13, <1>14, <1>15, <1>16, <1>17, <1>18, <1>19, <1>20, <1>21
     DEF Next, Work, Settle, Task

\* One open lot per slot: Admit requires the slot to be free.
LEMMA OneOpenStep == IInv /\ [Next]_vars => OneOpenPerSlot'
<1> SUFFICES ASSUME IInv, [Next]_vars PROVE OneOpenPerSlot'
  OBVIOUS
<1> USE DEF IInv, TypeOK, OneOpenPerSlot, lotVars, tierVars, venueVars,
            goVars, stepVars, histVars, In
<1>1. ASSUME NEW w \in Workers, NEW l \in Lot, Reach(w, l) PROVE OneOpenPerSlot'
  BY <1>1 DEF Reach
<1>2. ASSUME NEW w \in Workers, NEW l \in Lot, Receive(w, l) PROVE OneOpenPerSlot'
  BY <1>2 DEF Receive
<1>3. ASSUME NEW w \in Workers, NEW slot \in Slots, ReachFill(w, slot) PROVE OneOpenPerSlot'
  BY <1>3 DEF ReachFill
<1>4. ASSUME NEW w \in Workers, NEW p \in PnLs \cup {NoPnL}, Reprice(w, p) PROVE OneOpenPerSlot'
  BY <1>4 DEF Reprice, Priced
<1>5. ASSUME NEW w \in Workers, NEW p \in PnLs \cup {NoPnL}, Trigger(w, p) PROVE OneOpenPerSlot'
  BY <1>5 DEF Trigger, Priced
<1>6. ASSUME NEW w \in Workers, Remove(w) PROVE OneOpenPerSlot'
  BY <1>6 DEF Remove
<1>7. ASSUME NEW w \in Workers, Recount(w) PROVE OneOpenPerSlot'
  BY <1>7 DEF Recount
<1>8. ASSUME NEW w \in Workers, WriteWinRate(w) PROVE OneOpenPerSlot'
  BY <1>8 DEF WriteWinRate
<1>9. ASSUME NEW w \in Workers, WriteEdge(w) PROVE OneOpenPerSlot'
  BY <1>9 DEF WriteEdge
<1>10. ASSUME NEW w \in Workers, StorePending(w) PROVE OneOpenPerSlot'
  BY <1>10 DEF StorePending
<1>11. ASSUME Flush PROVE OneOpenPerSlot'
  BY <1>11 DEF Flush, BeginStep, SettleSkip, SettleKnown, SettleLearn,
               NextPhase, BeginTasks, EndStep, Visit, StepUnchanged, Shown,
               Clear
<1>12. ASSUME NEW s \in Symbols, Look(s) PROVE OneOpenPerSlot'
  BY <1>12 DEF Look, TaskUnchanged, StepUnchanged, TaskTo
<1>13. ASSUME NEW s \in Symbols, Skip(s) PROVE OneOpenPerSlot'
  BY <1>13 DEF Skip, TaskUnchanged, StepUnchanged, TaskTo
<1>14. ASSUME NEW s \in Symbols, ExitLots(s) PROVE OneOpenPerSlot'
  BY <1>14 DEF ExitLots, TaskUnchanged, StepUnchanged, TaskTo
<1>15. ASSUME NEW s \in Symbols, NEW t \in Routes, EnterTiers(s, t) PROVE OneOpenPerSlot'
  BY <1>15 DEF EnterTiers, TaskUnchanged, StepUnchanged, TaskTo
<1>16. ASSUME NEW s \in Symbols, Gate(s) PROVE OneOpenPerSlot'
  BY <1>16 DEF Gate, TaskUnchanged, StepUnchanged, TaskTo
<1>17. ASSUME NEW s \in Symbols, Deny(s) PROVE OneOpenPerSlot'
  BY <1>17 DEF Deny, TaskUnchanged, StepUnchanged, TaskTo, NextTier
<1>18. ASSUME NEW s \in Symbols, Admit(s) PROVE OneOpenPerSlot'
  BY <1>18 DEF Admit, TaskUnchanged, StepUnchanged, TaskTo
<1>19. ASSUME NEW s \in Symbols, Send(s) PROVE OneOpenPerSlot'
  BY <1>19 DEF Send, TaskTo, NextTier
<1>20. ASSUME NEW s \in Symbols, SendFails(s) PROVE OneOpenPerSlot'
  BY <1>20 DEF SendFails, TaskTo, NextTier
<1>21. CASE UNCHANGED vars
  BY <1>21 DEF vars
<1> QED
  BY <1>1, <1>2, <1>3, <1>4, <1>5, <1>6, <1>7, <1>8, <1>9, <1>10, <1>11,
     <1>12, <1>13, <1>14, <1>15, <1>16, <1>17, <1>18, <1>19, <1>20, <1>21
     DEF Next, Work, Settle, Task

\* Tracked: in a slot without drops the lot that Remove moves is the settled one.
LEMMA TrackedStep == IInv /\ [Next]_vars => Tracked'
<1> SUFFICES ASSUME IInv, [Next]_vars PROVE Tracked'
  OBVIOUS
<1> USE DEF IInv, TypeOK, Refs, Removed, SettlesOnce, OneOpenPerSlot, Tracked,
            lotVars, tierVars, venueVars, goVars, stepVars, histVars, Goto,
            In, Busy, Settling
<1>1. ASSUME NEW w \in Workers, NEW l \in Lot, Reach(w, l) PROVE Tracked'
  BY <1>1 DEF Reach
<1>2. ASSUME NEW w \in Workers, NEW l \in Lot, Receive(w, l) PROVE Tracked'
  BY <1>2 DEF Receive
<1>3. ASSUME NEW w \in Workers, NEW slot \in Slots, ReachFill(w, slot) PROVE Tracked'
  BY <1>3 DEF ReachFill
<1>4. ASSUME NEW w \in Workers, NEW p \in PnLs \cup {NoPnL}, Reprice(w, p) PROVE Tracked'
  BY <1>4 DEF Reprice, Priced
<1>5. ASSUME NEW w \in Workers, NEW p \in PnLs \cup {NoPnL}, Trigger(w, p) PROVE Tracked'
  BY <1>5 DEF Trigger, Priced
<1>6. ASSUME NEW w \in Workers, Remove(w) PROVE Tracked'
  BY <1>6 DEF Remove
<1>7. ASSUME NEW w \in Workers, Recount(w) PROVE Tracked'
  BY <1>7 DEF Recount
<1>8. ASSUME NEW w \in Workers, WriteWinRate(w) PROVE Tracked'
  BY <1>8 DEF WriteWinRate
<1>9. ASSUME NEW w \in Workers, WriteEdge(w) PROVE Tracked'
  BY <1>9 DEF WriteEdge
<1>10. ASSUME NEW w \in Workers, StorePending(w) PROVE Tracked'
  BY <1>10 DEF StorePending
<1>11. ASSUME Flush PROVE Tracked'
  BY <1>11 DEF Flush, BeginStep, SettleSkip, SettleKnown, SettleLearn,
               NextPhase, BeginTasks, EndStep, Visit, StepUnchanged, Shown,
               Clear
<1>12. ASSUME NEW s \in Symbols, Look(s) PROVE Tracked'
  BY <1>12 DEF Look, TaskUnchanged, StepUnchanged, TaskTo
<1>13. ASSUME NEW s \in Symbols, Skip(s) PROVE Tracked'
  BY <1>13 DEF Skip, TaskUnchanged, StepUnchanged, TaskTo
<1>14. ASSUME NEW s \in Symbols, ExitLots(s) PROVE Tracked'
  BY <1>14 DEF ExitLots, TaskUnchanged, StepUnchanged, TaskTo
<1>15. ASSUME NEW s \in Symbols, NEW t \in Routes, EnterTiers(s, t) PROVE Tracked'
  BY <1>15 DEF EnterTiers, TaskUnchanged, StepUnchanged, TaskTo
<1>16. ASSUME NEW s \in Symbols, Gate(s) PROVE Tracked'
  BY <1>16 DEF Gate, TaskUnchanged, StepUnchanged, TaskTo
<1>17. ASSUME NEW s \in Symbols, Deny(s) PROVE Tracked'
  BY <1>17 DEF Deny, TaskUnchanged, StepUnchanged, TaskTo, NextTier
<1>18. ASSUME NEW s \in Symbols, Admit(s) PROVE Tracked'
  BY <1>18 DEF Admit, TaskUnchanged, StepUnchanged, TaskTo
<1>19. ASSUME NEW s \in Symbols, Send(s) PROVE Tracked'
  BY <1>19 DEF Send, TaskTo, NextTier
<1>20. ASSUME NEW s \in Symbols, SendFails(s) PROVE Tracked'
  <2> DEFINE slot == <<at[s], s>>
  <2>1. In(dropped', slot) # {}
    BY <1>20 DEF SendFails
  <2>2. open' = {l \in open : l[1] # slot} /\ dropped \subseteq dropped'
    BY <1>20 DEF SendFails
  <2>3. UNCHANGED <<opened, closedAt, pc, ref>>
    BY <1>20 DEF SendFails
  <2> HIDE DEF slot
  <2> QED
    BY <2>1, <2>2, <2>3
<1>21. CASE UNCHANGED vars
  BY <1>21 DEF vars
<1> QED
  BY <1>1, <1>2, <1>3, <1>4, <1>5, <1>6, <1>7, <1>8, <1>9, <1>10, <1>11,
     <1>12, <1>13, <1>14, <1>15, <1>16, <1>17, <1>18, <1>19, <1>20, <1>21
     DEF Next, Work, Settle, Task

\* Profit: a majority is only ever computed from a lot in won.
LEMMA ProfitStep == IInv /\ [Next]_vars => Profit'
<1> SUFFICES ASSUME IInv, [Next]_vars PROVE Profit'
  OBVIOUS
<1> USE DEF IInv, TypeOK, Refs, Removed, SettlesOnce, PaperWon, Profit,
            lotVars, tierVars, venueVars, goVars, stepVars, histVars, Goto,
            In, Busy, Settling, Tier
<1>1. ASSUME NEW w \in Workers, NEW l \in Lot, Reach(w, l) PROVE Profit'
  BY <1>1 DEF Reach
<1>2. ASSUME NEW w \in Workers, NEW l \in Lot, Receive(w, l) PROVE Profit'
  BY <1>2 DEF Receive
<1>3. ASSUME NEW w \in Workers, NEW slot \in Slots, ReachFill(w, slot) PROVE Profit'
  BY <1>3 DEF ReachFill
<1>4. ASSUME NEW w \in Workers, NEW p \in PnLs \cup {NoPnL}, Reprice(w, p) PROVE Profit'
  BY <1>4 DEF Reprice, Priced
<1>5. ASSUME NEW w \in Workers, NEW p \in PnLs \cup {NoPnL}, Trigger(w, p) PROVE Profit'
  <2>1. ref[w] \in Lot /\ p \in PnLs
    BY <1>5 DEF Trigger, Priced
  <2>2. \A l \in closedAt' : pnl'[l] \in PnLs /\ pnl'[l] > 0 => l \in won'
    BY <1>5, <2>1 DEF Trigger, Priced
  <2> QED
    BY <1>5, <2>2 DEF Trigger
<1>6. ASSUME NEW w \in Workers, Remove(w) PROVE Profit'
  BY <1>6 DEF Remove
<1>7. ASSUME NEW w \in Workers, Recount(w) PROVE Profit'
  <2>1. WinRate("paper") = "majority" => PaperWon
    BY DEF WinRate, Wins, Counted
  <2>2. tally'[w].win = "majority" /\ Tier(ref[w]) = "paper" => PaperWon
    BY <1>7, <2>1 DEF Recount
  <2> QED
    BY <1>7, <2>2 DEF Recount
<1>8. ASSUME NEW w \in Workers, WriteWinRate(w) PROVE Profit'
  BY <1>8 DEF WriteWinRate
<1>9. ASSUME NEW w \in Workers, WriteEdge(w) PROVE Profit'
  BY <1>9 DEF WriteEdge
<1>10. ASSUME NEW w \in Workers, StorePending(w) PROVE Profit'
  BY <1>10 DEF StorePending
<1>11. ASSUME Flush PROVE Profit'
  BY <1>11 DEF Flush, BeginStep, SettleSkip, SettleKnown, SettleLearn,
               NextPhase, BeginTasks, EndStep, Visit, StepUnchanged, Shown,
               Clear
<1>12. ASSUME NEW s \in Symbols, Look(s) PROVE Profit'
  BY <1>12 DEF Look, TaskUnchanged, StepUnchanged, TaskTo
<1>13. ASSUME NEW s \in Symbols, Skip(s) PROVE Profit'
  BY <1>13 DEF Skip, TaskUnchanged, StepUnchanged, TaskTo
<1>14. ASSUME NEW s \in Symbols, ExitLots(s) PROVE Profit'
  BY <1>14 DEF ExitLots, TaskUnchanged, StepUnchanged, TaskTo
<1>15. ASSUME NEW s \in Symbols, NEW t \in Routes, EnterTiers(s, t) PROVE Profit'
  BY <1>15 DEF EnterTiers, TaskUnchanged, StepUnchanged, TaskTo
<1>16. ASSUME NEW s \in Symbols, Gate(s) PROVE Profit'
  <2>1. unlocked' => PaperWon
    BY <1>16 DEF Gate, Ok
  <2> QED
    BY <1>16, <2>1 DEF Gate, TaskUnchanged, StepUnchanged, TaskTo
<1>17. ASSUME NEW s \in Symbols, Deny(s) PROVE Profit'
  BY <1>17 DEF Deny, TaskUnchanged, StepUnchanged, TaskTo, NextTier
<1>18. ASSUME NEW s \in Symbols, Admit(s) PROVE Profit'
  BY <1>18 DEF Admit, TaskUnchanged, StepUnchanged, TaskTo
<1>19. ASSUME NEW s \in Symbols, Send(s) PROVE Profit'
  BY <1>19 DEF Send, TaskTo, NextTier
<1>20. ASSUME NEW s \in Symbols, SendFails(s) PROVE Profit'
  BY <1>20 DEF SendFails, TaskTo, NextTier
<1>21. CASE UNCHANGED vars
  BY <1>21 DEF vars
<1> QED
  BY <1>1, <1>2, <1>3, <1>4, <1>5, <1>6, <1>7, <1>8, <1>9, <1>10, <1>11,
     <1>12, <1>13, <1>14, <1>15, <1>16, <1>17, <1>18, <1>19, <1>20, <1>21
     DEF Next, Work, Settle, Task

\* The real tier admits only when unlocked, and unlocked goes back to won.
LEMMA RealStep == IInv /\ [Next]_vars => RealFollowsPaperProfit'
<1> SUFFICES ASSUME IInv, [Next]_vars PROVE RealFollowsPaperProfit'
  OBVIOUS
<1> USE DEF IInv, TypeOK, PaperWon, Profit, RealFollowsPaperProfit, lotVars,
            tierVars, venueVars, goVars, stepVars, histVars, In, Tier
<1>1. ASSUME NEW w \in Workers, NEW l \in Lot, Reach(w, l) PROVE RealFollowsPaperProfit'
  BY <1>1 DEF Reach
<1>2. ASSUME NEW w \in Workers, NEW l \in Lot, Receive(w, l) PROVE RealFollowsPaperProfit'
  BY <1>2 DEF Receive
<1>3. ASSUME NEW w \in Workers, NEW slot \in Slots, ReachFill(w, slot) PROVE RealFollowsPaperProfit'
  BY <1>3 DEF ReachFill
<1>4. ASSUME NEW w \in Workers, NEW p \in PnLs \cup {NoPnL}, Reprice(w, p) PROVE RealFollowsPaperProfit'
  BY <1>4 DEF Reprice, Priced
<1>5. ASSUME NEW w \in Workers, NEW p \in PnLs \cup {NoPnL}, Trigger(w, p) PROVE RealFollowsPaperProfit'
  BY <1>5 DEF Trigger, Priced
<1>6. ASSUME NEW w \in Workers, Remove(w) PROVE RealFollowsPaperProfit'
  BY <1>6 DEF Remove
<1>7. ASSUME NEW w \in Workers, Recount(w) PROVE RealFollowsPaperProfit'
  BY <1>7 DEF Recount
<1>8. ASSUME NEW w \in Workers, WriteWinRate(w) PROVE RealFollowsPaperProfit'
  BY <1>8 DEF WriteWinRate
<1>9. ASSUME NEW w \in Workers, WriteEdge(w) PROVE RealFollowsPaperProfit'
  BY <1>9 DEF WriteEdge
<1>10. ASSUME NEW w \in Workers, StorePending(w) PROVE RealFollowsPaperProfit'
  BY <1>10 DEF StorePending
<1>11. ASSUME Flush PROVE RealFollowsPaperProfit'
  BY <1>11 DEF Flush, BeginStep, SettleSkip, SettleKnown, SettleLearn,
               NextPhase, BeginTasks, EndStep, Visit, StepUnchanged, Shown,
               Clear
<1>12. ASSUME NEW s \in Symbols, Look(s) PROVE RealFollowsPaperProfit'
  BY <1>12 DEF Look, TaskUnchanged, StepUnchanged, TaskTo
<1>13. ASSUME NEW s \in Symbols, Skip(s) PROVE RealFollowsPaperProfit'
  BY <1>13 DEF Skip, TaskUnchanged, StepUnchanged, TaskTo
<1>14. ASSUME NEW s \in Symbols, ExitLots(s) PROVE RealFollowsPaperProfit'
  BY <1>14 DEF ExitLots, TaskUnchanged, StepUnchanged, TaskTo
<1>15. ASSUME NEW s \in Symbols, NEW t \in Routes, EnterTiers(s, t) PROVE RealFollowsPaperProfit'
  BY <1>15 DEF EnterTiers, TaskUnchanged, StepUnchanged, TaskTo
<1>16. ASSUME NEW s \in Symbols, Gate(s) PROVE RealFollowsPaperProfit'
  BY <1>16 DEF Gate, TaskUnchanged, StepUnchanged, TaskTo
<1>17. ASSUME NEW s \in Symbols, Deny(s) PROVE RealFollowsPaperProfit'
  BY <1>17 DEF Deny, TaskUnchanged, StepUnchanged, TaskTo, NextTier
<1>18. ASSUME NEW s \in Symbols, Admit(s) PROVE RealFollowsPaperProfit'
  BY <1>18 DEF Admit, TaskUnchanged, StepUnchanged, TaskTo
<1>19. ASSUME NEW s \in Symbols, Send(s) PROVE RealFollowsPaperProfit'
  BY <1>19 DEF Send, TaskTo, NextTier
<1>20. ASSUME NEW s \in Symbols, SendFails(s) PROVE RealFollowsPaperProfit'
  BY <1>20 DEF SendFails, TaskTo, NextTier
<1>21. CASE UNCHANGED vars
  BY <1>21 DEF vars
<1> QED
  BY <1>1, <1>2, <1>3, <1>4, <1>5, <1>6, <1>7, <1>8, <1>9, <1>10, <1>11,
     <1>12, <1>13, <1>14, <1>15, <1>16, <1>17, <1>18, <1>19, <1>20, <1>21
     DEF Next, Work, Settle, Task

\* Fills: an execution in hand is the only source of fills.
LEMMA FillsStep == IInv /\ [Next]_vars => Fills'
<1> SUFFICES ASSUME IInv, [Next]_vars PROVE Fills'
  OBVIOUS
<1> USE DEF IInv, TypeOK, Executed, Fills, Refs, lotVars, tierVars, venueVars,
            goVars, stepVars, histVars, Goto, In, Symbol, Settling
<1>1. ASSUME NEW w \in Workers, NEW l \in Lot, Reach(w, l) PROVE Fills'
  <2>1. w \notin Feeds
    BY <1>1, MarkersAssumption DEF Reach, Feeds
  <2> QED
    BY <1>1, <2>1 DEF Reach
<1>2. ASSUME NEW w \in Workers, NEW l \in Lot, Receive(w, l) PROVE Fills'
  BY <1>2 DEF Receive
<1>3. ASSUME NEW w \in Workers, NEW slot \in Slots, ReachFill(w, slot) PROVE Fills'
  <2>1. Executed(slot[2])
    BY <1>3 DEF ReachFill
  <2>2. CASE In(open, slot) = {} /\ UNCHANGED <<pc, ref>>
    BY <1>3, <2>2 DEF ReachFill
  <2>3. ASSUME NEW l \in In(open, slot), ref' = [ref EXCEPT ![w] = l], Goto(w, "reached")
        PROVE  Fills'
    <3>1. Symbol(l) = slot[2]
      BY <2>3
    <3> QED
      BY <1>3, <2>1, <2>3, <3>1 DEF ReachFill
  <2> QED
    BY <1>3, <2>2, <2>3 DEF ReachFill
<1>4. ASSUME NEW w \in Workers, NEW p \in PnLs \cup {NoPnL}, Reprice(w, p) PROVE Fills'
  BY <1>4 DEF Reprice, Priced
<1>5. ASSUME NEW w \in Workers, NEW p \in PnLs \cup {NoPnL}, Trigger(w, p) PROVE Fills'
  <2>1. ref[w] \in Lot
    BY <1>5 DEF Trigger, Priced, Busy
  <2>2. ref[w] \in filled' /\ filled \subseteq filled'
    BY <1>5, <2>1 DEF Trigger, Priced
  <2>3. \A l \in filled' : Executed(Symbol(l))
    BY <1>5, <2>1 DEF Trigger, Priced
  <2> QED
    BY <1>5, <2>1, <2>2, <2>3 DEF Trigger, Priced
<1>6. ASSUME NEW w \in Workers, Remove(w) PROVE Fills'
  BY <1>6 DEF Remove
<1>7. ASSUME NEW w \in Workers, Recount(w) PROVE Fills'
  BY <1>7 DEF Recount
<1>8. ASSUME NEW w \in Workers, WriteWinRate(w) PROVE Fills'
  BY <1>8 DEF WriteWinRate
<1>9. ASSUME NEW w \in Workers, WriteEdge(w) PROVE Fills'
  BY <1>9 DEF WriteEdge
<1>10. ASSUME NEW w \in Workers, StorePending(w) PROVE Fills'
  BY <1>10 DEF StorePending
<1>11. ASSUME Flush PROVE Fills'
  <2>1. UNCHANGED <<executed, filled, inhand, ref, pnl, closedAt>>
    BY <1>11 DEF Flush, BeginStep, SettleSkip, SettleKnown, SettleLearn, NextPhase,
               BeginTasks, EndStep, Visit, StepUnchanged
  <2>2. \A w \in Feeds : pc'[w] = pc[w]
    BY <1>11 DEF Flush, BeginStep, SettleSkip, SettleKnown, SettleLearn, NextPhase,
               BeginTasks, EndStep, Visit, Feeds, Workers
  <2> QED
    BY <2>1, <2>2
<1>12. ASSUME NEW s \in Symbols, Look(s) PROVE Fills'
  BY <1>12 DEF Look, TaskUnchanged, StepUnchanged, TaskTo
<1>13. ASSUME NEW s \in Symbols, Skip(s) PROVE Fills'
  BY <1>13 DEF Skip, TaskUnchanged, StepUnchanged, TaskTo
<1>14. ASSUME NEW s \in Symbols, ExitLots(s) PROVE Fills'
  BY <1>14 DEF ExitLots, TaskUnchanged, StepUnchanged, TaskTo
<1>15. ASSUME NEW s \in Symbols, NEW t \in Routes, EnterTiers(s, t) PROVE Fills'
  BY <1>15 DEF EnterTiers, TaskUnchanged, StepUnchanged, TaskTo
<1>16. ASSUME NEW s \in Symbols, Gate(s) PROVE Fills'
  BY <1>16 DEF Gate, TaskUnchanged, StepUnchanged, TaskTo
<1>17. ASSUME NEW s \in Symbols, Deny(s) PROVE Fills'
  BY <1>17 DEF Deny, TaskUnchanged, StepUnchanged, TaskTo, NextTier
<1>18. ASSUME NEW s \in Symbols, Admit(s) PROVE Fills'
  BY <1>18 DEF Admit, TaskUnchanged, StepUnchanged, TaskTo
<1>19. ASSUME NEW s \in Symbols, Send(s) PROVE Fills'
  BY <1>19 DEF Send, TaskTo, NextTier
<1>20. ASSUME NEW s \in Symbols, SendFails(s) PROVE Fills'
  BY <1>20 DEF SendFails, TaskTo, NextTier
<1>21. CASE UNCHANGED vars
  BY <1>21 DEF vars
<1> QED
  BY <1>1, <1>2, <1>3, <1>4, <1>5, <1>6, <1>7, <1>8, <1>9, <1>10, <1>11,
     <1>12, <1>13, <1>14, <1>15, <1>16, <1>17, <1>18, <1>19, <1>20, <1>21
     DEF Next, Work, Settle, Task

-----------------------------------------------------------------------------
\* The inductive invariant holds in every reachable state.
THEOREM Invariance == Spec => []IInv
<1>1. Init => IInv
  <2> SUFFICES ASSUME Init PROVE IInv
    OBVIOUS
  <2> USE DEF Init
  <2>1. TypeOK
    <3>1. /\ pc \in [Workers -> Repricing \cup Settling \cup Stepping]
          /\ ref \in [Workers -> Lot \cup {NoLot}]
          /\ tally \in [Workers -> Tallies]
          /\ inhand \in [Workers -> SUBSET Slots]
      BY DEF Repricing, Tallies, NoTally, WinRates
    <3>2. /\ task \in [Symbols -> TaskPcs]
          /\ at \in [Symbols -> Tiers]
          /\ lots \in [Symbols -> SUBSET Lot]
      BY DEF TaskPcs, Tiers
    <3>3. /\ pnl \in [Lot -> PnLs \cup {NoPnL}]
          /\ winRate \in [Tiers -> WinRates]
          /\ edge \in [Tiers -> {-1, 0, 1}]
      BY DEF WinRates
    <3>4. unlocked \in BOOLEAN
      BY Zenon
    <3>5. phase \in Phases
      BY DEF Phases
    <3> HIDE DEF Init
    <3>6. /\ opened = {} /\ filled = {} /\ closedAt = {} /\ exitPath = {}
          /\ open = {} /\ closed = {} /\ pending = {} /\ sent = {} /\ executed = {}
          /\ batch = {} /\ dropped = {} /\ won = {} /\ left = {} /\ seen = {}
      BY DEF Init
    <3> QED
      BY <3>1, <3>2, <3>3, <3>4, <3>5, <3>6 DEF TypeOK
  <2>2. Refs /\ Removed /\ SettlesOnce /\ PendingIsSettled
    BY DEF Refs, Busy, Removed, SettlesOnce, Settling, PendingIsSettled
  <2>3. OneOpenPerSlot /\ Tracked
    BY DEF OneOpenPerSlot, Tracked
  <2>4. Profit /\ RealFollowsPaperProfit
    BY DEF Profit, RealFollowsPaperProfit, Tiers
  <2>5. Fills
    BY DEF Fills, Workers
  <2> QED
    BY <2>1, <2>2, <2>3, <2>4, <2>5 DEF IInv
<1>2. IInv /\ [Next]_vars => IInv'
  BY TypeStep, RefsStep, RemovedStep, SettlesOnceStep, PendingStep, OneOpenStep,
     TrackedStep, ProfitStep, RealStep, FillsStep DEF IInv
<1> QED
  BY <1>1, <1>2, PTL DEF Spec

\* Types: every map, goroutine and task holds what the code declares.
THEOREM TypeCorrect == Spec => []TypeOK
BY Invariance, PTL DEF IInv

\* Position.Update's unlocked callback: a lot is settled once, by one goroutine.
THEOREM SettlementIsOnce == Spec => []SettlesOnce
BY Invariance, PTL DEF IInv

\* Tier.pending: a queued lot is closed and out of the open map.
THEOREM PendingSettled == Spec => []PendingIsSettled
BY Invariance, PTL DEF IInv

\* Cache.Remove and Cache.Drop go by symbol: a live lot is lost from the open
\* map only in a slot where an enter Write failed.
THEOREM LotsAreTracked == Spec => []LiveLotsTracked
<1>1. IInv => LiveLotsTracked
  BY DEF IInv, Refs, Tracked, LiveLotsTracked
<1> QED
  BY <1>1, Invariance, PTL

\* Tier.Unlocked: no real lot before a paper lot closed at a profit.
THEOREM RealGated == Spec => []RealFollowsPaperProfit
BY Invariance, PTL DEF IInv

\* Desk.Apply: no lot is stopped before a venue execution on its symbol.
THEOREM StopsNeedFills == Spec => []StopNeedsVenueFill
<1>1. IInv => StopNeedsVenueFill
  BY DEF IInv, Fills, Executed, StopNeedsVenueFill
<1> QED
  BY <1>1, Invariance, PTL
=============================================================================
