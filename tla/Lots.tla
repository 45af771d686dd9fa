-------------------------------- MODULE Lots --------------------------------
(***************************************************************************)
(* The life of a trading lot: broker/position.go, broker/cache.go,         *)
(* broker/tier.go, broker/desk.go and the part of strategy/model.go that   *)
(* opens lots and records how they ended.                                  *)
(*                                                                         *)
(* Goroutines.  "level3" reprices lots when their book changes, "trade"    *)
(* reprices them when a trade prints and then runs the model step on the   *)
(* same goroutine, "paper" and "real" apply executions read from the two   *)
(* private transports.  A model step runs one concurrent task per symbol.  *)
(*                                                                         *)
(* A lot that hits its stop is closed under its own lock, and only then,   *)
(* unlocked, is moved between the tier's maps, counted, and queued for the *)
(* model: Trigger, Remove, Recount, WriteWinRate, WriteEdge, StorePending. *)
(*                                                                         *)
(* A lot is the pair of its slot (tier, symbol) and an id.  A Go map keyed *)
(* by symbol is a set with at most one lot per slot, a pointer field that  *)
(* is nil or set is membership of a set of lots.                           *)
(***************************************************************************)
EXTENDS Integers, FiniteSets, FiniteSetsExt

CONSTANTS
  Symbols,    \* traded symbols
  MaxLots,    \* bound: lots ever opened in one slot
  MaxOpened,  \* bound: lots ever opened in all slots
  PnLs,       \* round-trip returns a repricing may compute
  NoPnL,      \* PnLPct == nil
  NoLot,      \* a goroutine that holds no lot
  Markers,    \* goroutines that call Desk.mark
  Routes,     \* routes enterTiers takes: "virtual", and "paper" then real
  RealOn,     \* market.model is "real": the real tier has a transport
  WriteFails  \* a transport Write may return an error

ASSUME SymbolsAssumption == IsFiniteSet(Symbols)
ASSUME MaxLotsAssumption == MaxLots \in Nat /\ MaxOpened \in Nat
ASSUME PnLsAssumption == PnLs \subseteq Int /\ NoPnL \notin Int
ASSUME MarkersAssumption == Markers \subseteq {"level3", "trade"}
ASSUME RoutesAssumption == Routes \subseteq {"virtual", "paper"}
ASSUME SwitchAssumption == RealOn \in BOOLEAN /\ WriteFails \in BOOLEAN

Tiers == {"virtual", "paper", "real"}
Slots == Tiers \X Symbols
Lot   == Slots \X (1 .. MaxLots)
Order == Lot \X {"enter", "exit"}

ASSUME NoLotAssumption == NoLot \notin Lot

Tier(l)     == l[1][1]
Symbol(l)   == l[1][2]
In(S, slot) == {l \in S : l[1] = slot}

\* Goroutines that call Desk.Apply, one per private transport.
Feeds   == {"paper"} \cup (IF RealOn THEN {"real"} ELSE {})
Workers == Markers \cup {"trade"} \cup Feeds

\* The virtual tier never has a transport; the real one only when armed.
Transport(t) == t \in Feeds

VARIABLES
  (* Position *)
  opened,    \* lots that were entered
  filled,    \* lots that recorded a buy fill, so that an entry price is known
  pnl,       \* PnLPct of a lot
  closedAt,  \* lots whose ClosedAt is set
  exitPath,  \* lots whose ExitPath is set
  (* Tier and Cache *)
  open, closed, pending, winRate, edge, unlocked,
  (* venue *)
  sent,      \* orders a transport accepted
  executed,  \* those whose execution was read back
  (* goroutines *)
  pc, ref, tally, inhand,
  (* Model.Step on the trade goroutine *)
  phase, left, seen, batch, task, at,
  lots,      \* the lots a task holds references to
  (* history, read by properties only *)
  dropped,   \* lots whose enter Write failed
  won        \* lots seen with a positive return while closed

lotVars   == <<opened, filled, pnl, closedAt, exitPath>>
tierVars  == <<open, closed, pending, winRate, edge, unlocked>>
venueVars == <<sent, executed>>
goVars    == <<pc, ref, tally, inhand>>
stepVars  == <<phase, left, seen, batch, task, at, lots>>
histVars  == <<dropped, won>>
vars == <<lotVars, tierVars, venueVars, goVars, stepVars, histVars>>

WinRates  == {"zero", "minority", "majority"}
Tallies   == [win : WinRates, edge : {-1, 0, 1}, counted : BOOLEAN]
NoTally   == [win |-> "zero", edge |-> 0, counted |-> FALSE]
Repricing == {"idle", "reached"}
Settling  == {"remove", "recount", "winrate", "edge", "store"}
Stepping  == {"flush", "tasks"}
TaskPcs   == {"done", "look", "act", "gate", "admit", "send"}
Phases    == 1 .. 4

\* The tier whose pending lots each phase of flushSettled visits; the last
\* phase walks the closed virtual lots instead.
PhaseTier == <<"virtual", "paper", "real", "virtual">>

TypeOK ==
  /\ opened \subseteq Lot /\ filled \subseteq Lot /\ closedAt \subseteq Lot
  /\ exitPath \subseteq Lot /\ open \subseteq Lot /\ closed \subseteq Lot
  /\ pending \subseteq Lot /\ batch \subseteq Lot
  /\ dropped \subseteq Lot /\ won \subseteq Lot
  /\ sent \subseteq Order /\ executed \subseteq sent
  /\ pnl \in [Lot -> PnLs \cup {NoPnL}]
  /\ winRate \in [Tiers -> WinRates]
  /\ edge \in [Tiers -> {-1, 0, 1}]
  /\ unlocked \in BOOLEAN
  /\ pc \in [Workers -> Repricing \cup Settling \cup Stepping]
  /\ ref \in [Workers -> Lot \cup {NoLot}]
  /\ tally \in [Workers -> Tallies]
  /\ inhand \in [Workers -> SUBSET Slots]
  /\ phase \in Phases
  /\ left \subseteq Symbols
  /\ seen \subseteq Symbols
  /\ task \in [Symbols -> TaskPcs]
  /\ at \in [Symbols -> Tiers]
  /\ lots \in [Symbols -> SUBSET Lot]

Init ==
  /\ opened = {} /\ filled = {} /\ closedAt = {} /\ exitPath = {}
  /\ pnl = [l \in Lot |-> NoPnL]
  /\ open = {} /\ closed = {} /\ pending = {}
  /\ winRate = [t \in Tiers |-> "zero"] /\ edge = [t \in Tiers |-> 0]
  /\ unlocked = FALSE
  /\ sent = {} /\ executed = {}
  /\ pc = [w \in Workers |-> "idle"] /\ ref = [w \in Workers |-> NoLot]
  /\ tally = [w \in Workers |-> NoTally]
  /\ inhand = [w \in Workers |-> {}]
  /\ phase = 1 /\ left = {} /\ seen = {} /\ batch = {}
  /\ task = [s \in Symbols |-> "done"]
  /\ at = [s \in Symbols |-> "virtual"]
  /\ lots = [s \in Symbols |-> {}]
  /\ dropped = {} /\ won = {}

Goto(w, label) == pc' = [pc EXCEPT ![w] = label]

-----------------------------------------------------------------------------
(* Repricing: Position.Update and Position.Apply.                          *)

\* Tier.Update: the cache is listed under its lock, then each lot is updated.
Reach(w, l) ==
  /\ w \in Markers /\ pc[w] = "idle"
  /\ l \in open \cup closed
  /\ ref' = [ref EXCEPT ![w] = l]
  /\ Goto(w, "reached")
  /\ UNCHANGED <<lotVars, tierVars, venueVars, tally, inhand, stepVars, histVars>>

\* Mutant of Receive: an execution is taken for an order never accepted.
ReceiveUnsent(w, l) ==
  /\ w \in Feeds /\ pc[w] = "idle" /\ inhand[w] = {}
  /\ l \in opened /\ Tier(l) = w
  /\ executed' = executed \cup {<<l, "enter">>}
  /\ inhand' = [inhand EXCEPT ![w] = Tiers \X {Symbol(l)}]
  /\ UNCHANGED <<lotVars, tierVars, sent, pc, ref, tally, stepVars, histVars>>

\* Desk.Apply takes the next execution: it goes to the open lot of that
\* symbol in every tier, whichever order it answers.  An order is filled in
\* any number of executions, and they may be read late.
Receive(w, l) ==
  /\ w \in Feeds /\ pc[w] = "idle" /\ inhand[w] = {}
  /\ <<l, "enter">> \in sent /\ Tier(l) = w
  /\ executed' = executed \cup {<<l, "enter">>}
  /\ inhand' = [inhand EXCEPT ![w] = Tiers \X {Symbol(l)}]
  /\ UNCHANGED <<lotVars, tierVars, sent, pc, ref, tally, stepVars, histVars>>

ReachFill(w, slot) ==
  /\ w \in Feeds /\ pc[w] = "idle" /\ slot \in inhand[w]
  /\ inhand' = [inhand EXCEPT ![w] = @ \ {slot}]
  /\ \/ /\ In(open, slot) = {}
        /\ UNCHANGED <<pc, ref>>
     \/ \E l \in In(open, slot) :
          /\ ref' = [ref EXCEPT ![w] = l]
          /\ Goto(w, "reached")
  /\ UNCHANGED <<lotVars, tierVars, venueVars, tally, stepVars, histVars>>

\* Mutant of Priced: without a fill the mark stands in for the entry price.
PricedFromMark(w, p) ==
  LET l == ref[w] IN
  /\ pc[w] = "reached"
  /\ filled' = IF w \in Feeds THEN filled \cup {l} ELSE filled
  /\ p = pnl[l] \/ p \in PnLs
  /\ pnl' = [pnl EXCEPT ![l] = p]

\* The lot's new return is p: a fill is appended first, an entry price and a
\* readable book give a new return, otherwise the old one stays.
Priced(w, p) ==
  LET l == ref[w] IN
  /\ pc[w] = "reached"
  /\ filled' = IF w \in Feeds THEN filled \cup {l} ELSE filled
  /\ p = pnl[l] \/ (l \in filled' /\ p \in PnLs)
  /\ pnl' = [pnl EXCEPT ![l] = p]

\* A closed lot, a lot without a return and a lot whose stop holds: nothing
\* more happens.  (The return of a closed lot has been overwritten all the same.)
Reprice(w, p) ==
  /\ Priced(w, p)
  /\ won' = IF ref[w] \in closedAt /\ p \in PnLs /\ p > 0 THEN won \cup {ref[w]} ELSE won
  /\ Goto(w, "idle")
  /\ ref' = [ref EXCEPT ![w] = NoLot]
  /\ UNCHANGED <<opened, closedAt, exitPath, tierVars, venueVars,
                 tally, inhand, stepVars, dropped>>

\* Mutant of Trigger: the ClosedAt check before the stop is dropped.
TriggerAgain(w, p) ==
  /\ p # NoPnL
  /\ Priced(w, p)
  /\ closedAt' = closedAt \cup {ref[w]}
  /\ won' = IF p > 0 THEN won \cup {ref[w]} ELSE won
  /\ Goto(w, "remove")
  /\ UNCHANGED <<opened, exitPath, tierVars, venueVars,
                 ref, tally, inhand, stepVars, dropped>>

\* The stop triggers: ClosedAt is set under the lock, then the lock is
\* released and onSettled starts.
Trigger(w, p) ==
  /\ ref[w] \notin closedAt
  /\ p # NoPnL
  /\ Priced(w, p)
  /\ closedAt' = closedAt \cup {ref[w]}
  /\ won' = IF p > 0 THEN won \cup {ref[w]} ELSE won
  /\ Goto(w, "remove")
  /\ UNCHANGED <<opened, exitPath, tierVars, venueVars,
                 ref, tally, inhand, stepVars, dropped>>

-----------------------------------------------------------------------------
(* onSettled: Cache.Remove, Tier.Recalculate, pending.Store.               *)

\* Mutant of Remove: the lot is filed under "closed" but not deleted from "open".
RemoveCopies(w) ==
  LET moved == In(open, ref[w][1]) IN
  /\ pc[w] = "remove"
  /\ closed' = IF moved = {} THEN closed ELSE (closed \ In(closed, ref[w][1])) \cup moved
  /\ Goto(w, "recount")
  /\ UNCHANGED <<lotVars, open, pending, winRate, edge, unlocked, venueVars,
                 ref, tally, inhand, stepVars, histVars>>

Remove(w) ==
  LET moved == In(open, ref[w][1]) IN
  /\ pc[w] = "remove"
  /\ open' = open \ moved
  /\ closed' = IF moved = {} THEN closed ELSE (closed \ In(closed, ref[w][1])) \cup moved
  /\ Goto(w, "recount")
  /\ UNCHANGED <<lotVars, pending, winRate, edge, unlocked, venueVars,
                 ref, tally, inhand, stepVars, histVars>>

Sign(n) == IF n > 0 THEN 1 ELSE IF n < 0 THEN -1 ELSE 0

\* The lots Recalculate counts, and what it makes of them.
Counted(t) == {l \in closed : Tier(l) = t /\ l \in closedAt /\ pnl[l] \in PnLs}
Wins(t)    == {l \in Counted(t) : pnl[l] > 0}

WinRate(t) ==
  IF Wins(t) = {} THEN "zero"
  ELSE IF 2 * Cardinality(Wins(t)) > Cardinality(Counted(t)) THEN "majority"
  ELSE "minority"

Edge(t) == Sign(MapThenSumSet(LAMBDA l : pnl[l], Counted(t)))

Recount(w) ==
  LET t == Tier(ref[w]) IN
  /\ pc[w] = "recount"
  /\ tally' = [tally EXCEPT ![w] =
       [win |-> WinRate(t), edge |-> Edge(t), counted |-> Counted(t) # {}]]
  /\ Goto(w, "winrate")
  /\ UNCHANGED <<lotVars, tierVars, venueVars, ref, inhand, stepVars, histVars>>

\* WinRate and Edge are written one after the other without a lock.
WriteWinRate(w) ==
  /\ pc[w] = "winrate"
  /\ winRate' = [winRate EXCEPT ![Tier(ref[w])] = tally[w].win]
  /\ Goto(w, "edge")
  /\ UNCHANGED <<lotVars, open, closed, pending, edge, unlocked, venueVars,
                 ref, tally, inhand, stepVars, histVars>>

WriteEdge(w) ==
  LET t == Tier(ref[w]) IN
  /\ pc[w] = "edge"
  /\ edge' = [edge EXCEPT ![t] = tally[w].edge]
  /\ unlocked' = (unlocked /\ ~ (t = "real" /\ tally[w].counted
                                 /\ ~ (winRate[t] = "majority" /\ edge'[t] > 0)))
  /\ Goto(w, "store")
  /\ UNCHANGED <<lotVars, open, closed, pending, winRate, venueVars,
                 ref, tally, inhand, stepVars, histVars>>

StorePending(w) ==
  /\ pc[w] = "store"
  /\ pending' = (pending \ In(pending, ref[w][1])) \cup {ref[w]}
  /\ Goto(w, "idle")
  /\ ref' = [ref EXCEPT ![w] = NoLot]
  /\ tally' = [tally EXCEPT ![w] = NoTally]
  /\ UNCHANGED <<lotVars, open, closed, winRate, edge, unlocked, venueVars,
                 inhand, stepVars, histVars>>

-----------------------------------------------------------------------------
(* Model.flushSettled, first thing in a model step.                        *)

StepUnchanged == UNCHANGED <<ref, tally, inhand, venueVars, histVars>>

BeginStep ==
  /\ pc["trade"] = "idle"
  /\ Goto("trade", "flush")
  /\ left' = Symbols
  /\ StepUnchanged
  /\ UNCHANGED <<lotVars, tierVars, phase, seen, batch, task, at, lots>>

\* Lots the current phase shows settle for symbol s: pending ones are read
\* from the live map, closed virtual ones from the list taken at its start.
Shown(s) ==
  LET source == IF phase = 4 THEN batch ELSE pending
  IN  In(source, <<PhaseTier[phase], s>>)

NoneShown == \A s \in left : Shown(s) = {}

Clear(s) == pending' = {l \in pending : Symbol(l) # s}

Visit(s) ==
  /\ pc["trade"] = "flush" /\ s \in left
  /\ left' = left \ {s}
  /\ StepUnchanged
  /\ UNCHANGED <<pc, phase, batch, task, at, lots, open, closed, winRate, edge,
                 unlocked, opened, filled, pnl, closedAt>>

\* A symbol already handled in this flush, or no usable cut for the lot.
SettleSkip(s) ==
  /\ Visit(s)
  /\ \E l \in Shown(s) : s \in seen \/ l \notin exitPath
  /\ UNCHANGED <<seen, pending, exitPath>>

\* The exit was recorded before: only the queue is cleared, in every tier.
SettleKnown(s) ==
  /\ Visit(s)
  /\ s \notin seen
  /\ \E l \in Shown(s) : l \in exitPath
  /\ Clear(s)
  /\ seen' = seen \cup {s}
  /\ UNCHANGED exitPath

\* exitCut finds a path: Model.Exit records it and scores the tree.
SettleLearn(s) ==
  /\ Visit(s)
  /\ s \notin seen
  /\ \E l \in Shown(s) : l \notin exitPath /\ exitPath' = exitPath \cup {l}
  /\ Clear(s)
  /\ seen' = seen \cup {s}

NextPhase ==
  /\ pc["trade"] = "flush" /\ NoneShown /\ phase < 4
  /\ phase' = phase + 1
  /\ left' = Symbols
  /\ batch' = IF phase = 3 THEN {l \in closed : Tier(l) = "virtual"} ELSE batch
  /\ StepUnchanged
  /\ UNCHANGED <<pc, lotVars, tierVars, seen, task, at, lots>>

BeginTasks ==
  /\ pc["trade"] = "flush" /\ NoneShown /\ phase = 4
  /\ Goto("trade", "tasks")
  /\ phase' = 1 /\ left' = {} /\ seen' = {} /\ batch' = {}
  /\ task' = [s \in Symbols |-> "look"]
  /\ StepUnchanged
  /\ UNCHANGED <<lotVars, tierVars, at, lots>>

EndStep ==
  /\ pc["trade"] = "tasks"
  /\ \A s \in Symbols : task[s] = "done"
  /\ Goto("trade", "idle")
  /\ StepUnchanged
  /\ UNCHANGED <<lotVars, tierVars, stepVars>>

-----------------------------------------------------------------------------
(* Model.Step's task for one symbol.                                       *)

TaskTo(s, label) == task' = [task EXCEPT ![s] = label]

TaskUnchanged ==
  /\ StepUnchanged
  /\ UNCHANGED <<pc, phase, left, seen, batch>>

\* openLots: the lots of the symbol not closed at this moment.
Look(s) ==
  /\ task[s] = "look"
  /\ lots' = [lots EXCEPT ![s] = {l \in open : Symbol(l) = s /\ l \notin closedAt}]
  /\ TaskTo(s, "act")
  /\ TaskUnchanged
  /\ UNCHANGED <<lotVars, tierVars, at>>

\* A gate, a disagreement, a story that is not bullish, a leaf with nothing to
\* act on, or a hold: the held path only feeds a later exitCut.
Skip(s) ==
  /\ task[s] = "act"
  /\ TaskTo(s, "done")
  /\ lots' = [lots EXCEPT ![s] = {}]
  /\ TaskUnchanged
  /\ UNCHANGED <<lotVars, tierVars, at>>

\* Model.Exit on every lot whose entry path differs from the live one: it
\* records the path and scores the tree.  No order is sent and the lot stays
\* where it is.
ExitLots(s) ==
  /\ task[s] = "act" /\ lots[s] # {}
  /\ \E differ \in SUBSET lots[s] : exitPath' = exitPath \cup differ
  /\ TaskTo(s, "done")
  /\ lots' = [lots EXCEPT ![s] = {}]
  /\ TaskUnchanged
  /\ UNCHANGED <<opened, filled, pnl, closedAt, tierVars, at>>

\* enterTiers: a virtual sample, or paper followed by real.
EnterTiers(s, t) ==
  /\ task[s] = "act"
  /\ at' = [at EXCEPT ![s] = t]
  /\ lots' = [lots EXCEPT ![s] = {}]
  /\ TaskTo(s, "gate")
  /\ TaskUnchanged
  /\ UNCHANGED <<lotVars, tierVars>>

Ok(t)     == winRate[t] = "majority" /\ edge[t] > 0
Virgin(t) == winRate[t] = "zero" /\ edge[t] = 0

\* Mutant of Gate: a virgin real tier unlocks without a proven paper tier.
GateVirgin(s) ==
  /\ task[s] = "gate"
  /\ unlocked' = IF at[s] = "real"
                 THEN Virgin("real") \/ (Ok("paper") /\ Ok("real"))
                 ELSE unlocked
  /\ TaskTo(s, "admit")
  /\ TaskUnchanged
  /\ UNCHANGED <<lotVars, open, closed, pending, winRate, edge, at, lots>>

\* Desk.Enter calls Tier.Unlocked; only the real tier is ever locked.
Gate(s) ==
  /\ task[s] = "gate"
  /\ unlocked' = IF at[s] = "real"
                 THEN Ok("paper") /\ (Virgin("real") \/ Ok("real"))
                 ELSE unlocked
  /\ TaskTo(s, "admit")
  /\ TaskUnchanged
  /\ UNCHANGED <<lotVars, open, closed, pending, winRate, edge, at, lots>>

\* The next tier of enterTiers, or the end of the task.
NextTier(s) ==
  IF at[s] = "paper"
  THEN TaskTo(s, "gate") /\ at' = [at EXCEPT ![s] = "real"]
  ELSE TaskTo(s, "done") /\ at' = [at EXCEPT ![s] = "virtual"]

\* Locked, a physical or size denial, or a lot already open in the slot.
Deny(s) ==
  /\ task[s] = "admit"
  /\ NextTier(s)
  /\ TaskUnchanged
  /\ UNCHANGED <<lotVars, tierVars, lots>>

\* Mutant of Admit: the Has check is dropped.
AdmitTwice(s) ==
  LET slot == <<at[s], s>> IN
  /\ task[s] = "admit"
  /\ at[s] = "real" => unlocked
  /\ Cardinality(opened) < MaxOpened
  /\ \E l \in In(Lot \ opened, slot) :
       /\ \A k \in In(Lot \ opened, slot) : l[2] <= k[2]
       /\ opened' = opened \cup {l}
       /\ open' = open \cup {l}
       /\ lots' = [lots EXCEPT ![s] = {l}]
  /\ TaskTo(s, "send")
  /\ TaskUnchanged
  /\ UNCHANGED <<filled, pnl, closedAt, exitPath, closed, pending,
                 winRate, edge, unlocked, at>>

\* Tier.Enter up to Cache.Add: nothing else adds to the slot in between.
Admit(s) ==
  LET slot == <<at[s], s>> IN
  /\ task[s] = "admit"
  /\ at[s] = "real" => unlocked
  /\ In(open, slot) = {}
  /\ Cardinality(opened) < MaxOpened
  /\ \E l \in In(Lot \ opened, slot) :
       /\ \A k \in In(Lot \ opened, slot) : l[2] <= k[2]
       /\ opened' = opened \cup {l}
       /\ open' = open \cup {l}
       /\ lots' = [lots EXCEPT ![s] = {l}]
  /\ TaskTo(s, "send")
  /\ TaskUnchanged
  /\ UNCHANGED <<filled, pnl, closedAt, exitPath, closed, pending,
                 winRate, edge, unlocked, at>>

\* Tier.Send of the enter order; without a transport there is none.
Send(s) ==
  /\ task[s] = "send"
  /\ sent' = IF Transport(at[s]) THEN sent \cup (lots[s] \X {"enter"}) ELSE sent
  /\ lots' = [lots EXCEPT ![s] = {}]
  /\ NextTier(s)
  /\ UNCHANGED <<lotVars, tierVars, executed, goVars, phase, left, seen, batch, histVars>>

\* Write failed: Cache.Drop forgets the slot, its closed lot included.
SendFails(s) ==
  LET slot == <<at[s], s>> IN
  /\ WriteFails
  /\ task[s] = "send" /\ Transport(at[s])
  /\ open' = open \ In(open, slot)
  /\ closed' = closed \ In(closed, slot)
  /\ dropped' = dropped \cup lots[s]
  /\ lots' = [lots EXCEPT ![s] = {}]
  /\ NextTier(s)
  /\ UNCHANGED <<lotVars, pending, winRate, edge, unlocked, venueVars, goVars,
                 phase, left, seen, batch, won>>

-----------------------------------------------------------------------------
Settle(w) ==
  \/ Remove(w)
  \/ Recount(w)
  \/ WriteWinRate(w)
  \/ WriteEdge(w)
  \/ StorePending(w)

Work(w) ==
  \/ \E l \in Lot : Reach(w, l) \/ Receive(w, l)
  \/ \E slot \in Slots : ReachFill(w, slot)
  \/ \E p \in PnLs \cup {NoPnL} : Reprice(w, p) \/ Trigger(w, p)
  \/ Settle(w)

Flush ==
  \/ BeginStep
  \/ \E s \in Symbols : SettleSkip(s) \/ SettleKnown(s) \/ SettleLearn(s)
  \/ NextPhase
  \/ BeginTasks
  \/ EndStep

Task(s) ==
  \/ Look(s)
  \/ Skip(s)
  \/ ExitLots(s)
  \/ \E t \in Routes : EnterTiers(s, t)
  \/ Gate(s)
  \/ Deny(s)
  \/ Admit(s)
  \/ Send(s)
  \/ SendFails(s)

Next ==
  \/ \E w \in Workers : Work(w)
  \/ Flush
  \/ \E s \in Symbols : Task(s)

Spec == Init /\ [][Next]_vars

-----------------------------------------------------------------------------
(* Properties.                                                             *)

\* A lot queued for the model is closed, and its slot no longer holds it as
\* open: StorePending runs after Remove, unlocked, while other goroutines
\* reprice, enter and drop lots of the same symbol.
PendingIsSettled == pending \subseteq closedAt /\ pending \cap open = {}

\* onSettled runs once per lot, on one goroutine, although several goroutines
\* may reprice the lot while its lock is released around the callback.
SettlesOnce ==
  \A w \in Workers : pc[w] \in Settling =>
    /\ ref[w] \in closedAt
    /\ ref[w] \notin pending
    /\ \A v \in Workers \ {w} : pc[v] \in Settling => ref[v] # ref[w]

\* A lot whose order the venue took and whose stop has not triggered is in the
\* open map, where fills, marks and the model find it - unless an enter Write
\* of its slot failed at some time: Drop and Remove go by symbol, so a settle
\* delayed past a Drop takes the next lot of the slot out of the open map.
LiveLotsTracked ==
  \A l \in Lot :
    <<l, "enter">> \in sent /\ l \notin closedAt =>
      l \in open \/ In(dropped, l[1]) # {}

\* The real tier opens a lot only after some paper lot closed at a profit,
\* whatever Recalculate races with: WinRate and Edge are written separately.
RealFollowsPaperProfit ==
  (\E l \in opened : Tier(l) = "real") => (\E l \in won : Tier(l) = "paper")

\* A lot is stopped only once a venue execution on its symbol was read:
\* Desk.Apply is the only source of entry prices, for virtual lots too.
StopNeedsVenueFill ==
  \A l \in closedAt : \E o \in executed : Symbol(o[1]) = Symbol(l)

\* Goroutines that run onSettled finish it: there is no lock to wait for.
Fairness == \A w \in Workers : WF_vars(Settle(w))
FairSpec == Spec /\ Fairness

\* What the comments on the stop say: a lot that hits its floor exits, that
\* is, the inventory it bought is offered for sale.
StoppedLotIsSold ==
  \A l \in Lot : l \in closedAt /\ <<l, "enter">> \in executed ~> <<l, "exit">> \in sent
=============================================================================
