---------------------------- MODULE RepriceLocks ----------------------------
(***************************************************************************)
(* Who waits for whom when lots are repriced.  The reader goroutine of a   *)
(* Level3 socket applies a frame under the lock of all books (Book.Update) *)
(* and then reprices the lots of its symbols inside a read of their book   *)
(* (Desk.Refresh); a trade reprices them without one (Desk.Update).  Both  *)
(* take the lot's lock and, under it, read the book to price the exit      *)
(* (Position.Update, Price.ExitVWAP and the others).                       *)
(*                                                                         *)
(* The book lock is a Go RWMutex: a writer that has asked for it keeps new *)
(* readers out and waits for those that are in, one writer at a time.      *)
(***************************************************************************)
EXTENDS Naturals, FiniteSets

CONSTANTS
  Readers,   \* one goroutine per Level3 socket
  Traders,   \* goroutines that reprice on a trade
  Lots,
  LotsOf,    \* the open lots of a reader's symbols
  None

VARIABLES
  at,        \* where each goroutine is
  todo,      \* the lots it still has to reprice
  lot,       \* the lot it is repricing
  reads,     \* book.mu: how many reads each goroutine holds ...
  writer,    \* ... and the writer that holds it or was announced
  owner      \* position.mu of each lot

vars == <<at, todo, lot, reads, writer, owner>>

Procs == Readers \cup Traders

Init ==
  /\ at = [p \in Procs |-> "idle"]
  /\ todo = [p \in Procs |-> {}] /\ lot = [p \in Procs |-> None]
  /\ reads = [p \in Procs |-> 0]
  /\ writer = None /\ owner = [l \in Lots |-> None]

Goto(p, from, to) == at[p] = from /\ at' = [at EXCEPT ![p] = to]

RLock(p) == writer = None /\ reads' = [reads EXCEPT ![p] = @ + 1]
RUnlock(p) == reads' = [reads EXCEPT ![p] = @ - 1]

\* A frame arrives: Lock announces the writer ...
Frame(r) ==
  /\ Goto(r, "idle", "lock")
  /\ writer = None
  /\ writer' = r
  /\ UNCHANGED <<todo, lot, reads, owner>>

\* Mutant of ApplyFrame: the lock is kept until the frame is dealt with.
ApplyFrameHolding(r) ==
  /\ Goto(r, "lock", "refresh")
  /\ \A p \in Procs : reads[p] = 0
  /\ UNCHANGED <<todo, lot, reads, writer, owner>>

\* ... and holds when the readers that were in have left; the frame is
\* applied and the lock given back.
ApplyFrame(r) ==
  /\ Goto(r, "lock", "refresh")
  /\ \A p \in Procs : reads[p] = 0
  /\ writer' = None
  /\ UNCHANGED <<todo, lot, reads, owner>>

\* Book.Book holds its read while the callback reprices the lots.
Refresh(r) ==
  /\ Goto(r, "refresh", "mark")
  /\ RLock(r)
  /\ todo' = [todo EXCEPT ![r] = LotsOf[r]]
  /\ UNCHANGED <<lot, writer, owner>>

\* A pending, stale or invalid book, or one without a midpoint.
NothingToRead(r) ==
  /\ Goto(r, "refresh", "idle")
  /\ writer = None
  /\ UNCHANGED <<todo, lot, reads, writer, owner>>

\* A trade of a symbol comes in (Desk.Update).
Trade(t, ls) ==
  /\ Goto(t, "idle", "mark")
  /\ todo' = [todo EXCEPT ![t] = ls]
  /\ UNCHANGED <<lot, reads, writer, owner>>

LockLot(p, l) ==
  /\ l \in todo[p] /\ owner[l] = None
  /\ Goto(p, "mark", "price")
  /\ owner' = [owner EXCEPT ![l] = p]
  /\ lot' = [lot EXCEPT ![p] = l]
  /\ todo' = [todo EXCEPT ![p] = @ \ {l}]
  /\ UNCHANGED <<reads, writer>>

\* Price reads the book under the lot's lock (ExitVWAP, ExitRoom, roundTrip and
\* roundTripPct, one after the other; one read stands for them).
ReadBook(p) ==
  /\ Goto(p, "price", "priced")
  /\ RLock(p)
  /\ UNCHANGED <<todo, lot, writer, owner>>

LeaveBook(p) ==
  /\ Goto(p, "priced", "judge")
  /\ RUnlock(p)
  /\ UNCHANGED <<todo, lot, writer, owner>>

\* The stop is judged and the lot given back.
UnlockLot(p) ==
  /\ Goto(p, "judge", "mark")
  /\ owner' = [owner EXCEPT ![lot[p]] = None]
  /\ lot' = [lot EXCEPT ![p] = None]
  /\ UNCHANGED <<todo, reads, writer>>

\* All lots are done: a refresh leaves the read it began with.
Repriced(p) ==
  /\ todo[p] = {}
  /\ Goto(p, "mark", "idle")
  /\ reads' = [reads EXCEPT ![p] = 0]
  /\ UNCHANGED <<todo, lot, writer, owner>>

-----------------------------------------------------------------------------
Step(p) ==
  \/ \E l \in Lots : LockLot(p, l)
  \/ ReadBook(p) \/ LeaveBook(p) \/ UnlockLot(p) \/ Repriced(p)

ReaderStep(r) == ApplyFrame(r) \/ Refresh(r) \/ NothingToRead(r)

Next ==
  \/ \E r \in Readers : Frame(r) \/ ReaderStep(r)
  \/ \E t \in Traders, ls \in SUBSET Lots : Trade(t, ls)
  \/ \E p \in Procs : Step(p)

\* Go's mutexes hand over to a goroutine that has waited for long, and a
\* goroutine that can run is scheduled.  No frame and no trade need come.
Fairness ==
  /\ \A r \in Readers : SF_vars(ReaderStep(r))
  /\ \A p \in Procs : SF_vars(Step(p))

Spec == Init /\ [][Next]_vars /\ Fairness

-----------------------------------------------------------------------------
(* Properties. *)

\* Every repricing ends, so a lot is judged on the book that just changed:
\* Booter.startIngress refreshes "so the stoploss sees the new exit VWAP and
\* depth without waiting for a trade".  It holds with one Level3 socket.
\* With two, the writer of the other socket is announced between the read of
\* Refresh and the read of Price under it, and neither gets on.
RepricingEnds == \A p \in Procs : at[p] # "idle" ~> at[p] = "idle"
=============================================================================
