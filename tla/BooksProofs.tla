---------------------------- MODULE BooksProofs -----------------------------
(***************************************************************************)
(* Proofs about Books for any symbols, sockets, batches and bounds.        *)
(***************************************************************************)
EXTENDS Books, TLAPS

\* A book that failed the checksum is invalid; a half-applied one is left only
\* by a value that does not fit its pair.
Verified ==
  \A s \in Symbols :
    /\ local[s] = "bad" => s \in invalid
    /\ local[s] = "part" => Malformed

\* What is no longer pending had a snapshot accepted.
Seeding ==
  /\ \A s \in Symbols :
       s \notin pending \/ frame[s] \in {"accepted", "cleared"} => s \in seeded
  /\ ready => pending = {}
  /\ phase = "trading" => ready

\* Nothing comes for a symbol that boot has not subscribed, hooks are
\* registered only after the subscribes, and deltas follow a snapshot.
Written ==
  /\ \A s \in Symbols :
       /\ local[s] # "none" \/ frame[s] # "none" \/ venue[s] # "off" \/ rec[s] # "none"
            => s \in written
       /\ frame[s] \in {"update", "accepted", "cleared"} => local[s] # "none"
       /\ venue[s] = "live" /\ frame[s] # "snapshot" => local[s] # "none"
  /\ \A s \in Symbols : stage[Batch[s]] \in {"watched", "hooked"} => s \in written
  /\ \A s \in hook : s \in written
  /\ \A k \in up : stage[k] # "closed"

\* LostIsHidden for a symbol that is still pending, too.
Hidden ==
  \A s \in Symbols :
    s \notin stale \cup invalid /\ local[s] # "none" /\ s \notin fed
      => s \in marking \cup late \/ Batch[s] \in early

IInv == TypeOK /\ Verified /\ Seeding /\ Written /\ Hidden

USE BatchAssumption, BoundsAssumption DEF bootVars, bookVars, sockVars, histVars,
    On, Live, Idle, Hold, LetGo, Request, Fault, Replaced, Invalidate, Subscribed, Goto, Lost

\* READY keeps its type.
LEMMA ReadyStep == ready \in BOOLEAN /\ [Next]_vars => ready' \in BOOLEAN
<1> SUFFICES ASSUME ready \in BOOLEAN, [Next]_vars PROVE ready' \in BOOLEAN
  OBVIOUS
<1>1. ASSUME NEW k \in Sockets, Open(k) PROVE ready' \in BOOLEAN
  BY <1>1 DEF Open
<1>2. ASSUME NEW s \in Symbols, BootSubscribe(s) PROVE ready' \in BOOLEAN
  BY <1>2 DEF BootSubscribe
<1>3. ASSUME NEW k \in Sockets, Register(k) PROVE ready' \in BOOLEAN
  BY <1>3 DEF Register
<1>4. CASE BeginWait
  BY <1>4 DEF BeginWait
<1>5. CASE OpenFirehose
  BY <1>5 DEF OpenFirehose
<1>6. CASE BootFails
  BY <1>6 DEF BootFails
<1>7. ASSUME NEW s \in Symbols, ReadSnapshot(s) PROVE ready' \in BOOLEAN
  BY <1>7 DEF ReadSnapshot
<1>8. ASSUME NEW s \in Symbols, ReadUpdate(s) PROVE ready' \in BOOLEAN
  BY <1>8 DEF ReadUpdate
<1>9. ASSUME NEW s \in Symbols, AcceptSnapshot(s) PROVE ready' \in BOOLEAN
  BY <1>9 DEF AcceptSnapshot
<1>10. ASSUME NEW s \in Symbols, RejectSnapshot(s) PROVE ready' \in BOOLEAN
  BY <1>10 DEF RejectSnapshot
<1>11. ASSUME NEW s \in Symbols, AbortSnapshot(s) PROVE ready' \in BOOLEAN
  BY <1>11 DEF AbortSnapshot
<1>12. ASSUME NEW s \in Symbols, AcceptUpdate(s) PROVE ready' \in BOOLEAN
  BY <1>12 DEF AcceptUpdate
<1>13. ASSUME NEW s \in Symbols, RejectUpdate(s) PROVE ready' \in BOOLEAN
  BY <1>13 DEF RejectUpdate
<1>14. ASSUME NEW s \in Symbols, AbortUpdate(s) PROVE ready' \in BOOLEAN
  BY <1>14 DEF AbortUpdate
<1>15. ASSUME NEW s \in Symbols, SkipUpdate(s) PROVE ready' \in BOOLEAN
  BY <1>15 DEF SkipUpdate
<1>16. ASSUME NEW s \in Symbols, ClearPending(s) PROVE ready' \in BOOLEAN
  BY <1>16 DEF ClearPending
<1>17. ASSUME NEW s \in Symbols, Announce(s) PROVE ready' \in BOOLEAN
  BY Zenon, <1>17 DEF Announce
<1>18. ASSUME NEW s \in Symbols, RecUnsub(s) PROVE ready' \in BOOLEAN
  BY <1>18 DEF RecUnsub
<1>19. ASSUME NEW s \in Symbols, RecSub(s) PROVE ready' \in BOOLEAN
  BY <1>19 DEF RecSub
<1>20. ASSUME NEW s \in Symbols, RecFails(s) PROVE ready' \in BOOLEAN
  BY <1>20 DEF RecFails
<1>21. ASSUME NEW s \in Symbols, RecDone(s) PROVE ready' \in BOOLEAN
  BY <1>21 DEF RecDone
<1>22. ASSUME NEW k \in Sockets, Drop(k) PROVE ready' \in BOOLEAN
  BY <1>22 DEF Drop
<1>23. ASSUME NEW s \in Symbols, MarkStale(s) PROVE ready' \in BOOLEAN
  BY <1>23 DEF MarkStale
<1>24. ASSUME NEW k \in Sockets, Redial(k) PROVE ready' \in BOOLEAN
  BY <1>24 DEF Redial
<1>25. ASSUME NEW s \in Symbols, HookSubscribe(s) PROVE ready' \in BOOLEAN
  BY <1>25 DEF HookSubscribe
<1>26. ASSUME NEW k \in Sockets, HookFails(k) PROVE ready' \in BOOLEAN
  BY <1>26 DEF HookFails
<1>27. ASSUME NEW k \in Sockets, HookClose(k) PROVE ready' \in BOOLEAN
  BY <1>27 DEF HookClose
<1>28. CASE UNCHANGED vars
  BY <1>28 DEF vars
<1> QED
  BY <1>1, <1>2, <1>3, <1>4, <1>5, <1>6, <1>7, <1>8, <1>9, <1>10, <1>11, <1>12, <1>13, <1>14,
     <1>15, <1>16, <1>17, <1>18, <1>19, <1>20, <1>21, <1>22, <1>23, <1>24, <1>25, <1>26, <1>27, <1>28
     DEF Next, Boot, Reader, Recovery, Socket

\* Every action keeps the invariant.  Drop and HookClose are where a connection
\* is lost, Announce and OpenFirehose where boot reads what the readers did.
LEMMA Step == IInv /\ [Next]_vars => IInv'
<1> SUFFICES ASSUME IInv, [Next]_vars PROVE IInv'
  OBVIOUS
<1>0. ready' \in BOOLEAN
  BY ReadyStep DEF IInv, TypeOK
<1> USE <1>0 DEF IInv, TypeOK, Verified, Seeding, Written, Hidden
<1>1. ASSUME NEW k \in Sockets, Open(k) PROVE IInv'
  BY <1>1 DEF Open
<1>2. ASSUME NEW s \in Symbols, BootSubscribe(s) PROVE IInv'
  BY <1>2 DEF BootSubscribe
<1>3. ASSUME NEW k \in Sockets, Register(k) PROVE IInv'
  BY <1>3 DEF Register
<1>4. CASE BeginWait
  BY <1>4 DEF BeginWait
<1>5. CASE OpenFirehose
  BY <1>5 DEF OpenFirehose
<1>6. CASE BootFails
  BY <1>6 DEF BootFails
<1>7. ASSUME NEW s \in Symbols, ReadSnapshot(s) PROVE IInv'
  BY <1>7 DEF ReadSnapshot
<1>8. ASSUME NEW s \in Symbols, ReadUpdate(s) PROVE IInv'
  BY <1>8 DEF ReadUpdate
<1>9. ASSUME NEW s \in Symbols, AcceptSnapshot(s) PROVE IInv'
  BY <1>9 DEF AcceptSnapshot
<1>10. ASSUME NEW s \in Symbols, RejectSnapshot(s) PROVE IInv'
  BY <1>10 DEF RejectSnapshot
<1>11. ASSUME NEW s \in Symbols, AbortSnapshot(s) PROVE IInv'
  BY <1>11 DEF AbortSnapshot
<1>12. ASSUME NEW s \in Symbols, AcceptUpdate(s) PROVE IInv'
  BY <1>12 DEF AcceptUpdate
<1>13. ASSUME NEW s \in Symbols, RejectUpdate(s) PROVE IInv'
  BY <1>13 DEF RejectUpdate
<1>14. ASSUME NEW s \in Symbols, AbortUpdate(s) PROVE IInv'
  BY <1>14 DEF AbortUpdate
<1>15. ASSUME NEW s \in Symbols, SkipUpdate(s) PROVE IInv'
  BY <1>15 DEF SkipUpdate
<1>16. ASSUME NEW s \in Symbols, ClearPending(s) PROVE IInv'
  BY <1>16 DEF ClearPending
<1>17. ASSUME NEW s \in Symbols, Announce(s) PROVE IInv'
  BY <1>17 DEF Announce
<1>18. ASSUME NEW s \in Symbols, RecUnsub(s) PROVE IInv'
  BY <1>18 DEF RecUnsub
<1>19. ASSUME NEW s \in Symbols, RecSub(s) PROVE IInv'
  BY <1>19 DEF RecSub
<1>20. ASSUME NEW s \in Symbols, RecFails(s) PROVE IInv'
  BY <1>20 DEF RecFails
<1>21. ASSUME NEW s \in Symbols, RecDone(s) PROVE IInv'
  BY <1>21 DEF RecDone
<1>22. ASSUME NEW k \in Sockets, Drop(k) PROVE IInv'
  BY <1>22 DEF Drop
<1>23. ASSUME NEW s \in Symbols, MarkStale(s) PROVE IInv'
  BY <1>23 DEF MarkStale
<1>24. ASSUME NEW k \in Sockets, Redial(k) PROVE IInv'
  BY <1>24 DEF Redial
<1>25. ASSUME NEW s \in Symbols, HookSubscribe(s) PROVE IInv'
  BY <1>25 DEF HookSubscribe
<1>26. ASSUME NEW k \in Sockets, HookFails(k) PROVE IInv'
  BY <1>26 DEF HookFails
<1>27. ASSUME NEW k \in Sockets, HookClose(k) PROVE IInv'
  BY <1>27 DEF HookClose
<1>28. CASE UNCHANGED vars
  BY <1>28 DEF vars
<1> QED
  BY <1>1, <1>2, <1>3, <1>4, <1>5, <1>6, <1>7, <1>8, <1>9, <1>10, <1>11, <1>12, <1>13, <1>14,
     <1>15, <1>16, <1>17, <1>18, <1>19, <1>20, <1>21, <1>22, <1>23, <1>24, <1>25, <1>26, <1>27, <1>28
     DEF Next, Boot, Reader, Recovery, Socket

\* The invariant holds in every reachable state.
THEOREM Invariance == Spec => []IInv
<1>1. Init => IInv
  <2> SUFFICES ASSUME Init PROVE IInv
    OBVIOUS
  <2>1. ready \in BOOLEAN
    BY Zenon DEF Init
  <2> QED
    BY <2>1 DEF Init, IInv, TypeOK, Verified, Seeding, Written, Hidden
<1> QED
  BY <1>1, Step, PTL DEF Spec

\* Every variable keeps its type: the counter of dropped deltas stays below
\* the retry interval.
THEOREM TypeCorrect == Spec => []TypeOK
BY Invariance, PTL DEF IInv

\* Book and apply: as long as every value fits its pair, a reader is only given
\* books that matched the venue's checksum.
THEOREM ReadersSeeVerifiedBooks == ASSUME ~ Malformed PROVE Spec => []ReadableIsVerified
<1>1. IInv => ReadableIsVerified
  BY DEF IInv, TypeOK, Verified, ReadableIsVerified, Readable
<1> QED
  BY <1>1, Invariance, PTL

\* seedBooks: trades are subscribed only after every symbol had a snapshot.
THEOREM FirehoseAfterSeeding == Spec => []TradingAfterSeeding
<1>1. IInv => TradingAfterSeeding
  BY DEF IInv, TypeOK, Seeding, TradingAfterSeeding
<1> QED
  BY <1>1, Invariance, PTL

\* OnDisconnect and Stale: a book whose socket was lost is hidden, but for the
\* two exceptions the property names.
THEOREM LostBooksHidden == Spec => []LostIsHidden
<1>1. IInv => LostIsHidden
  BY DEF IInv, Hidden, LostIsHidden, Readable
<1> QED
  BY <1>1, Invariance, PTL
=============================================================================
