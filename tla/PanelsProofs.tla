---------------------------- MODULE PanelsProofs ----------------------------
(***************************************************************************)
(* Proofs about the parts of the dashboard that share no state, for the    *)
(* specification that runs any of them: the workbench always answers, what *)
(* paints itself is current at rest, a lot reads the same everywhere,      *)
(* nothing shown is lost, the shell shows what was asked for, the paths    *)
(* are whole from the wire to the tree, and what is read off frames is     *)
(* true from the store to the readout.                                     *)
(***************************************************************************)
EXTENDS MCPanels, OrderProofs

-----------------------------------------------------------------------------
(* The operators of Warehouse. *)

\* The larger of two numbers is one of them and not below the other.
LEMMA MaxPair ==
  ASSUME NEW a \in Int, NEW b \in Int
  PROVE  Max({a, b}) = IF a >= b THEN a ELSE b
<1>1. \E x \in {a, b} : \A y \in {a, b} : x >= y
  OBVIOUS
<1>2. Max({a, b}) \in {a, b} /\ \A y \in {a, b} : Max({a, b}) >= y
  BY <1>1 DEF Max
<1> QED
  BY <1>2

\* The smaller of two numbers.
LEMMA MinPair ==
  ASSUME NEW a \in Int, NEW b \in Int
  PROVE  Min({a, b}) = IF a <= b THEN a ELSE b
<1>1. \E x \in {a, b} : \A y \in {a, b} : x <= y
  OBVIOUS
<1>2. Min({a, b}) \in {a, b} /\ \A y \in {a, b} : Min({a, b}) <= y
  BY <1>1 DEF Min
<1> QED
  BY <1>2

Columns == {w.cols : w \in Windows}
Cuts == [from : Int, to : Int, cols : Columns]

\* A buffer holds no row beyond the table.
Buffers == {b \in Cuts : b.from < b.to => b.to <= TableRows}

\* What a request asks for.
LEMMA FetchIsRows ==
  ASSUME NEW w \in Windows
  PROVE  fetchViewportBuffer(w) \in Cuts
<1>1. w.from \in Nat /\ w.to \in Nat /\ w.cols \in Columns
  BY WarehouseAssumption DEF Columns
<1> DEFINE start == Max({0, w.from - Overscan})
           size == Max({BufferRows, w.to - w.from + Overscan})
<1>2. start \in Int /\ size \in Int
  <2>1. /\ w.from - Overscan \in Int /\ BufferRows \in Int
        /\ w.to - w.from + Overscan \in Int
    BY <1>1, WarehouseAssumption
  <2> QED
    BY <2>1, MaxPair
<1> HIDE DEF start, size
<1>3. start + size \in Int
  BY <1>2
<1> QED
  BY <1>1, <1>2, <1>3 DEF fetchViewportBuffer, Cuts, start, size

\* What comes back of it becomes a buffer.
LEMMA AnswerIsBuffer ==
  ASSUME NEW r \in Cuts
  PROVE  [r EXCEPT !.to = Max({r.from, Min({r.to, TableRows})})] \in Buffers
<1> DEFINE to == Max({r.from, Min({r.to, TableRows})})
<1>1. r.from \in Int /\ r.to \in Int /\ TableRows \in Int
  BY WarehouseAssumption DEF Cuts
<1>2. to \in Int /\ (r.from < to => to <= TableRows)
  BY <1>1, MaxPair, MinPair
<1> HIDE DEF to
<1>3. [r EXCEPT !.to = to] \in Cuts
  BY <1>2 DEF Cuts
<1> QED
  BY <1>2, <1>3 DEF Buffers, Cuts, to

\* fillSlice: a buffer that covers a window gives what a request of its own
\* would have given.
LEMMA SliceIsDirect ==
  ASSUME NEW w \in Windows, NEW b \in Buffers, covers(b, w)
  PROVE  fillSlice(b, w) = Direct(w)
<1>1. /\ w \in [from : Nat, to : Nat, cols : Columns] /\ w.from \in Nat /\ w.to \in Nat
      /\ w.from < w.to /\ TableRows \in Nat
  BY WarehouseAssumption DEF Columns
<1>2. /\ b.from \in Int /\ b.to \in Int /\ b.cols = w.cols
      /\ b.from <= w.from /\ w.to <= b.to /\ b.to <= TableRows
  BY <1>1 DEF Buffers, Cuts, covers
<1> DEFINE size == b.to - b.from
           start == Min({size, Max({0, w.from - b.from})})
           end == Min({size, Max({start, w.to - b.from})})
<1>3. /\ size \in Int /\ w.from - b.from \in Int /\ w.to - b.from \in Int
      /\ 0 <= w.from - b.from /\ w.from - b.from <= w.to - b.from
      /\ w.to - b.from <= size
  BY <1>1, <1>2
<1> HIDE DEF size
<1>4. start = w.from - b.from
  <2>1. Max({0, w.from - b.from}) = w.from - b.from
    BY <1>3, MaxPair
  <2>2. Min({size, w.from - b.from}) = w.from - b.from
    BY <1>3, MinPair
  <2> QED
    BY <2>1, <2>2
<1>5. end = w.to - b.from
  <2>1. Max({w.from - b.from, w.to - b.from}) = w.to - b.from
    BY <1>3, MaxPair
  <2>2. Min({size, w.to - b.from}) = w.to - b.from
    BY <1>3, MinPair
  <2> QED
    BY <1>4, <2>1, <2>2
<1>6. b.from + start = w.from /\ b.from + end = w.to
  BY <1>1, <1>2, <1>4, <1>5
<1> HIDE DEF start, end
<1>7. fillSlice(b, w) = [from |-> w.from, to |-> w.to, cols |-> w.cols]
  BY <1>2, <1>6 DEF fillSlice, start, end, size
<1>8. Max({w.from, Min({w.to, TableRows})}) = w.to
  <2>1. Min({w.to, TableRows}) = w.to
    BY <1>1, <1>2, MinPair
  <2>2. Max({w.from, w.to}) = w.to
    BY <1>1, MaxPair
  <2> QED
    BY <2>1, <2>2
<1> QED
  BY <1>1, <1>7, <1>8 DEF Direct

\* What a direct request returns.
LEMMA DirectIsRows ==
  ASSUME NEW w \in Windows
  PROVE  Direct(w) \in Cuts
<1>1. /\ w \in [from : Nat, to : Nat, cols : Columns]
      /\ w.from \in Int /\ w.to \in Int /\ TableRows \in Int
  BY WarehouseAssumption DEF Columns
<1> DEFINE least == Min({w.to, TableRows})
<1>2. least \in Int
  BY <1>1, MinPair
<1> HIDE DEF least
<1>3. Max({w.from, least}) \in Int
  BY <1>1, <1>2, MaxPair
<1> QED
  BY <1>1, <1>3 DEF Direct, Cuts, least

-----------------------------------------------------------------------------
(* Warehouse: the rows a grid asks for. *)

Calls == [win : Windows, attempt : Int, state : {"waiting", "ready", "done", "failed"},
          on : Nat, rows : {None} \cup Cuts]

CallsOK == calls \in [Grids -> {None} \cup Calls]

ViewportOK == viewport \in {None} \cup Buffers

FetchesOK ==
  /\ fetched \in Nat
  /\ \A f \in DOMAIN fetches : fetches[f].asked \in Cuts

\* The request callers share is running; while the view lives no other is.
Shared ==
  /\ inFlight # None => inFlight \in DOMAIN fetches /\ inFlight \in Nat
  /\ ~deleted => DOMAIN fetches \subseteq {inFlight} \ {None}

GridInv == CallsOK /\ ViewportOK /\ FetchesOK /\ Shared /\ SliceIsAsked /\ NoCallStranded

\* A call that ends, with the rows it asked for or with an error.
LEMMA EndKeeps ==
  ASSUME GridInv, NEW c \in Grids, NEW w \in Windows, NEW state \in {"done", "failed"},
         NEW cuts \in {None} \cup Cuts, state = "done" => cuts = Direct(w),
         EndWith(c, w, state, cuts),
         UNCHANGED <<viewport, inFlight, fetches, fetched, deleted>>
  PROVE  GridInv'
<1> USE DEF GridInv
<1>1. CallsOK' /\ SliceIsAsked'
  BY DEF CallsOK, Calls, EndWith, SliceIsAsked
<1>2. ViewportOK' /\ FetchesOK' /\ Shared'
  BY DEF ViewportOK, FetchesOK, Shared
<1>3. NoCallStranded'
  BY DEF CallsOK, Calls, EndWith, NoCallStranded
<1> QED
  BY <1>1, <1>2, <1>3

\* A call that waits for a running request.
LEMMA WaitKeeps ==
  ASSUME CallsOK, SliceIsAsked, NEW c \in Grids, NEW w \in Windows, NEW attempt \in Int,
         NEW f \in DOMAIN fetches', f \in Nat, WaitFor(c, w, attempt, f),
         NoCallStranded, DOMAIN fetches \subseteq DOMAIN fetches'
  PROVE  CallsOK' /\ SliceIsAsked' /\ NoCallStranded'
<1>1. CallsOK' /\ SliceIsAsked'
  BY DEF CallsOK, Calls, WaitFor, SliceIsAsked
<1>2. NoCallStranded'
  BY DEF CallsOK, Calls, WaitFor, NoCallStranded
<1> QED
  BY <1>1, <1>2

\* A request of a caller's own.
LEMMA RequestIsShared ==
  ASSUME FetchesOK, NEW w \in Windows, fetched' = fetched + 1,
         fetches' = Requested(fetched', w)
  PROVE  /\ FetchesOK' /\ fetched' \in Nat \ {None}
         /\ DOMAIN fetches' = DOMAIN fetches \cup {fetched'}
<1>1. fetched' \in Nat \ {None}
  BY WarehouseAssumption DEF FetchesOK
<1>2. fetchViewportBuffer(w) \in Cuts
  BY FetchIsRows
<1>3. DOMAIN fetches' = DOMAIN fetches \cup {fetched'}
  BY DEF Requested
<1>4. FetchesOK'
  BY <1>1, <1>2 DEF FetchesOK, Requested
<1> QED
  BY <1>1, <1>3, <1>4

\* A turn of the loop.
LEMMA TurnKeeps ==
  ASSUME GridInv, NEW c \in Grids, NEW w \in Windows, NEW attempt \in Int,
         Turn(c, w, attempt)
  PROVE  GridInv'
<1>0. UNCHANGED <<viewport, deleted>>
  BY DEF Turn
<1> DEFINE hit == viewport # None /\ covers(viewport, w)
<1>1. CASE hit /\ EndWith(c, w, "done", fillSlice(viewport, w))
           /\ UNCHANGED <<inFlight, fetches, fetched>>
  <2>1. fillSlice(viewport, w) = Direct(w) /\ Direct(w) \in Cuts
    BY <1>1, SliceIsDirect, DirectIsRows DEF GridInv, ViewportOK
  <2> QED
    BY <1>0, <1>1, <2>1, EndKeeps
<1>2. CASE EndWith(c, w, "done", Direct(w)) /\ UNCHANGED <<inFlight, fetches, fetched>>
  BY <1>0, <1>2, DirectIsRows, EndKeeps
<1>3. CASE EndWith(c, w, "failed", None) /\ UNCHANGED <<inFlight, fetches, fetched>>
  BY <1>0, <1>3, EndKeeps
<1>4. CASE Await(c, w, attempt)
  <2> USE DEF GridInv
  <2>1. CASE /\ inFlight # None
             /\ WaitFor(c, w, attempt, inFlight)
             /\ UNCHANGED <<inFlight, fetches, fetched>>
    <3>1. CallsOK' /\ SliceIsAsked' /\ NoCallStranded'
      BY <2>1, WaitKeeps DEF Shared
    <3>2. ViewportOK' /\ FetchesOK' /\ Shared'
      BY <1>0, <2>1 DEF ViewportOK, FetchesOK, Shared
    <3> QED
      BY <3>1, <3>2
  <2>2. CASE /\ inFlight = None
             /\ fetched' = fetched + 1
             /\ fetches' = Requested(fetched', w)
             /\ inFlight' = fetched'
             /\ WaitFor(c, w, attempt, fetched')
    <3>1. /\ FetchesOK' /\ fetched' \in Nat \ {None}
          /\ DOMAIN fetches' = DOMAIN fetches \cup {fetched'}
      BY <2>2, RequestIsShared
    <3>2. CallsOK' /\ SliceIsAsked' /\ NoCallStranded'
      BY <2>2, <3>1, WaitKeeps
    <3>3. ViewportOK'
      BY <1>0 DEF ViewportOK
    <3>4. Shared'
      BY <1>0, <2>2, <3>1 DEF Shared
    <3> QED
      BY <3>1, <3>2, <3>3, <3>4
  <2> QED
    BY <1>4, <2>1, <2>2 DEF Await
<1> QED
  BY <1>1, <1>2, <1>3, <1>4 DEF Turn

\* A request ends: nobody is left waiting for it.
LEMMA EndedIsForgotten ==
  ASSUME GridInv, NEW f \in DOMAIN fetches, NEW ok \in BOOLEAN, FetchEnds(f, ok)
  PROVE  GridInv'
<1> USE DEF GridInv
<1> DEFINE needed == fetches[f].asked
           answer == [needed EXCEPT !.to = Max({needed.from, Min({needed.to, TableRows})})]
<1>1. answer \in Buffers
  BY AnswerIsBuffer DEF FetchesOK
<1>2. ViewportOK'
  <2>1. viewport' = answer \/ viewport' = viewport
    BY DEF FetchEnds
  <2> QED
    BY <1>1, <2>1 DEF ViewportOK
<1> HIDE DEF answer
<1>3. /\ fetches' = [g \in DOMAIN fetches \ {f} |-> fetches[g]]
      /\ inFlight' = IF inFlight = f THEN None ELSE inFlight
      /\ UNCHANGED <<fetched, deleted>>
      /\ calls' = [c \in Grids |->
                     IF calls[c] = None \/ calls[c].on # f THEN calls[c]
                     ELSE [calls[c] EXCEPT !.state = IF ok THEN "ready" ELSE "failed",
                                           !.on = 0]]
  BY DEF FetchEnds
<1>4. FetchesOK' /\ Shared'
  BY <1>3 DEF FetchesOK, Shared
<1>5. CallsOK'
  BY <1>3 DEF CallsOK, Calls
<1>6. SliceIsAsked' /\ NoCallStranded'
  BY <1>3 DEF CallsOK, Calls, SliceIsAsked, NoCallStranded
<1> QED
  BY <1>2, <1>4, <1>5, <1>6

\* Every step of the grid keeps this: a request is shared or goes out, and
\* whatever ends is answered and forgotten.
LEMMA GridStep == GridInv /\ [GridNext]_gridVars => GridInv'
<1> SUFFICES ASSUME GridInv, [GridNext]_gridVars PROVE GridInv'
  OBVIOUS
<1>1. ASSUME NEW c \in Grids, viewGetData(c) PROVE GridInv'
  BY <1>1, TurnKeeps DEF viewGetData
<1>2. ASSUME NEW c \in Grids, Resume(c) PROVE GridInv'
  <2>1. calls[c].win \in Windows /\ calls[c].attempt + 1 \in Int
    BY <1>2 DEF Resume, GridInv, CallsOK, Calls
  <2> QED
    BY <1>2, <2>1, TurnKeeps DEF Resume
<1>3. ASSUME NEW f \in DOMAIN fetches, NEW ok \in BOOLEAN, FetchEnds(f, ok) PROVE GridInv'
  BY <1>3, EndedIsForgotten
<1>4. CASE viewDelete
  BY <1>4 DEF viewDelete, GridInv, CallsOK, ViewportOK, FetchesOK, Shared, SliceIsAsked,
              NoCallStranded
<1>5. CASE UNCHANGED gridVars
  BY <1>5 DEF gridVars, GridInv, CallsOK, ViewportOK, FetchesOK, Shared, SliceIsAsked,
              NoCallStranded
<1> QED
  BY <1>1, <1>2, <1>3, <1>4, <1>5 DEF GridNext

\* ... and nothing is asked for at the start.
LEMMA GridStart == GridInit => GridInv
  BY DEF GridInit, GridInv, CallsOK, ViewportOK, FetchesOK, Shared, SliceIsAsked, NoCallStranded

\* While the view lives the requests are those of the callers' one.
LEMMA GridAnswers == GridInv => SliceIsAsked /\ OneFetch /\ NoCallStranded
<1> SUFFICES ASSUME GridInv, ~deleted PROVE Cardinality(DOMAIN fetches) <= 1
  BY DEF GridInv, OneFetch
<1>1. DOMAIN fetches = {} \/ DOMAIN fetches = {inFlight}
  BY DEF GridInv, Shared
<1>2. Cardinality({}) = 0 /\ Cardinality({inFlight}) = 1
  BY FS_EmptySet, FS_Singleton
<1> QED
  BY <1>1, <1>2

-----------------------------------------------------------------------------
(* Warehouse: the answers kept per name. *)

Asked == [name : Questions, state : {"pending", "ok", "failed"}]

QuestionsOK == \E k \in Nat : questions \in [1..k -> Asked]

Pending(n) == {q \in DOMAIN questions : questions[q] = [name |-> n, state |-> "pending"]}

\* What is still asked for a name but no longer kept under it.
Adrift(n) == Pending(n) \ {memo[n]}

MemoOK == memo \in [Questions -> {None} \cup Nat] /\ dropped \in [Questions -> Nat]

\* What is kept under a name is a question about it that has not failed.
KeptIsAsked ==
  \A n \in Questions : memo[n] # None =>
    /\ memo[n] \in DOMAIN questions
    /\ questions[memo[n]].name = n /\ questions[memo[n]].state # "failed"

\* Only a drop sets a question adrift.
AdriftIsDropped == \A n \in Questions : Cardinality(Adrift(n)) <= dropped[n]

MemoInv == QuestionsOK /\ MemoOK /\ KeptIsAsked /\ AdriftIsDropped

\* The questions are finitely many.
LEMMA PendingIsFinite ==
  ASSUME QuestionsOK, NEW n
  PROVE  IsFiniteSet(Pending(n)) /\ IsFiniteSet(Adrift(n)) /\ Cardinality(Adrift(n)) \in Nat
<1>1. PICK k \in Nat : questions \in [1..k -> Asked]
  BY DEF QuestionsOK
<1>2. IsFiniteSet(1..k)
  BY FS_Interval
<1>3. Pending(n) \in SUBSET (1..k) /\ Adrift(n) \in SUBSET (1..k)
  BY <1>1 DEF Pending, Adrift
<1>4. IsFiniteSet(Pending(n)) /\ IsFiniteSet(Adrift(n))
  BY <1>2, <1>3, FS_Subset
<1> QED
  BY <1>4, FS_CardinalityType

\* A name that is asked is not adrift.
LEMMA AskKeeps ==
  ASSUME MemoInv, NEW n \in Questions, Ask(n)
  PROVE  MemoInv'
<1>1. PICK k \in Nat : questions \in [1..k -> Asked]
  BY DEF MemoInv, QuestionsOK
<1>2. Cardinality(DOMAIN questions) + 1 = k + 1
  <2>1. Cardinality(1..k) = k
    BY FS_Interval
  <2> QED
    BY <1>1, <2>1
<1> DEFINE q == k + 1
<1>3. /\ memo[n] = None
      /\ questions' = [p \in 1..q |-> IF p = q THEN [name |-> n, state |-> "pending"]
                                      ELSE questions[p]]
      /\ memo' = [memo EXCEPT ![n] = q]
      /\ UNCHANGED dropped
  BY <1>2 DEF Ask
<1>4. QuestionsOK'
  <2>1. [name |-> n, state |-> "pending"] \in Asked
    BY DEF Asked
  <2>2. questions' \in [1..q -> Asked]
    BY <1>1, <1>3, <2>1
  <2> QED
    BY <2>2 DEF QuestionsOK
<1>5. MemoOK'
  BY <1>3 DEF MemoInv, MemoOK
<1>6. /\ DOMAIN questions = 1..k /\ DOMAIN questions' = 1..k + 1
      /\ \A p \in 1..k : questions'[p] = questions[p] /\ p \in 1..k + 1 /\ p # q
      /\ q \in 1..k + 1 /\ questions'[q] = [name |-> n, state |-> "pending"]
  BY <1>1, <1>3
<1>7. KeptIsAsked'
  BY <1>3, <1>6, WarehouseAssumption DEF MemoInv, MemoOK, KeptIsAsked
<1>8. AdriftIsDropped'
  <2> SUFFICES ASSUME NEW m \in Questions PROVE Adrift(m)' = Adrift(m)
    BY <1>3 DEF MemoInv, AdriftIsDropped
  <2>1. CASE m = n
    <3>1. Pending(n)' = Pending(n) \cup {q}
      BY <1>6 DEF Pending
    <3>2. memo'[n] = q /\ q \notin Pending(n) /\ memo[n] \notin Pending(n)
      BY <1>3, <1>6, WarehouseAssumption DEF MemoInv, MemoOK, Pending
    <3> QED
      BY <2>1, <3>1, <3>2 DEF Adrift
  <2>2. CASE m # n
    <3>1. Pending(m)' = Pending(m)
      BY <1>6, <2>2 DEF Pending
    <3>2. memo'[m] = memo[m]
      BY <1>3, <2>2 DEF MemoInv, MemoOK
    <3> QED
      BY <3>1, <3>2 DEF Adrift
  <2> QED
    BY <2>1, <2>2
<1> QED
  BY <1>4, <1>5, <1>7, <1>8 DEF MemoInv

\* A question that is answered is not pending; if it failed, and the name keeps
\* another one, that one takes its place among those adrift.
LEMMA AnsweredKeeps ==
  ASSUME MemoInv, NEW q \in DOMAIN questions, NEW ok \in BOOLEAN, Answered(q, ok)
  PROVE  MemoInv'
<1>1. PICK k \in Nat : questions \in [1..k -> Asked]
  BY DEF MemoInv, QuestionsOK
<1> DEFINE n == questions[q].name
<1>2. /\ n \in Questions /\ questions[q] = [name |-> n, state |-> "pending"]
      /\ q \in Pending(n) /\ q \in Nat
  BY <1>1 DEF Answered, Asked, Pending
<1>3. /\ questions' \in [1..k -> Asked]
      /\ \A p \in 1..k : p # q => questions'[p] = questions[p]
      /\ questions'[q] = [name |-> n, state |-> IF ok THEN "ok" ELSE "failed"]
  BY <1>1, <1>2 DEF Answered, Asked
<1>4. memo' = IF ok THEN memo ELSE [memo EXCEPT ![n] = None]
  BY DEF Answered
<1>5. dropped' = dropped
  BY DEF Answered
<1> HIDE DEF n
<1>6. QuestionsOK' /\ MemoOK'
  BY <1>2, <1>3, <1>4, <1>5 DEF QuestionsOK, MemoInv, MemoOK
<1>7. KeptIsAsked'
  BY <1>1, <1>2, <1>3, <1>4 DEF MemoInv, MemoOK, KeptIsAsked
<1>8. \A m \in Questions : Pending(m)' = Pending(m) \ {q}
  BY <1>1, <1>2, <1>3 DEF Pending
<1>9. AdriftIsDropped'
  <2> SUFFICES ASSUME NEW m \in Questions PROVE Cardinality(Adrift(m)') <= dropped[m]
    BY <1>5 DEF AdriftIsDropped
  <2>0. /\ Cardinality(Adrift(m)) <= dropped[m] /\ dropped[m] \in Nat
        /\ IsFiniteSet(Adrift(m)) /\ Cardinality(Adrift(m)) \in Nat
    BY PendingIsFinite DEF MemoInv, MemoOK, AdriftIsDropped
  <2>1. CASE memo'[m] = memo[m] \/ memo[m] \notin Pending(m) \ {q}
    <3>1. Adrift(m)' \in SUBSET Adrift(m)
      BY <1>8, <2>1 DEF Adrift
    <3>2. Cardinality(Adrift(m)') <= Cardinality(Adrift(m)) /\ IsFiniteSet(Adrift(m)')
      BY <2>0, <3>1, FS_Subset
    <3>3. Cardinality(Adrift(m)') \in Nat
      BY <3>2, FS_CardinalityType
    <3> QED
      BY <2>0, <3>2, <3>3
  <2>2. CASE memo'[m] # memo[m] /\ memo[m] \in Pending(m) \ {q}
    <3>1. m = n /\ memo'[m] = None
      BY <1>2, <1>4, <2>2 DEF MemoInv, MemoOK
    <3>2. q \in Adrift(m) /\ memo[m] \notin Adrift(m) \ {q}
      BY <1>2, <2>2, <3>1 DEF Adrift
    <3>3. Adrift(m)' = (Adrift(m) \ {q}) \cup {memo[m]}
      <4>1. None \notin Pending(m)
        BY <1>1, WarehouseAssumption DEF Pending
      <4> QED
        BY <1>8, <2>2, <3>1, <4>1 DEF Adrift
    <3>4. /\ IsFiniteSet(Adrift(m) \ {q})
          /\ Cardinality(Adrift(m) \ {q}) = Cardinality(Adrift(m)) - 1
      BY <2>0, <3>2, FS_RemoveElement
    <3>5. Cardinality(Adrift(m)') = Cardinality(Adrift(m)) - 1 + 1
      BY <3>2, <3>3, <3>4, FS_AddElement
    <3> QED
      BY <2>0, <3>5
  <2> QED
    BY <2>1, <2>2
<1> QED
  BY <1>6, <1>7, <1>9 DEF MemoInv

\* A drop sets at most one question adrift.
LEMMA DropKeeps ==
  ASSUME MemoInv, NEW n \in Questions, Drop(n)
  PROVE  MemoInv'
<1>1. /\ memo' = [memo EXCEPT ![n] = None]
      /\ dropped' = [dropped EXCEPT ![n] = @ + 1]
      /\ questions' = questions
  BY DEF Drop
<1>2. QuestionsOK' /\ MemoOK' /\ KeptIsAsked'
  BY <1>1 DEF MemoInv, QuestionsOK, MemoOK, KeptIsAsked
<1>3. AdriftIsDropped'
  <2> SUFFICES ASSUME NEW m \in Questions PROVE Cardinality(Adrift(m)') <= dropped'[m]
    BY DEF AdriftIsDropped
  <2>0. /\ Cardinality(Adrift(m)) <= dropped[m] /\ dropped[m] \in Nat
        /\ IsFiniteSet(Adrift(m)) /\ Cardinality(Adrift(m)) \in Nat
    BY PendingIsFinite DEF MemoInv, MemoOK, AdriftIsDropped
  <2>1. Pending(m)' = Pending(m)
    BY <1>1 DEF Pending
  <2>2. CASE m # n
    <3>1. memo'[m] = memo[m] /\ dropped'[m] = dropped[m]
      BY <1>1, <2>2 DEF MemoInv, MemoOK
    <3>2. Adrift(m)' = Adrift(m)
      BY <2>1, <3>1 DEF Adrift
    <3> QED
      BY <2>0, <3>1, <3>2
  <2>3. CASE m = n
    <3>1. dropped'[m] = dropped[m] + 1
      BY <1>1, <2>3 DEF MemoInv, MemoOK
    <3>2. Adrift(m)' \in SUBSET (Adrift(m) \cup {memo[m]})
      BY <2>1 DEF Adrift
    <3>3. /\ IsFiniteSet(Adrift(m) \cup {memo[m]})
          /\ Cardinality(Adrift(m) \cup {memo[m]}) <= Cardinality(Adrift(m)) + 1
      BY <2>0, FS_AddElement
    <3>4. /\ IsFiniteSet(Adrift(m)')
          /\ Cardinality(Adrift(m)') <= Cardinality(Adrift(m) \cup {memo[m]})
      BY <3>2, <3>3, FS_Subset
    <3>5. Cardinality(Adrift(m)') \in Nat /\ Cardinality(Adrift(m) \cup {memo[m]}) \in Nat
      BY <3>3, <3>4, FS_CardinalityType
    <3> QED
      BY <2>0, <3>1, <3>3, <3>4, <3>5
  <2> QED
    BY <2>2, <2>3
<1> QED
  BY <1>2, <1>3 DEF MemoInv

\* Every step of the remembered calls keeps this.
LEMMA MemoStep == MemoInv /\ [MemoNext]_memoVars => MemoInv'
<1> SUFFICES ASSUME MemoInv, [MemoNext]_memoVars PROVE MemoInv'
  OBVIOUS
<1>1. CASE UNCHANGED memoVars
  BY <1>1 DEF memoVars, MemoInv, QuestionsOK, MemoOK, KeptIsAsked, AdriftIsDropped, Adrift,
              Pending
<1> QED
  BY <1>1, AskKeeps, AnsweredKeeps, DropKeeps DEF MemoNext

\* ... and nothing is remembered at the start.
LEMMA MemoStart == MemoInit => MemoInv
<1> SUFFICES ASSUME MemoInit PROVE MemoInv
  OBVIOUS
<1>1. QuestionsOK
  <2>1. questions \in [1..0 -> Asked]
    BY DEF MemoInit
  <2> QED
    BY <2>1 DEF QuestionsOK
<1>2. MemoOK /\ KeptIsAsked
  BY DEF MemoInit, MemoOK, KeptIsAsked
<1>3. AdriftIsDropped
  <2>1. \A n \in Questions : Adrift(n) = {}
    BY DEF MemoInit, Adrift, Pending
  <2> QED
    BY <2>1, FS_EmptySet DEF MemoInit, AdriftIsDropped
<1> QED
  BY <1>1, <1>2, <1>3 DEF MemoInv

\* Of the questions pending on a name all but the one kept are adrift.
LEMMA MemoAnswers == MemoInv => FailureNotKept /\ AskedOnce
<1> SUFFICES ASSUME MemoInv PROVE FailureNotKept /\ AskedOnce
  OBVIOUS
<1>1. FailureNotKept
  BY DEF MemoInv, KeptIsAsked, FailureNotKept
<1>2. AskedOnce
  <2> SUFFICES ASSUME NEW n \in Questions PROVE Cardinality(Pending(n)) <= 1 + dropped[n]
    BY DEF AskedOnce, Pending
  <2>1. /\ Cardinality(Adrift(n)) <= dropped[n] /\ dropped[n] \in Nat
        /\ IsFiniteSet(Pending(n))
    BY PendingIsFinite DEF MemoInv, MemoOK, AdriftIsDropped
  <2>2. Cardinality(Pending(n)) \in Nat /\ Cardinality(Adrift(n)) \in Nat
    BY <2>1, FS_CardinalityType, PendingIsFinite DEF MemoInv
  <2>3. Cardinality(Adrift(n)) \in {Cardinality(Pending(n)) - 1, Cardinality(Pending(n))}
    BY <2>1, FS_RemoveElement DEF Adrift
  <2> QED
    BY <2>1, <2>2, <2>3
<1> QED
  BY <1>1, <1>2

-----------------------------------------------------------------------------
(* Warehouse: the connection screen. *)

Benches == [mount : Nat, shown : BOOLEAN, client : BOOLEAN, table : {None} \cup UNION Hosted,
            error : BOOLEAN, connecting : BOOLEAN]

BootsOK == \E k \in Nat : boots \in [1..k -> {"pending", "ok", "failed"}]

\* The boot that is shared has not failed.
BootedLives == booted # None => booted \in DOMAIN boots /\ boots[booted] # "failed"

\* A connect that waits for a boot waits for a pending one.
AttemptsOK ==
  \A a \in attempts :
    /\ a \in [boot : DOMAIN boots, stage : {"boot", "tables"}, mount : Nat]
    /\ a.stage = "boot" => boots[a.boot] = "pending"

\* The page is connecting only while a connect of its mount is under way.
UnderWay == bench.shown /\ bench.connecting => \E a \in attempts : a.mount = bench.mount

BenchInv == bench \in Benches /\ BootsOK /\ BootedLives /\ AttemptsOK /\ UnderWay

\* A boot that is started, or joined, is not a failed one.
LEMMA BootJoined ==
  ASSUME BootsOK, BootedLives, warehouseClient
  PROVE  /\ BootsOK' /\ BootedLives' /\ booted' \in DOMAIN boots'
         /\ boots'[booted'] \in {"pending", "ok"}
         /\ \A b \in DOMAIN boots : b \in DOMAIN boots' /\ boots'[b] = boots[b]
<1>1. PICK k \in Nat : boots \in [1..k -> {"pending", "ok", "failed"}]
  BY DEF BootsOK
<1>2. CASE booted # None
  BY <1>1, <1>2 DEF warehouseClient, BootsOK, BootedLives
<1>3. CASE booted = None
  <2>1. Cardinality(DOMAIN boots) + 1 = k + 1
    <3>1. Cardinality(1..k) = k
      BY FS_Interval
    <3> QED
      BY <1>1, <3>1
  <2>2. /\ booted' = k + 1
        /\ boots' = [c \in 1..k + 1 |-> IF c = k + 1 THEN "pending" ELSE boots[c]]
    BY <1>3, <2>1 DEF warehouseClient
  <2>3. /\ boots' \in [1..k + 1 -> {"pending", "ok", "failed"}]
        /\ k + 1 \in 1..k + 1 /\ boots'[k + 1] = "pending"
        /\ \A b \in 1..k : b \in 1..k + 1 /\ boots'[b] = boots[b]
    BY <1>1, <2>2
  <2> QED
    BY <1>1, <2>2, <2>3 DEF BootsOK, BootedLives
<1> QED
  BY <1>2, <1>3

\* A connect is begun for the page as it now is.
LEMMA ConnectKeeps ==
  ASSUME BenchInv, warehouseClient, bench' \in Benches,
         attempts' = attempts \cup {Attempt(booted', bench'.mount)}
  PROVE  BenchInv'
<1>1. /\ BootsOK' /\ BootedLives' /\ booted' \in DOMAIN boots'
      /\ boots'[booted'] \in {"pending", "ok"}
      /\ \A b \in DOMAIN boots : b \in DOMAIN boots' /\ boots'[b] = boots[b]
  BY BootJoined DEF BenchInv
<1> DEFINE new == Attempt(booted', bench'.mount)
<1>2. /\ new \in [boot : DOMAIN boots', stage : {"boot", "tables"}, mount : Nat]
      /\ new.stage = "boot" => boots'[new.boot] = "pending"
      /\ new.mount = bench'.mount
  BY <1>1 DEF Attempt, Benches
<1> HIDE DEF new
<1>3. AttemptsOK'
  <2> SUFFICES ASSUME NEW a \in attempts'
               PROVE  /\ a \in [boot : DOMAIN boots', stage : {"boot", "tables"}, mount : Nat]
                      /\ a.stage = "boot" => boots'[a.boot] = "pending"
    BY DEF AttemptsOK
  <2>1. CASE a = new
    BY <1>2, <2>1
  <2>2. CASE a \in attempts
    BY <1>1, <2>2 DEF BenchInv, AttemptsOK
  <2> QED
    BY <2>1, <2>2 DEF new
<1>4. UnderWay'
  <2>1. new \in attempts'
    BY DEF new
  <2> QED
    BY <1>2, <2>1 DEF UnderWay
<1> QED
  BY <1>1, <1>3, <1>4 DEF BenchInv

\* Connects that end: if one was the page's own, the page no longer connects.
LEMMA EndedIsTold ==
  ASSUME bench \in Benches, UnderWay, NEW ended, attempts' = attempts \ ended,
         NEW s \in Benches, ~s.connecting, s.mount = bench.mount, bench' = Told(ended, s)
  PROVE  bench' \in Benches /\ UnderWay'
<1>1. CASE \E a \in ended : bench.shown /\ a.mount = bench.mount
  BY <1>1 DEF Told, UnderWay
<1>2. CASE ~\E a \in ended : bench.shown /\ a.mount = bench.mount
  BY <1>2 DEF Told, UnderWay
<1> QED
  BY <1>1, <1>2

\* Every step of the workbench keeps this: connect, boot, cancel and retry.
LEMMA BenchStep == BenchInv /\ [BenchNext]_benchVars => BenchInv'
<1> SUFFICES ASSUME BenchInv, [BenchNext]_benchVars PROVE BenchInv'
  OBVIOUS
<1>0. bench \in Benches
  BY DEF BenchInv
<1>1. CASE MountBench
  <2>1. bench' \in Benches
    BY <1>0, <1>1 DEF MountBench, Fresh, Benches
  <2> QED
    BY <1>1, <2>1, ConnectKeeps DEF MountBench
<1>2. CASE Retry
  <2>1. bench' \in Benches /\ bench'.mount = bench.mount
    BY <1>0, <1>2 DEF Retry, Benches
  <2> QED
    BY <1>2, <2>1, ConnectKeeps DEF Retry
<1>3. CASE UnmountBench
  BY <1>3 DEF UnmountBench, BenchInv, Benches, BootsOK, BootedLives, AttemptsOK, UnderWay
<1>4. CASE ChooseTable
  BY <1>4 DEF ChooseTable, BenchInv, Benches, BootsOK, BootedLives, AttemptsOK, UnderWay
<1>5. ASSUME NEW b \in DOMAIN boots, BootSucceeds(b) PROVE BenchInv'
  <2>1. BootsOK' /\ BootedLives'
    BY <1>5 DEF BootSucceeds, BenchInv, BootsOK, BootedLives
  <2>2. AttemptsOK'
    BY <1>5 DEF BootSucceeds, BenchInv, BootsOK, AttemptsOK
  <2>3. UnderWay'
    <3> SUFFICES ASSUME bench.shown, bench.connecting
                 PROVE  \E a \in attempts' : a.mount = bench.mount
      BY <1>5 DEF BootSucceeds, UnderWay
    <3>1. PICK a \in attempts : a.mount = bench.mount
      BY DEF BenchInv, UnderWay
    <3> DEFINE c == IF a.boot = b THEN [a EXCEPT !.stage = "tables"] ELSE a
    <3>2. c \in attempts' /\ c.mount = a.mount
      BY <1>5 DEF BootSucceeds, BenchInv, AttemptsOK
    <3> QED
      BY <3>1, <3>2
  <2> QED
    BY <1>5, <2>1, <2>2, <2>3 DEF BootSucceeds, BenchInv
<1>6. ASSUME NEW b \in DOMAIN boots, NEW message \in BOOLEAN, BootFails(b, message)
      PROVE BenchInv'
  <2> DEFINE ended == {a \in attempts : a.boot = b /\ a.stage = "boot"}
  <2>1. BootsOK' /\ BootedLives'
    BY <1>6 DEF BootFails, BenchInv, BootsOK, BootedLives
  <2>2. AttemptsOK'
    BY <1>6 DEF BootFails, BenchInv, BootsOK, AttemptsOK
  <2>3. /\ Failed(message) \in Benches /\ ~Failed(message).connecting
        /\ Failed(message).mount = bench.mount
    BY <1>0 DEF Failed, Benches
  <2>4. attempts' = attempts \ ended /\ bench' = Told(ended, Failed(message))
    BY <1>6 DEF BootFails
  <2> HIDE DEF ended
  <2>5. bench' \in Benches /\ UnderWay'
    BY <1>0, <2>3, <2>4, EndedIsTold DEF BenchInv
  <2> QED
    BY <2>1, <2>2, <2>5 DEF BenchInv
<1>7. ASSUME NEW a \in attempts, TablesArrive(a) PROVE BenchInv'
  <2>1. PICK tables \in Hosted :
          /\ attempts' = attempts \ {a}
          /\ bench' = Told({a}, [bench EXCEPT !.client = TRUE, !.table = opening(tables),
                                              !.error = FALSE, !.connecting = FALSE])
          /\ UNCHANGED <<booted, boots>>
    BY <1>7 DEF TablesArrive
  <2> DEFINE s == [bench EXCEPT !.client = TRUE, !.table = opening(tables),
                                !.error = FALSE, !.connecting = FALSE]
  <2>2. opening(tables) \in {None} \cup UNION Hosted
    BY DEF opening
  <2>3. s \in Benches /\ ~s.connecting /\ s.mount = bench.mount
    BY <1>0, <2>2 DEF Benches
  <2>4. attempts' = attempts \ {a} /\ bench' = Told({a}, s)
    BY <2>1
  <2> HIDE DEF s
  <2>5. bench' \in Benches /\ UnderWay'
    BY <1>0, <2>3, <2>4, EndedIsTold DEF BenchInv
  <2>6. BootsOK' /\ BootedLives' /\ AttemptsOK'
    BY <2>1 DEF BenchInv, BootsOK, BootedLives, AttemptsOK
  <2> QED
    BY <2>5, <2>6 DEF BenchInv
<1>8. ASSUME NEW a \in attempts, NEW message \in BOOLEAN, TablesFail(a, message)
      PROVE BenchInv'
  <2>1. /\ Failed(message) \in Benches /\ ~Failed(message).connecting
        /\ Failed(message).mount = bench.mount
    BY <1>0 DEF Failed, Benches
  <2>2. attempts' = attempts \ {a} /\ bench' = Told({a}, Failed(message))
    BY <1>8 DEF TablesFail
  <2>3. bench' \in Benches /\ UnderWay'
    BY <1>0, <2>1, <2>2, EndedIsTold DEF BenchInv
  <2>4. BootsOK' /\ BootedLives' /\ AttemptsOK'
    BY <1>8 DEF TablesFail, BenchInv, BootsOK, BootedLives, AttemptsOK
  <2> QED
    BY <2>3, <2>4 DEF BenchInv
<1>9. CASE UNCHANGED benchVars
  BY <1>9 DEF benchVars, BenchInv, BootsOK, BootedLives, AttemptsOK, UnderWay
<1> QED
  BY <1>1, <1>2, <1>3, <1>4, <1>5, <1>6, <1>7, <1>8, <1>9 DEF BenchNext

\* ... and so does the page before it connects.
LEMMA BenchStart == BenchInit => BenchInv
<1> SUFFICES ASSUME BenchInit PROVE BenchInv
  OBVIOUS
<1>1. BootsOK
  <2>1. boots \in [1..0 -> {"pending", "ok", "failed"}]
    BY DEF BenchInit
  <2> QED
    BY <2>1 DEF BootsOK
<1>2. bench \in Benches /\ ~bench.shown
  BY DEF BenchInit, Fresh, Benches
<1>3. BootedLives /\ AttemptsOK
  BY DEF BenchInit, BootedLives, AttemptsOK
<1> QED
  BY <1>1, <1>2, <1>3 DEF BenchInv, UnderWay

\* What connects is under way, and a retry boots again.
LEMMA BenchAnswers == BenchInv => ConnectingIsUnderWay /\ RetryBoots
<1> SUFFICES ASSUME BenchInv PROVE ConnectingIsUnderWay /\ RetryBoots
  OBVIOUS
<1>1. Screen = "connecting" => bench.connecting
  BY DEF Screen
<1> QED
  BY <1>1 DEF BenchInv, UnderWay, ConnectingIsUnderWay, BootedLives, AttemptsOK, RetryBoots

-----------------------------------------------------------------------------
(* ImpulseScene. *)

\* The fields of the picture.
Shaped(v) ==
  v \in [feed : {v.feed}, act : {v.act}, place : {v.place}, grid : {v.grid}, prev : {v.prev},
         tab : {v.tab}, size : {v.size}, running : {v.running}, scene : {v.scene}]

\* It shows its nodes.
ShowsNodes(v) == \E mode \in {"grid", "regions"} : v.scene = Drawn(mode, v.act, v.place)

\* Nothing that an effect has still to put right.
Resting(v) ==
  /\ Shaped(v) /\ v.running \in BOOLEAN /\ v.grid = v.size /\ ShowsNodes(v)
  /\ layoutMode(v) = "grid" => v.place = v.size /\ ~v.running

SceneInv ==
  /\ Resting(viz) /\ viz.size \in Sizes /\ timeouts \in Seq(Sizes)
  /\ viz.running => timeouts # <<>>

\* renderScene changes the picture and nothing else.
LEMMA Rendered ==
  ASSUME NEW v, Shaped(v), NEW mode, NEW w, w = renderScene(v, mode)
  PROVE  /\ Shaped(w) /\ w.feed = v.feed /\ w.act = v.act /\ w.place = v.place
         /\ w.grid = v.grid /\ w.prev = v.prev /\ w.tab = v.tab /\ w.size = v.size
         /\ w.running = v.running /\ w.scene = Drawn(mode, v.act, v.place)
<1> DEFINE d == Drawn(mode, v.act, v.place)
<1>1. w = [v EXCEPT !.scene = d]
  BY DEF renderScene
<1> HIDE DEF d
<1> QED
  BY <1>1 DEF Shaped, d

\* What the data effect leaves.
LEMMA DataEffectLeaves ==
  ASSUME NEW v, Shaped(v), v.running \in BOOLEAN, NEW w, w = DataEffect(v)
  PROVE  /\ Shaped(w) /\ w.running \in BOOLEAN
         /\ w.size = v.size /\ w.tab = v.tab /\ w.grid = v.size
         /\ layoutMode(v) = "grid" => w.place = v.size /\ ~w.running
         /\ w.running => v.running
         /\ w.scene = Drawn(layoutMode(v), w.act, w.place)
<1> DEFINE place == IF layoutMode(v) = "grid" \/ v.prev # v.size THEN v.size ELSE v.place
           running == v.running /\ layoutMode(v) # "grid"
           u == [v EXCEPT !.act = v.feed, !.grid = v.size, !.prev = v.size,
                          !.place = place, !.running = running]
<1>1. w = renderScene(u, layoutMode(u))
  BY Zenon DEF DataEffect
<1>2. running \in BOOLEAN /\ (layoutMode(v) = "grid" => place = v.size /\ ~running)
      /\ (running => v.running)
  OBVIOUS
<1> HIDE DEF place, running
<1>3. /\ Shaped(u) /\ u.tab = v.tab /\ u.size = v.size /\ u.grid = v.size /\ u.place = place
      /\ u.running = running
  BY DEF Shaped
<1>4. layoutMode(u) = layoutMode(v)
  BY <1>3 DEF layoutMode
<1> HIDE DEF u
<1> QED
  BY <1>1, <1>2, <1>3, <1>4, Rendered

\* What the effect of the layout leaves.
LEMMA ModeEffectLeaves ==
  ASSUME NEW v, Shaped(v), v.grid = v.size, ShowsNodes(v), NEW w, w = ModeEffect(v)
  PROVE  Resting(w) /\ w.size = v.size /\ (w.running => layoutMode(v) # "grid")
<1>1. CASE layoutMode(v) = "grid"
  <2> DEFINE u == [v EXCEPT !.place = v.grid, !.running = FALSE]
  <2>1. w = renderScene(u, "grid")
    BY <1>1 DEF ModeEffect
  <2>2. /\ Shaped(u) /\ u.tab = v.tab /\ u.size = v.size /\ u.grid = v.size
        /\ u.place = v.size /\ u.running = FALSE
    BY DEF Shaped
  <2> HIDE DEF u
  <2>3. /\ Shaped(w) /\ w.tab = v.tab /\ w.size = v.size /\ w.grid = v.size
        /\ w.place = v.size /\ w.running = FALSE /\ w.scene = Drawn("grid", u.act, u.place)
        /\ w.act = u.act /\ w.place = u.place
    BY <2>1, <2>2, Rendered
  <2>4. ShowsNodes(w)
    BY <2>3 DEF ShowsNodes
  <2> QED
    BY <2>3, <2>4 DEF Resting
<1>2. CASE layoutMode(v) # "grid"
  <2>1. w = [v EXCEPT !.running = TRUE]
    BY <1>2 DEF ModeEffect
  <2>2. /\ Shaped(w) /\ w.tab = v.tab /\ w.size = v.size /\ w.grid = v.size /\ w.act = v.act
        /\ w.place = v.place /\ w.scene = v.scene /\ w.running = TRUE
    BY <2>1 DEF Shaped
  <2>3. layoutMode(w) # "grid" /\ ShowsNodes(w)
    BY <1>2, <2>2 DEF layoutMode, ShowsNodes
  <2> QED
    BY <1>2, <2>2, <2>3 DEF Resting
<1> QED
  BY <1>1, <1>2

\* All the effects of a commit, whatever was drawn before it.
LEMMA EffectsLeave ==
  ASSUME NEW v, Shaped(v), NEW w, w = ModeEffect(DataEffect(SetupEffect(v)))
  PROVE  Resting(w) /\ w.size = v.size /\ (w.running => layoutMode(v) # "grid")
<1> DEFINE emptied == SetupEffect(v)
           filled == DataEffect(emptied)
<1>1. /\ Shaped(emptied) /\ emptied.running = FALSE /\ emptied.size = v.size
      /\ emptied.tab = v.tab
  BY DEF SetupEffect, Shaped
<1> HIDE DEF emptied
<1>2. /\ Shaped(filled) /\ filled.size = v.size /\ filled.tab = v.tab /\ filled.grid = v.size
      /\ filled.scene = Drawn(layoutMode(emptied), filled.act, filled.place)
  BY <1>1, DataEffectLeaves
<1> HIDE DEF filled
<1>3. layoutMode(emptied) \in {"grid", "regions"} /\ layoutMode(filled) = layoutMode(v)
  BY <1>2 DEF layoutMode
<1>4. ShowsNodes(filled)
  BY <1>2, <1>3 DEF ShowsNodes
<1>5. w = ModeEffect(filled)
  BY DEF filled, emptied
<1> QED
  BY <1>2, <1>3, <1>4, <1>5, ModeEffectLeaves

\* Every step of the scene leaves it settled: effects run after a rendering,
\* timeouts after a resize, and the buttons between them.
LEMMA SceneStep == SceneInv /\ [SceneNext]_sceneVars => SceneInv'
<1> SUFFICES ASSUME SceneInv, [SceneNext]_sceneVars PROVE SceneInv'
  OBVIOUS
<1>0. /\ Resting(viz) /\ Shaped(viz) /\ viz.size \in Sizes /\ timeouts \in Seq(Sizes)
      /\ viz.running => timeouts # <<>>
      /\ viz.running \in BOOLEAN /\ viz.grid = viz.size /\ ShowsNodes(viz)
      /\ layoutMode(viz) = "grid" => viz.place = viz.size /\ ~viz.running
  BY DEF SceneInv, Resting
<1>1. ASSUME NEW act, DataArrives(act) PROVE SceneInv'
  <2> DEFINE v == [viz EXCEPT !.feed = act]
  <2>1. viz' = DataEffect(v) /\ timeouts' = timeouts
    BY <1>1 DEF DataArrives
  <2>2. /\ Shaped(v) /\ v.running = viz.running /\ v.size = viz.size /\ v.tab = viz.tab
    BY <1>0 DEF Shaped
  <2> HIDE DEF v
  <2>3. /\ Shaped(viz') /\ viz'.running \in BOOLEAN
        /\ viz'.size = viz.size /\ viz'.tab = viz.tab /\ viz'.grid = viz.size
        /\ layoutMode(v) = "grid" => viz'.place = viz.size /\ ~viz'.running
        /\ viz'.running => viz.running
        /\ viz'.scene = Drawn(layoutMode(v), viz'.act, viz'.place)
    BY <1>0, <2>1, <2>2, DataEffectLeaves
  <2>4. layoutMode(v) \in {"grid", "regions"} /\ layoutMode(viz') = layoutMode(v)
    BY <2>2, <2>3 DEF layoutMode
  <2>5. ShowsNodes(viz')
    BY <2>3, <2>4 DEF ShowsNodes
  <2>6. Resting(viz')
    BY <2>3, <2>4, <2>5 DEF Resting
  <2> QED
    BY <1>0, <2>1, <2>3, <2>6 DEF SceneInv
<1>2. ASSUME NEW s \in Sizes, Resize(s) PROVE SceneInv'
  <2> DEFINE v == [viz EXCEPT !.size = s]
  <2>1. viz' = ModeEffect(DataEffect(SetupEffect(v))) /\ timeouts' = Started(v, timeouts)
    BY <1>2 DEF Resize
  <2>2. Shaped(v) /\ v.size = s
    BY <1>0 DEF Shaped
  <2> HIDE DEF v
  <2>3. Resting(viz') /\ viz'.size = s /\ (viz'.running => layoutMode(v) # "grid")
    BY <2>1, <2>2, EffectsLeave
  <2>4. timeouts' \in Seq(Sizes) /\ (layoutMode(v) # "grid" => timeouts' # <<>>)
    BY <1>0, <2>1, <2>2 DEF Started
  <2> QED
    BY <2>3, <2>4 DEF SceneInv
<1>3. ASSUME NEW t, ChooseTab(t) PROVE SceneInv'
  <2> DEFINE v == [viz EXCEPT !.tab = t]
  <2>1. \/ layoutMode(v) = layoutMode(viz) /\ viz' = v /\ timeouts' = timeouts
        \/ viz' = ModeEffect(v) /\ timeouts' = Started(v, timeouts)
    BY <1>3 DEF ChooseTab
  <2>2. /\ Shaped(v) /\ v.running = viz.running /\ v.size = viz.size /\ v.grid = viz.grid
        /\ v.act = viz.act /\ v.place = viz.place /\ v.scene = viz.scene
    BY <1>0 DEF Shaped
  <2> HIDE DEF v
  <2>3. ShowsNodes(v)
    BY <1>0, <2>2 DEF ShowsNodes
  <2>4. CASE layoutMode(v) = layoutMode(viz) /\ viz' = v /\ timeouts' = timeouts
    BY <1>0, <2>2, <2>3, <2>4 DEF SceneInv, Resting
  <2>5. CASE viz' = ModeEffect(v) /\ timeouts' = Started(v, timeouts)
    <3>1. Resting(viz') /\ viz'.size = v.size /\ (viz'.running => layoutMode(v) # "grid")
      BY <1>0, <2>2, <2>3, <2>5, ModeEffectLeaves
    <3>2. \/ timeouts' = timeouts
          \/ timeouts' = Append(timeouts, v.size) /\ v.size \in Sizes
      BY <1>0, <2>2, <2>5 DEF Started
    <3>3. timeouts' \in Seq(Sizes)
      BY <1>0, <3>2
    <3>4. layoutMode(v) # "grid" => timeouts' # <<>>
      BY <1>0, <2>5 DEF Started
    <3> QED
      BY <1>0, <2>2, <3>1, <3>3, <3>4 DEF SceneInv
  <2> QED
    BY <2>1, <2>4, <2>5
<1>4. ASSUME SimulationTick \/ TimeoutFires \/ handleReset PROVE SceneInv'
  <2>1. CASE SimulationTick
    <3> DEFINE v == [viz EXCEPT !.place = 0]
    <3>0. viz.running /\ timeouts' = timeouts
      BY <2>1 DEF SimulationTick
    <3>1. viz' = renderScene(v, layoutMode(v))
      BY <2>1 DEF SimulationTick
    <3>2. /\ Shaped(v) /\ v.running = viz.running /\ v.size = viz.size /\ v.grid = viz.grid
          /\ v.tab = viz.tab
      BY <1>0 DEF Shaped
    <3> HIDE DEF v
    <3>3. /\ Shaped(viz') /\ viz'.tab = viz.tab /\ viz'.size = viz.size
          /\ viz'.grid = viz.grid /\ viz'.running = viz.running
          /\ viz'.scene = Drawn(layoutMode(v), viz'.act, viz'.place)
      BY <3>1, <3>2, Rendered
    <3>4. layoutMode(v) \in {"grid", "regions"}
      BY DEF layoutMode
    <3>5. ShowsNodes(viz')
      BY <3>3, <3>4 DEF ShowsNodes
    <3>6. layoutMode(viz') = layoutMode(viz)
      BY <3>3 DEF layoutMode
    <3>7. Resting(viz')
      BY <1>0, <3>0, <3>3, <3>5, <3>6 DEF Resting
    <3> QED
      BY <1>0, <3>0, <3>3, <3>7 DEF SceneInv
  <2>2. CASE TimeoutFires
    <3> DEFINE v == [viz EXCEPT !.running = FALSE]
    <3>1. timeouts # <<>> /\ viz' = renderScene(v, "regions") /\ timeouts' = Tail(timeouts)
      BY <2>2 DEF TimeoutFires
    <3>2. /\ Shaped(v) /\ v.running = FALSE /\ v.size = viz.size /\ v.grid = viz.grid
          /\ v.tab = viz.tab /\ v.place = viz.place
      BY <1>0 DEF Shaped
    <3> HIDE DEF v
    <3>3. /\ Shaped(viz') /\ viz'.tab = viz.tab /\ viz'.size = viz.size
          /\ viz'.grid = viz.grid /\ viz'.running = FALSE /\ viz'.place = viz.place
          /\ viz'.scene = Drawn("regions", viz'.act, viz'.place)
      BY <3>1, <3>2, Rendered
    <3>4. layoutMode(viz') = layoutMode(viz)
      BY <3>3 DEF layoutMode
    <3>5. ShowsNodes(viz')
      BY <3>3 DEF ShowsNodes
    <3>6. Resting(viz')
      BY <1>0, <3>3, <3>4, <3>5 DEF Resting
    <3>7. timeouts' \in Seq(Sizes)
      BY <1>0, <3>1
    <3> QED
      BY <1>0, <3>3, <3>6, <3>7 DEF SceneInv
  <2>3. CASE handleReset
    <3> DEFINE v == [viz EXCEPT !.place = viz.grid, !.act = [p \in Pins |-> 0],
                                !.running = FALSE]
    <3>1. viz' = renderScene(v, layoutMode(v)) /\ timeouts' = timeouts
      BY <2>3 DEF handleReset
    <3>2. /\ Shaped(v) /\ v.running = FALSE /\ v.size = viz.size /\ v.grid = viz.grid
          /\ v.tab = viz.tab /\ v.place = viz.grid
      BY <1>0 DEF Shaped
    <3> HIDE DEF v
    <3>3. /\ Shaped(viz') /\ viz'.tab = viz.tab /\ viz'.size = viz.size
          /\ viz'.grid = viz.grid /\ viz'.running = FALSE /\ viz'.place = viz.grid
          /\ viz'.scene = Drawn(layoutMode(v), viz'.act, viz'.place)
      BY <3>1, <3>2, Rendered
    <3>4. layoutMode(v) \in {"grid", "regions"}
      BY DEF layoutMode
    <3>5. ShowsNodes(viz')
      BY <3>3, <3>4 DEF ShowsNodes
    <3>6. Resting(viz')
      BY <1>0, <3>3, <3>5 DEF Resting
    <3> QED
      BY <1>0, <3>1, <3>3, <3>6 DEF SceneInv
  <2> QED
    BY <1>4, <2>1, <2>2, <2>3
<1>5. CASE UNCHANGED sceneVars
  BY <1>5 DEF sceneVars, SceneInv
<1> QED
  BY <1>1, <1>2, <1>3, <1>4, <1>5 DEF SceneNext

\* ... and so do the first effects.
LEMMA SceneStart == SceneInit => SceneInv
<1> SUFFICES ASSUME SceneInit PROVE SceneInv
  OBVIOUS
<1> DEFINE v == [feed |-> [p \in Pins |-> 0], act |-> [p \in Pins |-> 0], place |-> 0,
                 grid |-> 1, prev |-> 0, tab |-> "map", size |-> 1, running |-> FALSE,
                 scene |-> Wiped]
<1>1. viz = ModeEffect(DataEffect(SetupEffect(v))) /\ timeouts = <<>>
  BY DEF SceneInit
<1>2. Shaped(v) /\ v.size = 1 /\ v.tab = "map"
  BY DEF Shaped
<1> HIDE DEF v
<1>3. Resting(viz) /\ viz.size = 1 /\ (viz.running => layoutMode(v) # "grid")
  BY <1>1, <1>2, EffectsLeave
<1>4. layoutMode(v) = "grid"
  BY <1>2 DEF layoutMode
<1>5. timeouts \in Seq(Sizes)
  BY <1>1
<1> QED
  BY <1>3, <1>4, <1>5, SceneAssumption DEF SceneInv

\* The picture is settled: it is current, placed, and its forces are stopped.
LEMMA SceneAnswers == SceneInv => SceneIsCurrent /\ GridIsPlaced /\ ForcesAreStopped
BY DEF SceneInv, Resting, ShowsNodes, SceneIsCurrent, GridIsPlaced, ForcesAreStopped

-----------------------------------------------------------------------------
(* LiveCharts: the Impulse Map. *)

Brights == [Regions -> Levels \cup {0}]

Maps == [paused : BOOLEAN, token : Nat, bright : Brights, lit : Seq(SymbolSet), last : Nat]

Grid == {Nothing} \cup RegionRows

Jobs == [token : Nat, rows : [SymbolSet -> Grid], names : SUBSET DOMAIN Symbols, tick : Nat]

MapOK ==
  /\ map \in Maps /\ frames \subseteq Jobs /\ tickCount \in Nat
  /\ grids \in [SymbolSet -> Grid]

\* The places of the symbols that have a grid.
Populated == {i \in DOMAIN Symbols : grids[Symbols[i]] # Nothing}

\* A job of the present round has the rows of the store, and the last symbol
\* is still to be painted.
InRound(job) ==
  /\ job.rows = grids /\ job.names \subseteq Populated
  /\ \E j \in job.names : \A i \in Populated : i <= j

RoundsOK ==
  \A job \in frames :
    /\ job.token <= map.token
    /\ job.token = map.token => ~map.paused /\ InRound(job)

MapInv == MapOK /\ RoundsOK /\ MapShowsOneGrid

\* A set of places has a first one.
LEMMA LeastPlace ==
  ASSUME NEW T, T \subseteq DOMAIN Symbols, T # {}
  PROVE  Min(T) \in T /\ \A i \in T : Min(T) <= i
<1>1. T \subseteq Nat
  BY ChartAssumption
<1> DEFINE R == {ss \in Nat \X Nat : ss[1] < ss[2]}
<1>2. IsWellFoundedOn(R, Nat)
  BY NatLessThanWellFounded DEF OpToRel
<1> HIDE DEF R
<1>3. \E i \in T : \A k \in T : ~ (<<k, i>> \in R)
  BY <1>1, <1>2, WFMin
<1>4. \A i, k \in Nat : ~ (<<k, i>> \in R) => i <= k
  BY DEF R
<1>5. \E i \in T : \A k \in T : i <= k
  BY <1>1, <1>3, <1>4
<1> QED
  BY <1>5 DEF Min

\* A place of the symbols, not before any other, is the last.
LEMMA LastPlace ==
  ASSUME NEW T, T \subseteq DOMAIN Symbols, NEW j \in T, \A i \in T : i <= j
  PROVE  Max(T) = j
<1>1. T \subseteq Nat
  BY ChartAssumption
<1>2. Max(T) \in T /\ \A i \in T : Max(T) >= i
  BY <1>1 DEF Max
<1> QED
  BY <1>1, <1>2

\* paintRegions does not look at what was painted before.
LEMMA PaintedAlone ==
  ASSUME NEW bright, NEW area \in RegionRows
  PROVE  /\ paintRegions(bright, area) = paintRegions(dark, area)
         /\ paintRegions(bright, area) \in Brights
<1>1. PICK ks \in SUBSET WireKeys : area \in [ks -> Levels]
  BY DEF RegionRows
<1>2. paintRegions(bright, area) \in Brights
  BY <1>1 DEF paintRegions, Brights
<1> QED
  BY <1>2 DEF paintRegions

\* What a step of a round leaves: the map shows the first symbol of the job,
\* and if there are more a frame is asked for.
LEMMA StepLeaves ==
  ASSUME NEW m \in Maps, NEW job \in Jobs, NEW pending, pending \subseteq Jobs,
         job.names # {}, \A i \in job.names : job.rows[Symbols[i]] # Nothing,
         StepJob(m, job, pending)
  PROVE  /\ map' \in Maps /\ map'.token = m.token /\ map'.paused = m.paused
         /\ LET first == Min(job.names)
                rest == job.names \ {first}
            IN  /\ first \in job.names /\ \A i \in job.names : first <= i
                /\ shown'.lit = <<Symbols[first]>>
                /\ shown'.bright = paintRegions(dark, job.rows[Symbols[first]])
                /\ frames' = IF rest # {} THEN pending \cup {[job EXCEPT !.names = rest]}
                             ELSE pending
<1> DEFINE first == Min(job.names)
           rest == job.names \ {first}
           sym == Symbols[first]
           next == Painted(m, sym, job.rows[sym])
<1>1. first \in job.names /\ \A i \in job.names : first <= i
  BY LeastPlace DEF Jobs
<1>2. sym \in SymbolSet /\ job.rows[sym] \in RegionRows
  <2>1. first \in DOMAIN Symbols /\ Symbols \in Seq(Range(Symbols))
    BY <1>1, ChartAssumption DEF Jobs
  <2>2. sym \in SymbolSet
    BY <2>1 DEF SymbolSet, Range
  <2> QED
    BY <1>1, <2>2 DEF Jobs, Grid
<1>3. /\ map' = [next EXCEPT !.last = job.tick]
      /\ shown' = publish(next, job.tick, metric'[sym])
      /\ frames' = IF rest # {} THEN pending \cup {[job EXCEPT !.names = rest]} ELSE pending
  BY DEF StepJob
<1> HIDE DEF first, sym
<1>4. next = [m EXCEPT !.bright = paintRegions(m.bright, job.rows[sym]), !.lit = <<sym>>]
  BY DEF Painted
<1>5. /\ paintRegions(m.bright, job.rows[sym]) \in Brights
      /\ paintRegions(m.bright, job.rows[sym]) = paintRegions(dark, job.rows[sym])
  BY <1>2, PaintedAlone
<1>6. <<sym>> \in Seq(SymbolSet)
  BY <1>2
<1>7. /\ next \in Maps /\ next.token = m.token /\ next.paused = m.paused
      /\ next.lit = <<sym>> /\ next.bright = paintRegions(dark, job.rows[sym])
  BY <1>4, <1>5, <1>6 DEF Maps
<1> HIDE DEF next
<1>8. map' \in Maps /\ map'.token = m.token /\ map'.paused = m.paused
  BY <1>3, <1>7 DEF Maps, Jobs
<1>9. shown'.lit = <<sym>> /\ shown'.bright = paintRegions(dark, job.rows[sym])
  BY <1>3, <1>7 DEF publish
<1> QED
  BY <1>1, <1>3, <1>8, <1>9 DEF first, sym

\* A step of the present round: it goes on, or the last symbol is shown.
LEMMA StepKeeps ==
  ASSUME NEW m \in Maps, ~m.paused, NEW job \in Jobs, job.token = m.token, InRound(job)',
         NEW pending, pending \subseteq Jobs,
         \A k \in pending : k.token <= m.token /\ (k.token = m.token => InRound(k)'),
         grids' \in [SymbolSet -> Grid], tickCount' \in Nat, StepJob(m, job, pending)
  PROVE  MapInv'
<1> DEFINE first == Min(job.names)
           rest == job.names \ {first}
           next == [job EXCEPT !.names = rest]
<1>0. /\ job.rows = grids' /\ job.names \subseteq Populated'
      /\ \E j \in job.names : \A i \in Populated' : i <= j
  BY DEF InRound
<1>1. \A i \in Populated' : i \in DOMAIN Symbols /\ grids'[Symbols[i]] # Nothing
  BY DEF Populated
<1>2. /\ map' \in Maps /\ map'.token = m.token /\ map'.paused = m.paused
      /\ first \in job.names /\ \A i \in job.names : first <= i
      /\ shown'.lit = <<Symbols[first]>>
      /\ shown'.bright = paintRegions(dark, job.rows[Symbols[first]])
      /\ frames' = IF rest # {} THEN pending \cup {next} ELSE pending
  <2>1. job.names # {} /\ \A i \in job.names : job.rows[Symbols[i]] # Nothing
    BY <1>0, <1>1
  <2> QED
    BY <2>1, StepLeaves
<1>3. PICK j \in job.names : \A i \in Populated' : i <= j
  BY <1>0
<1>4. first \in Nat /\ j \in Nat /\ first <= j /\ j \in Populated'
  <2>1. job.names \subseteq Nat
    BY ChartAssumption DEF Jobs
  <2> QED
    BY <1>0, <1>2, <1>3, <2>1
<1> HIDE DEF first
<1>5. next \in Jobs /\ next.token = m.token /\ next.rows = job.rows /\ next.names = rest
  BY DEF Jobs
<1> HIDE DEF next
<1>6. MapOK'
  BY <1>2, <1>5 DEF MapOK
<1>7. rest # {} => j \in rest
  <2>1. CASE first = j
    <3>1. \A i \in job.names : i \in Nat /\ first <= i /\ i <= j
      BY <1>0, <1>2, <1>3, <1>4, ChartAssumption DEF Jobs
    <3>2. \A i \in job.names : i = first
      BY <1>4, <2>1, <3>1
    <3> QED
      BY <3>2
  <2>2. CASE first # j
    BY <2>2
  <2> QED
    BY <2>1, <2>2
<1>8. RoundsOK'
  <2> SUFFICES ASSUME NEW k \in frames'
               PROVE  /\ k.token <= map'.token
                      /\ k.token = map'.token => ~map'.paused /\ InRound(k)'
    BY DEF RoundsOK
  <2>1. CASE k \in pending
    BY <1>2, <2>1
  <2>2. CASE rest # {} /\ k = next
    <3>1. k.token = map'.token /\ k.token <= map'.token
      BY <1>2, <1>5, <2>2 DEF Maps
    <3>2. InRound(k)'
      BY <1>0, <1>3, <1>5, <1>7, <2>2 DEF InRound
    <3> QED
      BY <1>2, <3>1, <3>2
  <2> QED
    BY <1>2, <2>1, <2>2
<1>9. MapShowsOneGrid'
  <2> SUFFICES ASSUME ~\E k \in frames' : k.token = map'.token
               PROVE  /\ Populated' # {} /\ shown'.lit = <<Symbols[Max(Populated')]>>
                      /\ shown'.bright = paintRegions(dark, grids'[Symbols[Max(Populated')]])
    BY DEF MapShowsOneGrid, Populated
  <2>1. rest = {}
    BY <1>2, <1>5
  <2>2. first = j
    BY <2>1
  <2>3. Max(Populated') = j
    BY <1>1, <1>3, <1>4, LastPlace
  <2> QED
    BY <1>0, <1>2, <1>4, <2>2, <2>3
<1> QED
  BY <1>6, <1>8, <1>9 DEF MapInv

\* ... and a last one.
LEMMA LastExists ==
  ASSUME NEW T, T \subseteq DOMAIN Symbols, T # {}
  PROVE  \E j \in T : \A i \in T : i <= j
<1> DEFINE n == Len(Symbols)
           U == {n + 1 - i : i \in T}
<1>1. n \in Nat /\ DOMAIN Symbols = 1..n /\ T \subseteq 1..n
  BY ChartAssumption
<1> HIDE DEF n
<1>2. U \subseteq DOMAIN Symbols /\ U # {}
  BY <1>1
<1>3. PICK k \in U : \A i \in U : k <= i
  BY <1>2, LeastPlace
<1>4. PICK j \in T : k = n + 1 - j
  BY <1>3
<1>5. ASSUME NEW i \in T PROVE i <= j
  <2>1. n + 1 - j <= n + 1 - i
    BY <1>3, <1>4, <1>5
  <2>2. i \in 1..n /\ j \in 1..n
    BY <1>1, <1>4, <1>5
  <2> QED
    BY <1>1, <2>1, <2>2
<1> QED
  BY <1>5

\* A subscription runs: whatever round is under way is left behind.
LEMMA UpdateKeeps ==
  ASSUME NEW m \in Maps, frames \subseteq Jobs,
         \A k \in frames :
           /\ k.token <= m.token
           /\ k.token = m.token => ~m.paused /\ k.names # {} /\ k.names \subseteq Populated',
         grids' \in [SymbolSet -> Grid], tickCount' \in Nat,
         updateFromTelemetry(m, frames)
  PROVE  MapInv'
<1> DEFINE tick == IF tickCount' # 0 THEN tickCount' ELSE m.last
<1>0. tick \in Nat
  BY DEF Maps
<1>a. symbolGridFrames = Populated'
  BY DEF symbolGridFrames, Populated
<1>1. CASE m.paused
  <2>1. map' = m /\ frames' = frames
    BY <1>1 DEF updateFromTelemetry
  <2>2. MapOK' /\ RoundsOK'
    BY <1>1, <2>1 DEF MapOK, RoundsOK
  <2>3. MapShowsOneGrid'
    BY <1>1, <2>1 DEF MapShowsOneGrid
  <2> QED
    BY <2>2, <2>3 DEF MapInv
<1>2. CASE ~m.paused /\ Populated' = {}
  <2> DEFINE off == [m EXCEPT !.bright = paintRegions(m.bright, <<>>), !.lit = <<>>]
  <2>1. map' = [off EXCEPT !.last = tick] /\ shown' = publish(off, tick, 0) /\ frames' = frames
    BY <1>a, <1>2 DEF updateFromTelemetry
  <2>2. paintRegions(m.bright, <<>>) = dark /\ dark \in Brights
    BY DEF paintRegions, dark, Brights
  <2>3. off \in Maps /\ off.token = m.token /\ off.lit = <<>> /\ off.bright = dark
    <3>1. off = [m EXCEPT !.bright = dark, !.lit = <<>>]
      BY <2>2, Zenon
    <3>2. <<>> \in Seq(SymbolSet)
      OBVIOUS
    <3> HIDE DEF off
    <3> QED
      BY <2>2, <3>1, <3>2 DEF Maps
  <2> HIDE DEF off, tick
  <2>4. map' \in Maps /\ map'.token = m.token /\ shown'.lit = <<>> /\ shown'.bright = dark
    BY <1>0, <2>1, <2>3 DEF Maps, publish
  <2>5. \A k \in frames : k.token <= m.token /\ k.token # m.token
    BY <1>2
  <2>6. MapOK' /\ RoundsOK'
    BY <2>1, <2>4, <2>5 DEF MapOK, RoundsOK
  <2>7. MapShowsOneGrid'
    BY <1>2, <2>4 DEF MapShowsOneGrid, Populated
  <2> QED
    BY <2>6, <2>7 DEF MapInv
<1>3. CASE ~m.paused /\ Populated' # {}
  <2> DEFINE n == [m EXCEPT !.token = @ + 1]
  <2>2. n \in Maps /\ n.token = m.token + 1 /\ ~n.paused
    BY <1>3 DEF Maps
  <2>3. Populated' \subseteq DOMAIN Symbols
    BY DEF Populated
  <2>4. PICK job \in Jobs : /\ job.token = m.token + 1 /\ job.rows = grids'
                           /\ job.names = Populated' /\ StepJob(n, job, frames)
    <3> DEFINE fresh == Job(m.token + 1, grids', symbolGridFrames, tick)
    <3>1. StepJob(n, fresh, frames)
      BY <1>a, <1>3 DEF updateFromTelemetry
    <3>2. fresh \in Jobs /\ fresh.token = m.token + 1 /\ fresh.rows = grids' /\ fresh.names = Populated'
      BY <1>0, <1>a, <2>3 DEF Job, Jobs, Maps
    <3> QED
      BY <3>1, <3>2
  <2> HIDE DEF n
  <2>5. InRound(job)'
    BY <1>3, <2>3, <2>4, LastExists DEF InRound
  <2>6. \A k \in frames : k.token <= n.token /\ k.token # n.token
    BY <2>2 DEF Maps, Jobs
  <2> QED
    BY <2>2, <2>4, <2>5, <2>6, StepKeeps
<1> QED
  BY <1>1, <1>2, <1>3

\* A symbol that has a grid keeps one.
LEMMA LiveStays ==
  ASSUME MapInv, grids' = grids \/ \E s \in SymbolSet, area \in RegionRows :
                                     grids' = [grids EXCEPT ![s] = area]
  PROVE  Populated \subseteq Populated' /\ grids' \in [SymbolSet -> Grid]
<1>1. CASE grids' = grids
  BY <1>1 DEF MapInv, MapOK, Populated
<1>2. ASSUME NEW s \in SymbolSet, NEW area \in RegionRows, grids' = [grids EXCEPT ![s] = area]
      PROVE  Populated \subseteq Populated' /\ grids' \in [SymbolSet -> Grid]
  <2>1. area # Nothing /\ grids \in [SymbolSet -> Grid]
    BY ChartAssumption DEF RegionRows, MapInv, MapOK
  <2>2. grids' \in [SymbolSet -> Grid]
    BY <1>2, <2>1 DEF Grid
  <2>3. \A i \in DOMAIN Symbols : grids[Symbols[i]] # Nothing => grids'[Symbols[i]] # Nothing
    <3>1. \A i \in DOMAIN Symbols : Symbols[i] \in SymbolSet
      BY DEF SymbolSet, Range
    <3> QED
      BY <1>2, <2>1, <3>1
  <2> QED
    BY <2>2, <2>3 DEF Populated
<1> QED
  BY <1>1, <1>2

\* Every step of the map keeps this, whichever subscription runs, whichever
\* frame comes and whenever it is paused.
LEMMA MapStep == MapInv /\ [ImpulseNext]_impulseVars => MapInv'
<1> SUFFICES ASSUME MapInv, [ImpulseNext]_impulseVars PROVE MapInv'
  OBVIOUS
<1>0. /\ map \in Maps /\ frames \subseteq Jobs /\ tickCount \in Nat
      /\ grids \in [SymbolSet -> Grid]
      /\ \A k \in frames : k.token <= map.token
      /\ \A k \in frames : k.token = map.token =>
           ~map.paused /\ InRound(k) /\ k.names # {} /\ k.names \subseteq Populated
  BY DEF MapInv, MapOK, RoundsOK, InRound
<1>1. ASSUME NEW s \in SymbolSet, NEW area \in RegionRows, RegionsArrive(s, area) PROVE MapInv'
  <2>1. Populated \subseteq Populated' /\ grids' \in [SymbolSet -> Grid] /\ tickCount' = tickCount
    BY <1>1, LiveStays DEF RegionsArrive
  <2> QED
    BY <1>0, <1>1, <2>1, UpdateKeeps DEF RegionsArrive
<1>2. ASSUME NEW s \in SymbolSet, NEW act \in Levels, KernelArrives(s, act) PROVE MapInv'
  <2>1. Populated \subseteq Populated' /\ grids' \in [SymbolSet -> Grid] /\ tickCount' = tickCount
    BY <1>2, LiveStays DEF KernelArrives
  <2> QED
    BY <1>0, <1>2, <2>1, UpdateKeeps DEF KernelArrives
<1>3. CASE Tick
  <2>1. Populated \subseteq Populated' /\ grids' \in [SymbolSet -> Grid] /\ tickCount' \in Nat
    BY <1>0, <1>3, LiveStays DEF Tick
  <2> QED
    BY <1>0, <1>3, <2>1, UpdateKeeps DEF Tick
<1>4. ASSUME NEW job \in frames, FrameRuns(job) PROVE MapInv'
  <2>0. grids' = grids /\ tickCount' = tickCount
    BY <1>4 DEF FrameRuns
  <2>1. CASE job.token # map.token
    <3>1. frames' = frames \ {job} /\ map' = map /\ shown' = shown
      BY <1>4, <2>1 DEF FrameRuns
    <3>2. MapOK' /\ RoundsOK'
      BY <1>0, <2>0, <3>1 DEF MapOK, RoundsOK, InRound, Populated
    <3>3. (\E k \in frames : k.token = map.token) <=> (\E k \in frames' : k.token = map'.token)
      BY <2>1, <3>1
    <3>4. MapShowsOneGrid'
      BY <2>0, <3>1, <3>3 DEF MapInv, MapShowsOneGrid
    <3> QED
      BY <3>2, <3>4 DEF MapInv
  <2>2. CASE job.token = map.token
    <3>1. StepJob(map, job, frames \ {job})
      BY <1>4, <2>2 DEF FrameRuns
    <3>2. \A k \in frames : InRound(k)' <=> InRound(k)
      BY <2>0 DEF InRound, Populated
    <3> QED
      BY <1>0, <2>0, <2>2, <3>1, <3>2, StepKeeps
  <2> QED
    BY <2>1, <2>2
<1>5. CASE SetPaused
  <2> DEFINE fresh == [paused |-> ~map.paused, token |-> map.token + 2, bright |-> dark,
                       lit |-> <<>>, last |-> map.last]
  <2>1. /\ grids' = grids /\ tickCount' = tickCount
        /\ IF fresh.paused
           THEN map' = fresh /\ shown' = publish(fresh, fresh.last, 0) /\ frames' = frames
           ELSE updateFromTelemetry(fresh, frames)
    BY <1>5 DEF SetPaused
  <2>2. fresh \in Maps /\ fresh.token = map.token + 2
    <3>1. dark \in Brights /\ <<>> \in Seq(SymbolSet)
      BY DEF dark, Brights
    <3> QED
      BY <1>0, <3>1 DEF Maps
  <2> HIDE DEF fresh
  <2>3. \A k \in frames : k.token <= fresh.token /\ k.token # fresh.token
    BY <1>0, <2>2 DEF Maps, Jobs
  <2>4. CASE fresh.paused
    <3>1. map' = fresh /\ frames' = frames
      BY <2>1, <2>4
    <3>2. MapOK' /\ RoundsOK'
      BY <1>0, <2>1, <2>2, <2>3, <3>1 DEF MapOK, RoundsOK
    <3>3. MapShowsOneGrid'
      BY <2>4, <3>1 DEF MapShowsOneGrid
    <3> QED
      BY <3>2, <3>3 DEF MapInv
  <2>5. CASE ~fresh.paused
    BY <1>0, <2>1, <2>2, <2>3, <2>5, UpdateKeeps
  <2> QED
    BY <2>4, <2>5
<1>6. CASE UNCHANGED impulseVars
  <2>1. UNCHANGED <<grids, metric, tickCount, map, shown, frames>>
    BY <1>6 DEF impulseVars
  <2> QED
    BY <2>1 DEF MapInv, MapOK, RoundsOK, InRound, Populated, MapShowsOneGrid
<1> QED
  BY <1>1, <1>2, <1>3, <1>4, <1>5, <1>6 DEF ImpulseNext

\* ... and so does the page when it opens.
LEMMA MapStart == ImpulseInit => MapInv
<1> SUFFICES ASSUME ImpulseInit PROVE MapInv
  OBVIOUS
<1>1. /\ grids = [s \in SymbolSet |-> Nothing] /\ tickCount = 0 /\ frames = {}
      /\ map = [paused |-> FALSE, token |-> 1, bright |-> dark, lit |-> <<>>, last |-> 0]
      /\ shown = publish(map, 0, 0)
  BY DEF ImpulseInit
<1>2. map \in Maps /\ map.lit = <<>> /\ map.bright = dark
  <2>1. dark \in Brights /\ <<>> \in Seq(SymbolSet)
    BY DEF dark, Brights
  <2> QED
    BY <1>1, <2>1 DEF Maps
<1>3. MapOK /\ RoundsOK
  BY <1>1, <1>2 DEF MapOK, RoundsOK, Grid
<1>4. MapShowsOneGrid
  <2>1. \A i \in DOMAIN Symbols : grids[Symbols[i]] = Nothing
    BY <1>1 DEF SymbolSet, Range
  <2>2. shown.lit = <<>> /\ shown.bright = dark
    BY <1>1, <1>2 DEF publish
  <2> QED
    BY <2>1, <2>2 DEF MapShowsOneGrid
<1> QED
  BY <1>3, <1>4 DEF MapInv

\* With no frame left to run, the map shows the last symbol's grid.
LEMMA MapAnswers == MapInv => MapShowsOneGrid
BY DEF MapInv

-----------------------------------------------------------------------------
(* LiveCharts: the chart of open choices. *)

\* A sequence is the end of another, by its places.
EndsWith(s, t) ==
  Len(s) <= Len(t) /\ \A i \in 1..Len(s) : s[i] = t[Len(t) - Len(s) + i]

Binds == [stamp : OpenRows \cup {Nothing}, line : BOOLEAN, band : {Nothing} \cup BOOLEAN,
          trail : Seq(Int), bandTrail : Seq(Int)]

Solid(tied) == tied.line = TRUE /\ tied.band # FALSE

\* The band runs along the end of the line, and only once there is one.
Runs(tied) ==
  /\ tied.band = Nothing => tied.bandTrail = <<>>
  /\ EndsWith(tied.bandTrail, tied.trail)

Subs == [lot : OpenLots, gen : Nat]

ChoiceOK ==
  /\ pos \in [OpenLots -> OpenRows \cup {Nothing}]
  /\ lots \in [OpenLots -> Binds \cup {Nothing}]
  /\ subs \subseteq Subs /\ IsFiniteSet(subs) /\ fading \in Seq(Subs)
  /\ nextX \in Int /\ toggles \in Nat
  /\ isGrid \in BOOLEAN /\ axes \in BOOLEAN /\ ready \in BOOLEAN

\* A lot whose series left the parent has a sub-chart that brings them back.
Covered(l) ==
  IF isGrid THEN \E s \in subs : s.lot = l
  ELSE \E i \in DOMAIN fading : fading[i].lot = l

BoundOK ==
  \A l \in Bound(lots) :
    /\ ready /\ l \in chartHeld(pos, ledger) /\ pos[l].mark # Nothing
    /\ lots[l].trail # <<>> /\ Last(lots[l].trail) = nextX - 1
    /\ Runs(lots[l])
    /\ Solid(lots[l]) \/ Covered(l)

\* In single layout every sub-chart is fading.
SingleOK == ~isGrid => axes /\ \A s \in subs : \E i \in DOMAIN fading : fading[i] = s

ChoiceInv == ChoiceOK /\ BoundOK /\ SingleOK

\* The end of a sequence by its places is its suffix.
LEMMA EndIsSuffix ==
  ASSUME NEW s \in Seq(Int), NEW t \in Seq(Int), EndsWith(s, t)
  PROVE  IsSuffix(s, t)
<1> DEFINE m == Len(s)
           n == Len(t)
           rs == Reverse(s)
           rt == Reverse(t)
<1>1. m \in Nat /\ n \in Nat /\ m <= n /\ \A i \in 1..m : s[i] = t[n - m + i]
  BY DEF EndsWith
<1>2. /\ rs \in Seq(Int) /\ Len(rs) = m /\ \A i \in 1..m : rs[i] = s[(m - i) + 1]
      /\ rt \in Seq(Int) /\ Len(rt) = n /\ \A i \in 1..n : rt[i] = t[(n - i) + 1]
  BY DEF Reverse
<1> HIDE DEF m, n, rs, rt
<1>3. ASSUME NEW i \in 1..m PROVE rs[i] = rt[i]
  <2>1. (m - i) + 1 \in 1..m /\ i \in 1..n
    BY <1>1
  <2>2. s[(m - i) + 1] = t[n - m + ((m - i) + 1)]
    BY <1>1, <2>1
  <2>3. n - m + ((m - i) + 1) = (n - i) + 1
    BY <1>1
  <2> QED
    BY <1>2, <2>1, <2>2, <2>3
<1>4. SubSeq(rs, 1, m) = SubSeq(rt, 1, m)
  <2>1. SubSeq(rs, 1, m) = [i \in 1..m |-> rs[i]] /\ SubSeq(rt, 1, m) = [i \in 1..m |-> rt[i]]
    BY <1>1, <1>2
  <2> QED
    BY <1>3, <2>1
<1>5. IsPrefix(rs, rt)
  BY <1>1, <1>2, <1>4 DEF IsPrefix
<1> QED
  BY <1>5 DEF IsSuffix, rs, rt

\* What Fifo leaves ends with what it was given.
LEMMA FifoEnds ==
  ASSUME NEW t \in Seq(Int), NEW x \in Int
  PROVE  Fifo(t, x) \in Seq(Int) /\ Fifo(t, x) # <<>> /\ Last(Fifo(t, x)) = x
<1> DEFINE u == Append(t, x)
<1>1. u \in Seq(Int) /\ Len(u) = Len(t) + 1 /\ u[Len(u)] = x
  OBVIOUS
<1>2. Fifo(t, x) = IF Len(u) > Trail THEN Tail(u) ELSE u
  BY DEF Fifo
<1> HIDE DEF u
<1>3. CASE Len(u) > Trail
  <2>1. /\ Tail(u) \in Seq(Int) /\ Len(Tail(u)) = Len(u) - 1
        /\ \A i \in 1..Len(Tail(u)) : Tail(u)[i] = u[i + 1]
    BY <1>1
  <2>2. Len(u) - 1 >= 1 /\ (Len(u) - 1) + 1 = Len(u) /\ Len(u) \in Nat
    BY <1>1, <1>3, ChartAssumption
  <2> QED
    BY <1>1, <1>2, <1>3, <2>1, <2>2 DEF Last
<1>4. CASE ~(Len(u) > Trail)
  BY <1>1, <1>2, <1>4 DEF Last
<1> QED
  BY <1>3, <1>4

\* ... and goes on being the end of what it was the end of.
LEMMA FifoRuns ==
  ASSUME NEW s \in Seq(Int), NEW t \in Seq(Int), EndsWith(s, t), NEW x \in Int
  PROVE  EndsWith(Fifo(s, x), Fifo(t, x))
<1> DEFINE n == Len(t)
           m == Len(s)
           Long(k) == k + 1 > Trail
<1>1. n \in Nat /\ m \in Nat /\ m <= n /\ \A i \in 1..m : s[i] = t[n - m + i]
  BY DEF EndsWith
<1>2. ASSUME NEW u \in Seq(Int), NEW k \in Nat, Len(u) = k
      PROVE  LET f == Fifo(u, x)
                 d == IF Long(k) THEN 1 ELSE 0
             IN  /\ Len(f) = k + 1 - d
                 /\ \A i \in 1..Len(f) : f[i] = IF i + d = k + 1 THEN x ELSE u[i + d]
  <2> DEFINE a == Append(u, x)
  <2>1. a \in Seq(Int) /\ Len(a) = k + 1 /\ \A i \in 1..k + 1 : a[i] = IF i = k + 1 THEN x ELSE u[i]
    BY <1>2
  <2>2. Fifo(u, x) = IF Len(a) > Trail THEN Tail(a) ELSE a
    BY DEF Fifo
  <2> HIDE DEF a
  <2>3. CASE Long(k)
    <3>1. Fifo(u, x) = Tail(a) /\ Trail \in Nat
      BY <2>1, <2>2, <2>3, ChartAssumption
    <3>2. Len(Tail(a)) = k /\ \A i \in 1..k : Tail(a)[i] = a[i + 1]
      BY <2>1
    <3> QED
      BY <2>1, <2>3, <3>1, <3>2
  <2>4. CASE ~Long(k)
    <3>1. Fifo(u, x) = a
      BY <2>1, <2>2, <2>4
    <3> QED
      BY <2>1, <2>4, <3>1
  <2> QED
    BY <2>3, <2>4
<1> DEFINE f == Fifo(s, x)
           g == Fifo(t, x)
           d == IF Long(m) THEN 1 ELSE 0
           e == IF Long(n) THEN 1 ELSE 0
<1>3. /\ Len(f) = m + 1 - d /\ \A i \in 1..Len(f) : f[i] = IF i + d = m + 1 THEN x ELSE s[i + d]
      /\ Len(g) = n + 1 - e /\ \A i \in 1..Len(g) : g[i] = IF i + e = n + 1 THEN x ELSE t[i + e]
  BY <1>1, <1>2
<1>4. d \in {0, 1} /\ e \in {0, 1} /\ (d = 1 => e = 1) /\ (e = 1 /\ d = 0 => m + 1 <= n)
  BY <1>1, ChartAssumption
<1> HIDE DEF f, g, d, e, n, m
<1>5. Len(f) <= Len(g)
  BY <1>1, <1>3, <1>4
<1>6. ASSUME NEW i \in 1..Len(f) PROVE f[i] = g[Len(g) - Len(f) + i]
  <2> DEFINE j == Len(g) - Len(f) + i
  <2>1. j \in 1..Len(g) /\ j + e = n - m + (i + d)
    BY <1>1, <1>3, <1>4, <1>5
  <2>2. f[i] = IF i + d = m + 1 THEN x ELSE s[i + d]
    BY <1>3
  <2>3. g[j] = IF j + e = n + 1 THEN x ELSE t[j + e]
    BY <1>3, <2>1
  <2>4. i + d = m + 1 <=> j + e = n + 1
    <3>1. i \in Int /\ d \in Int /\ n \in Int /\ m \in Int
      BY <1>1, <1>4
    <3>2. i + d = m + 1 <=> n - m + (i + d) = n + 1
      BY <3>1
    <3> QED
      BY <2>1, <3>2
  <2>5. i + d # m + 1 => i + d \in 1..m
    BY <1>1, <1>3, <1>4
  <2>6. i + d # m + 1 => s[i + d] = t[j + e]
    BY <1>1, <2>1, <2>5
  <2> QED
    BY <2>2, <2>3, <2>4, <2>6
<1>7. EndsWith(f, g)
  BY <1>5, <1>6 DEF EndsWith
<1> QED
  BY <1>7 DEF f, g

\* Taking a place out of a sequence leaves the others in it.
LEMMA RemovedAt ==
  ASSUME NEW S, NEW s \in Seq(S), NEW i \in DOMAIN s
  PROVE  /\ RemoveAt(s, i) \in Seq(S)
         /\ \A j \in DOMAIN s : j # i =>
              \E k \in DOMAIN RemoveAt(s, i) : RemoveAt(s, i)[k] = s[j]
<1> DEFINE a == SubSeq(s, 1, i - 1)
           b == SubSeq(s, i + 1, Len(s))
           n == Len(s)
<1>1. n \in Nat /\ i \in 1..n /\ DOMAIN s = 1..n
  OBVIOUS
<1>2. /\ a \in Seq(S) /\ Len(a) = i - 1 /\ \A k \in 1..i - 1 : a[k] = s[k]
      /\ b \in Seq(S) /\ Len(b) = n - i /\ \A k \in 1..n - i : b[k] = s[i + k]
  <2>1. \A k \in 1..i - 1 : s[k] \in S
    BY <1>1
  <2>2. a \in Seq(S) /\ Len(a) = i - 1 /\ \A k \in 1..i - 1 : a[k] = s[k]
    BY <1>1, <2>1
  <2>3. b \in Seq(S) /\ Len(b) = n - i
    BY <1>1
  <2>4. \A k \in 1..n - i : b[k] = s[i + k]
    BY <1>1
  <2> QED
    BY <2>2, <2>3, <2>4
<1>3. RemoveAt(s, i) = a \o b
  BY DEF RemoveAt
<1> HIDE DEF a, b, n
<1>4. /\ a \o b \in Seq(S) /\ Len(a \o b) = n - 1 /\ DOMAIN (a \o b) = 1..n - 1
      /\ \A k \in 1..n - 1 : (a \o b)[k] = IF k <= i - 1 THEN a[k] ELSE b[k - (i - 1)]
  <2>0. a \in Seq(S) /\ b \in Seq(S)
    BY <1>2
  <2>1. /\ a \o b \in Seq(S) /\ Len(a \o b) = Len(a) + Len(b)
        /\ DOMAIN (a \o b) = 1..Len(a) + Len(b)
        /\ \A k \in 1..Len(a) + Len(b) : (a \o b)[k] = IF k <= Len(a) THEN a[k] ELSE b[k - Len(a)]
    BY <2>0
  <2>2. n \in Nat /\ i \in 1..n /\ Len(a) = i - 1 /\ Len(b) = n - i
    BY <1>1, <1>2
  <2>3. Len(a) + Len(b) = n - 1 /\ n - 1 \in Nat
    BY ONLY <2>2
  <2> QED
    BY ONLY <2>1, <2>2, <2>3
<1>5. ASSUME NEW j \in DOMAIN s, j # i
      PROVE  \E k \in DOMAIN (a \o b) : (a \o b)[k] = s[j]
  <2>1. CASE j < i
    <3>1. j \in 1..i - 1 /\ j \in 1..n - 1
      BY <1>1, <2>1
    <3> QED
      BY <1>2, <1>4, <3>1
  <2>2. CASE j > i
    <3>1. j - 1 \in 1..n - 1 /\ ~ (j - 1 <= i - 1) /\ j - i \in 1..n - i
          /\ (j - 1) - (i - 1) = j - i /\ i + (j - i) = j
      BY <1>1, <2>2
    <3>2. (a \o b)[j - 1] = b[j - i] /\ b[j - i] = s[j]
      BY <1>2, <1>4, <3>1
    <3> QED
      BY <1>4, <3>1, <3>2
  <2> QED
    BY <1>1, <1>5, <2>1, <2>2
<1> QED
  BY <1>3, <1>4, <1>5

\* SetToSeq is a sequence of all the elements of a finite set.
LEMMA ListsAll ==
  ASSUME NEW S, IsFiniteSet(S)
  PROVE  SetToSeq(S) \in Seq(S) /\ \A x \in S : \E i \in DOMAIN SetToSeq(S) : SetToSeq(S)[i] = x
<1> DEFINE n == Cardinality(S)
           q == SetToSeq(S)
<1>1. n \in Nat /\ \E f : f \in Bijection(1..n, S)
  BY FS_CardinalityType DEF ExistsBijection
<1>2. PICK f : f \in Bijection(1..n, S)
  BY <1>1
<1>3. f \in [1..n -> S] /\ IsInjective(f)
  BY <1>2 DEF Bijection, Injection, IsInjective
<1>4. q \in [1..n -> S] /\ IsInjective(q)
  BY <1>3 DEF SetToSeq
<1> HIDE DEF q, n
<1>5. q \in Seq(S) /\ DOMAIN q = 1..n
  BY <1>1, <1>4
<1>6. ASSUME NEW x \in S, \A i \in 1..n : q[i] # x
      PROVE  FALSE
  <2> DEFINE T == S \ {x}
  <2>1. IsFiniteSet(T) /\ Cardinality(T) = n - 1
    BY FS_RemoveElement DEF n
  <2>2. q \in Injection(1..n, T)
    BY <1>4, <1>6 DEF Injection, IsInjective
  <2>3. IsFiniteSet(1..n) /\ Cardinality(1..n) = n
    BY <1>1, FS_Interval
  <2>4. Cardinality(1..n) <= Cardinality(T)
    BY <2>1, <2>2, <2>3, FS_Injection
  <2> QED
    BY <1>1, <2>1, <2>3, <2>4
<1> QED
  BY <1>5, <1>6 DEF q

\* Nothing is the end of everything.
LEMMA EmptyEnds ==
  ASSUME NEW t \in Seq(Int)
  PROVE  EndsWith(<<>>, t)
<1>1. Len(<<>>) = 0 /\ Len(t) \in Nat
  OBVIOUS
<1> QED
  BY <1>1 DEF EndsWith

\* What sync makes of a lot that is held and marked: it stays typed, its
\* series stay where they are, its band runs along its line, and a point
\* ends both.
LEMMA BindKeeps ==
  ASSUME NEW tied \in Binds, Runs(tied), NEW row \in OpenRows, NEW x \in Int
  PROVE  LET banded == IF row.floor /\ tied.band = Nothing
                       THEN [tied EXCEPT !.band = TRUE] ELSE tied
             point == [banded EXCEPT !.stamp = row, !.trail = Fifo(@, x),
                         !.bandTrail = IF banded.band # Nothing THEN Fifo(@, x) ELSE @]
         IN  /\ banded \in Binds /\ Runs(banded) /\ (Solid(tied) => Solid(banded))
             /\ banded.trail = tied.trail
             /\ point \in Binds /\ Runs(point) /\ (Solid(tied) => Solid(point))
             /\ point.trail # <<>> /\ Last(point.trail) = x
<1> DEFINE banded == IF row.floor /\ tied.band = Nothing
                     THEN [tied EXCEPT !.band = TRUE] ELSE tied
           ends == IF banded.band # Nothing THEN Fifo(banded.bandTrail, x) ELSE banded.bandTrail
           point == [banded EXCEPT !.stamp = row, !.trail = Fifo(@, x),
                       !.bandTrail = IF banded.band # Nothing THEN Fifo(@, x) ELSE @]
<1>1. /\ banded \in Binds /\ banded.trail = tied.trail /\ banded.bandTrail = tied.bandTrail
      /\ banded.line = tied.line /\ (banded.band = Nothing => tied.band = Nothing)
  BY DEF Binds
<1>2. tied.band # FALSE => banded.band # FALSE
  BY DEF Binds
<1>3. Runs(banded) /\ (Solid(tied) => Solid(banded))
  BY <1>1, <1>2 DEF Runs, Solid
<1>4. point = [banded EXCEPT !.stamp = row, !.trail = Fifo(banded.trail, x), !.bandTrail = ends]
  BY <1>1 DEF Binds
<1>5. /\ Fifo(banded.trail, x) \in Seq(Int) /\ Fifo(banded.trail, x) # <<>>
      /\ Last(Fifo(banded.trail, x)) = x
      /\ Fifo(banded.bandTrail, x) \in Seq(Int)
  BY <1>1, FifoEnds DEF Binds
<1>6. ends \in Seq(Int)
  BY <1>1, <1>5 DEF Binds
<1>7. (banded.band = Nothing => ends = <<>>) /\ EndsWith(ends, Fifo(banded.trail, x))
  <2>1. CASE banded.band = Nothing
    <3>1. ends = <<>>
      BY <1>3, <2>1 DEF Runs
    <3> HIDE DEF ends, banded
    <3>2. EndsWith(<<>>, Fifo(banded.trail, x))
      BY <1>5, EmptyEnds
    <3> QED
      BY <3>1, <3>2
  <2>2. CASE banded.band # Nothing
    <3>1. ends = Fifo(banded.bandTrail, x) /\ EndsWith(banded.bandTrail, banded.trail)
      BY <1>3, <2>2 DEF Runs
    <3>2. banded.bandTrail \in Seq(Int) /\ banded.trail \in Seq(Int)
      BY <1>1 DEF Binds
    <3>3. EndsWith(Fifo(banded.bandTrail, x), Fifo(banded.trail, x))
      BY <3>1, <3>2, FifoRuns
    <3> QED
      BY <2>2, <3>1, <3>3
  <2> QED
    BY <2>1, <2>2
<1> HIDE DEF banded, ends, point
<1>8. /\ point \in Binds /\ point.line = banded.line /\ point.band = banded.band
      /\ point.trail = Fifo(banded.trail, x) /\ point.bandTrail = ends
  BY <1>1, <1>4, <1>5, <1>6 DEF Binds
<1>9. Runs(point) /\ (Solid(tied) => Solid(point))
  BY <1>3, <1>7, <1>8 DEF Runs, Solid
<1>10. point.trail # <<>> /\ Last(point.trail) = x
  BY <1>5, <1>8
<1> QED
  BY <1>1, <1>3, <1>8, <1>9, <1>10 DEF banded, point

\* sync, for whatever the store and the ledger have become.
LEMMA SyncKeeps ==
  ASSUME ChoiceInv, sync(pos', ledger'), ready',
         pos' \in [OpenLots -> OpenRows \cup {Nothing}],
         \A l \in Bound(lots) : l \in chartHeld(pos', ledger') => pos'[l].mark # Nothing,
         UNCHANGED <<isGrid, subs, fading, axes, toggles>>
  PROVE  ChoiceInv'
<1> DEFINE marks == {l \in chartHeld(pos', ledger') : pos'[l].mark # Nothing}
           tied(l) == IF lots[l] = Nothing THEN FreshBind ELSE lots[l]
           banded(l) == IF pos'[l].floor /\ tied(l).band = Nothing
                        THEN [tied(l) EXCEPT !.band = TRUE] ELSE tied(l)
           stepped == \E l \in marks : tied(l).stamp # pos'[l]
           point(l) == [banded(l) EXCEPT !.stamp = pos'[l], !.trail = Fifo(@, nextX),
                          !.bandTrail = IF banded(l).band # Nothing THEN Fifo(@, nextX) ELSE @]
<1>1. /\ lots' = [l \in OpenLots |->
                    IF l \notin chartHeld(pos', ledger') THEN Nothing
                    ELSE IF l \notin marks THEN lots[l]
                    ELSE IF stepped THEN point(l) ELSE banded(l)]
      /\ nextX' = IF stepped THEN nextX + 1 ELSE nextX
  BY DEF sync
<1>0. /\ ChoiceOK /\ BoundOK /\ SingleOK /\ nextX \in Int
      /\ lots \in [OpenLots -> Binds \cup {Nothing}]
  BY DEF ChoiceInv, ChoiceOK
<1>2. ASSUME NEW l \in marks
      PROVE  /\ tied(l) \in Binds /\ Runs(tied(l)) /\ (l \notin Bound(lots) => Solid(tied(l)))
             /\ l \in OpenLots /\ pos'[l] \in OpenRows
  <2>1. l \in OpenLots /\ pos'[l] \in OpenRows
    BY DEF chartHeld
  <2>2. CASE lots[l] = Nothing
    <3>1. tied(l) = FreshBind
      BY <2>2
    <3>2. FreshBind \in Binds /\ FreshBind.bandTrail = <<>> /\ FreshBind.trail = <<>>
      BY DEF FreshBind, Binds
    <3>3. Runs(FreshBind)
      BY <3>2, EmptyEnds DEF Runs, Binds
    <3>4. Solid(FreshBind)
      BY ChartAssumption DEF FreshBind, Solid
    <3> QED
      BY <2>1, <3>1, <3>2, <3>3, <3>4
  <2>3. CASE lots[l] # Nothing
    BY <1>0, <2>1, <2>3 DEF BoundOK, Bound
  <2> QED
    BY <2>2, <2>3
<1>3. ASSUME NEW l \in marks
      PROVE  /\ banded(l) \in Binds /\ Runs(banded(l)) /\ (Solid(tied(l)) => Solid(banded(l)))
             /\ banded(l).trail = tied(l).trail
             /\ point(l) \in Binds /\ Runs(point(l)) /\ (Solid(tied(l)) => Solid(point(l)))
             /\ point(l).trail # <<>> /\ Last(point(l).trail) = nextX
  <2> HIDE DEF tied
  <2> QED
    BY <1>0, <1>2, BindKeeps
<1>4. ~stepped => \A l \in marks : l \in Bound(lots)
  <2> SUFFICES ASSUME NEW l \in marks, l \notin Bound(lots)
               PROVE  tied(l).stamp # pos'[l]
    OBVIOUS
  <2>1. tied(l) = FreshBind
    BY <1>2 DEF Bound
  <2>2. FreshBind.stamp = Nothing /\ pos'[l] # Nothing
    BY <1>2, ChartAssumption DEF FreshBind
  <2> QED
    BY <2>1, <2>2
<1> HIDE DEF point, banded
<1>5. lots' \in [OpenLots -> Binds \cup {Nothing}] /\ nextX' \in Int
  BY <1>0, <1>1, <1>3
<1>6. \A l \in Bound(lots') : l \in marks
  BY <1>1 DEF Bound, chartHeld
<1>7. \A l \in Bound(lots) : lots[l] = tied(l) /\ lots[l].trail # <<>>
                              /\ Last(lots[l].trail) = nextX - 1 /\ (Solid(lots[l]) \/ Covered(l))
  BY <1>0 DEF BoundOK, Bound
<1>8. ASSUME NEW l \in Bound(lots')
      PROVE  /\ l \in chartHeld(pos', ledger') /\ pos'[l].mark # Nothing
             /\ lots'[l].trail # <<>> /\ Last(lots'[l].trail) = nextX' - 1
             /\ Runs(lots'[l]) /\ (Solid(tied(l)) => Solid(lots'[l]))
  <2>1. l \in marks /\ l \in OpenLots
    BY <1>6 DEF Bound
  <2> HIDE DEF tied
  <2>2. CASE stepped
    <3>1. lots'[l] = point(l) /\ nextX' - 1 = nextX
      BY <1>0, <1>1, <2>1, <2>2
    <3> QED
      BY <1>3, <2>1, <3>1
  <2>3. CASE ~stepped
    <3>1. lots'[l] = banded(l) /\ nextX' = nextX /\ l \in Bound(lots)
      BY <1>1, <1>4, <2>1, <2>3
    <3> QED
      BY <1>3, <1>7, <2>1, <3>1
  <2> QED
    BY <2>2, <2>3
<1>9. \A l \in OpenLots : Covered(l)' <=> Covered(l)
  BY DEF Covered
<1> HIDE DEF stepped
<1>10. BoundOK'
  <2> SUFFICES ASSUME NEW l \in Bound(lots')
               PROVE  Solid(lots'[l]) \/ Covered(l)'
    BY <1>8 DEF BoundOK
  <2>1. l \in marks /\ l \in OpenLots
    BY <1>6 DEF Bound
  <2>2. CASE l \in Bound(lots)
    BY <1>7, <1>8, <1>9, <2>1, <2>2
  <2>3. CASE l \notin Bound(lots)
    <3>1. Solid(tied(l))
      BY <1>2, <2>1, <2>3
    <3> QED
      BY <1>8, <3>1
  <2> QED
    BY <2>2, <2>3
<1>11. ChoiceOK' /\ SingleOK'
  BY <1>0, <1>5 DEF ChoiceOK, SingleOK
<1> QED
  BY <1>10, <1>11 DEF ChoiceInv

\* Every step of the chart keeps this.
LEMMA ChoiceStep == ChoiceInv /\ [ChoiceNext]_choiceVars => ChoiceInv'
<1> SUFFICES ASSUME ChoiceInv, [ChoiceNext]_choiceVars PROVE ChoiceInv'
  OBVIOUS
<1>0. ChoiceOK /\ BoundOK /\ SingleOK
  BY DEF ChoiceInv
<1> DEFINE Outs == <<isGrid, subs, fading, axes, toggles>>
<1>1. ASSUME NEW l \in OpenLots, NEW p \in OpenRows \cup {Nothing}, PositionMoves(l, p)
      PROVE  ChoiceInv'
  <2>1. /\ pos' = [pos EXCEPT ![l] = p] /\ ledger' = ledger /\ ready' = ready /\ UNCHANGED Outs
        /\ pos[l] # Nothing /\ pos[l].mark # Nothing /\ p # Nothing => p.mark # Nothing
        /\ IF ready THEN sync(pos', ledger) ELSE UNCHANGED <<lots, nextX>>
    BY <1>1 DEF PositionMoves
  <2>2. pos' \in [OpenLots -> OpenRows \cup {Nothing}]
    BY <1>0, <2>1 DEF ChoiceOK
  <2>3. \A k \in Bound(lots) : k \in chartHeld(pos', ledger') => pos'[k].mark # Nothing
    BY <1>0, <2>1 DEF BoundOK, ChoiceOK, chartHeld, Bound
  <2>4. CASE ready
    <3>1. sync(pos', ledger')
      BY <2>1, <2>4
    <3> QED
      BY <2>1, <2>2, <2>3, <2>4, <3>1, SyncKeeps
  <2>5. CASE ~ready
    <3>1. UNCHANGED <<lots, nextX>> /\ Bound(lots) = {} /\ Bound(lots') = {}
      BY <1>0, <2>1, <2>5 DEF BoundOK, Bound
    <3>2. BoundOK' /\ SingleOK' /\ ChoiceOK'
      BY <1>0, <2>1, <2>2, <3>1 DEF BoundOK, SingleOK, ChoiceOK
    <3> QED
      BY <3>2 DEF ChoiceInv
  <2> QED
    BY <2>4, <2>5
<1>2. ASSUME NEW b \in Ledgers, SwitchLedger(b)
      PROVE  ChoiceInv'
  <2>1. /\ pos' = pos /\ ledger' = b /\ ready' = ready /\ UNCHANGED Outs
        /\ IF ready THEN sync(pos, b) ELSE UNCHANGED <<lots, nextX>>
    BY <1>2 DEF SwitchLedger
  <2>2. pos' \in [OpenLots -> OpenRows \cup {Nothing}]
    BY <1>0, <2>1 DEF ChoiceOK
  <2>3. \A k \in Bound(lots) : k \in chartHeld(pos', ledger') => pos'[k].mark # Nothing
    BY <1>0, <2>1 DEF BoundOK
  <2>4. CASE ready
    <3>1. sync(pos', ledger')
      BY <2>1, <2>4
    <3> QED
      BY <2>1, <2>2, <2>3, <2>4, <3>1, SyncKeeps
  <2>5. CASE ~ready
    <3>1. UNCHANGED <<lots, nextX>> /\ Bound(lots) = {} /\ Bound(lots') = {}
      BY <1>0, <2>1, <2>5 DEF BoundOK, Bound
    <3>2. BoundOK' /\ SingleOK' /\ ChoiceOK'
      BY <1>0, <2>1, <2>2, <3>1 DEF BoundOK, SingleOK, ChoiceOK
    <3> QED
      BY <3>2 DEF ChoiceInv
  <2> QED
    BY <2>4, <2>5
<1>3. CASE ChartReady
  <2>1. /\ pos' = pos /\ ledger' = ledger /\ ready' = TRUE /\ UNCHANGED Outs
        /\ sync(pos, ledger)
    BY <1>3 DEF ChartReady
  <2>2. pos' \in [OpenLots -> OpenRows \cup {Nothing}]
    BY <1>0, <2>1 DEF ChoiceOK
  <2>3. \A k \in Bound(lots) : k \in chartHeld(pos', ledger') => pos'[k].mark # Nothing
    BY <1>0, <2>1 DEF BoundOK
  <2>4. sync(pos', ledger')
    BY <2>1
  <2> QED
    BY <2>1, <2>2, <2>3, <2>4, SyncKeeps
<1>4. ASSUME NEW grid \in BOOLEAN, SetLayout(grid)
      PROVE  ChoiceInv'
  <2>0. UNCHANGED <<pos, ledger, ready, nextX>>
    BY <1>4 DEF SetLayout
  <2>1. CASE ~ready \/ isGrid = grid
    <3>1. UNCHANGED <<isGrid, lots, subs, fading, axes, toggles>>
      BY <1>4, <2>1 DEF SetLayout
    <3> QED
      BY <1>0, <2>0, <3>1 DEF ChoiceInv, ChoiceOK, BoundOK, SingleOK, Covered
  <2>2. CASE ~(~ready \/ isGrid = grid) /\ grid = TRUE
    <3>1. isGrid' = TRUE /\ toggles' = toggles + 1 /\ fading' = fading /\ makeGridLayout
      BY <1>4, <2>2 DEF SetLayout
    <3>2. CASE Bound(lots) = {}
      <4>1. UNCHANGED <<lots, subs, axes>> /\ Bound(lots') = {}
        BY <3>1, <3>2 DEF makeGridLayout, Bound
      <4>2. BoundOK' /\ SingleOK' /\ ChoiceOK'
        BY <1>0, <2>0, <3>1, <4>1 DEF BoundOK, SingleOK, ChoiceOK
      <4> QED
        BY <4>2 DEF ChoiceInv
    <3>3. CASE Bound(lots) # {}
      <4> DEFINE new == {[lot |-> l, gen |-> toggles] : l \in Bound(lots)}
      <4>1. /\ subs' = subs \cup new /\ axes' = FALSE
            /\ lots' = [l \in OpenLots |-> IF lots[l] = Nothing THEN Nothing ELSE Hidden(lots[l])]
        BY <3>1, <3>3 DEF makeGridLayout
      <4>2. new \subseteq Subs
        BY <1>0 DEF ChoiceOK, Bound, Subs
      <4>3. IsFiniteSet(new)
        <5> DEFINE f == [l \in Bound(lots) |-> [lot |-> l, gen |-> toggles]]
        <5>1. f \in Surjection(Bound(lots), new)
          BY DEF Surjection
        <5>2. IsFiniteSet(Bound(lots))
          BY ChartAssumption, FS_Subset DEF Bound
        <5> QED
          BY <5>1, <5>2, FS_Surjection
      <4>4. ASSUME NEW tied \in Binds
            PROVE  /\ Hidden(tied) \in Binds /\ Hidden(tied).trail = tied.trail
                   /\ (Runs(tied) => Runs(Hidden(tied)))
        <5>1. /\ Hidden(tied) \in Binds /\ Hidden(tied).trail = tied.trail
              /\ Hidden(tied).bandTrail = tied.bandTrail
              /\ Hidden(tied).band = IF tied.band = Nothing THEN Nothing ELSE FALSE
          BY DEF Hidden, Binds
        <5> QED
          BY <5>1, ChartAssumption DEF Runs
      <4>5. ChoiceOK'
        <5>1. lots' \in [OpenLots -> Binds \cup {Nothing}]
          BY <1>0, <4>1, <4>4 DEF ChoiceOK
        <5>2. IsFiniteSet(subs')
          BY <1>0, <4>1, <4>3, FS_Union DEF ChoiceOK
        <5>3. subs' \subseteq Subs /\ toggles' \in Nat
          BY <1>0, <3>1, <4>1, <4>2 DEF ChoiceOK
        <5> HIDE DEF new
        <5> QED
          BY <1>0, <2>0, <3>1, <4>1, <5>1, <5>2, <5>3 DEF ChoiceOK
      <4>6. ASSUME NEW l \in Bound(lots')
            PROVE  /\ ready' /\ l \in chartHeld(pos', ledger') /\ pos'[l].mark # Nothing
                   /\ lots'[l].trail # <<>> /\ Last(lots'[l].trail) = nextX' - 1
                   /\ Runs(lots'[l]) /\ Covered(l)'
        <5>1. l \in Bound(lots) /\ lots[l] \in Binds /\ lots'[l] = Hidden(lots[l])
          BY <1>0, <4>1 DEF Bound, ChoiceOK
        <5>2. [lot |-> l, gen |-> toggles] \in subs'
          BY <4>1, <5>1
        <5>3. Covered(l)'
          BY <3>1, <5>2 DEF Covered
        <5> QED
          BY <1>0, <2>0, <4>4, <5>1, <5>3 DEF BoundOK
      <4>7. BoundOK'
        BY <4>6 DEF BoundOK
      <4> QED
        BY <3>1, <4>5, <4>7 DEF ChoiceInv, SingleOK
    <3> QED
      BY <3>2, <3>3
  <2>3. CASE ~(~ready \/ isGrid = grid) /\ grid = FALSE
    <3>1. /\ isGrid' = FALSE /\ toggles' = toggles + 1 /\ lots' = lots /\ subs' = subs
          /\ makeSingleChart /\ isGrid = TRUE
      BY <1>0, <1>4, <2>3 DEF SetLayout, ChoiceOK
    <3> DEFINE q == SetToSeq(subs)
    <3>2. fading' = fading \o q /\ axes' = TRUE
      BY <3>1 DEF makeSingleChart
    <3>3. q \in Seq(Subs) /\ fading \in Seq(Subs)
      <4>1. q \in Seq(subs) /\ subs \subseteq Subs
        BY <1>0, ListsAll DEF ChoiceOK
      <4> QED
        BY <1>0, <4>1 DEF ChoiceOK
    <3>4. \A s \in subs : \E i \in DOMAIN q : q[i] = s
      BY <1>0, ListsAll DEF ChoiceOK
    <3> HIDE DEF q
    <3>5. \A i \in DOMAIN q : \E j \in DOMAIN (fading \o q) : (fading \o q)[j] = q[i]
      <4> SUFFICES ASSUME NEW i \in DOMAIN q
                   PROVE  \E j \in DOMAIN (fading \o q) : (fading \o q)[j] = q[i]
        OBVIOUS
      <4> DEFINE j == Len(fading) + i
      <4>1. j \in DOMAIN (fading \o q) /\ (fading \o q)[j] = q[i]
        BY <3>3
      <4> QED
        BY <4>1
    <3>6. \A s \in subs : \E j \in DOMAIN fading' : fading'[j] = s
      BY <3>2, <3>4, <3>5
    <3>7. ChoiceOK'
      <4>1. fading' \in Seq(Subs) /\ toggles' \in Nat
        BY <1>0, <3>1, <3>2, <3>3 DEF ChoiceOK
      <4> QED
        BY <1>0, <2>0, <3>1, <3>2, <4>1 DEF ChoiceOK
    <3>8. \A l \in OpenLots : Covered(l) => Covered(l)'
      BY <3>1, <3>6 DEF Covered
    <3>9. BoundOK'
      BY <1>0, <2>0, <3>1, <3>8 DEF BoundOK, Bound
    <3> QED
      BY <3>1, <3>2, <3>6, <3>7, <3>9 DEF ChoiceInv, SingleOK
  <2> QED
    BY <2>1, <2>2, <2>3
<1>5. ASSUME NEW i \in DOMAIN fading, FadeEnds(i)
      PROVE  ChoiceInv'
  <2> DEFINE gone == fading[i]
  <2>1. /\ subs' = subs \ {gone} /\ lots' = [lots EXCEPT ![gone.lot] = restoreLot(lots[gone.lot])]
        /\ fading' = RemoveAt(fading, i)
        /\ UNCHANGED <<pos, ledger, ready, isGrid, nextX, axes, toggles>>
    BY <1>5 DEF FadeEnds
  <2>2. gone \in Subs /\ gone.lot \in OpenLots
    <3>1. fading \in Seq(Subs) /\ i \in 1..Len(fading)
      BY <1>0 DEF ChoiceOK
    <3>2. gone \in Subs
      BY <3>1
    <3> QED
      BY <3>2 DEF Subs
  <2>3. /\ fading' \in Seq(Subs)
        /\ \A j \in DOMAIN fading : j # i => \E k \in DOMAIN fading' : fading'[k] = fading[j]
    BY <1>0, <2>1, RemovedAt DEF ChoiceOK
  <2>4. ASSUME NEW tied \in Binds, tied # Nothing
        PROVE  /\ restoreLot(tied) \in Binds /\ restoreLot(tied).trail = tied.trail
               /\ (Runs(tied) => Runs(restoreLot(tied))) /\ Solid(restoreLot(tied))
    <3>1. restoreLot(tied) = [tied EXCEPT !.line = TRUE,
                                !.band = IF tied.band = Nothing THEN Nothing ELSE TRUE]
      BY <2>4 DEF restoreLot, Binds
    <3>2. /\ restoreLot(tied) \in Binds /\ restoreLot(tied).trail = tied.trail
          /\ restoreLot(tied).bandTrail = tied.bandTrail /\ restoreLot(tied).line = TRUE
          /\ restoreLot(tied).band = IF tied.band = Nothing THEN Nothing ELSE TRUE
      BY <3>1 DEF Binds
    <3>3. Nothing # FALSE /\ Nothing # TRUE
      BY ChartAssumption
    <3>4. Runs(tied) => Runs(restoreLot(tied))
      BY <3>2, <3>3 DEF Runs
    <3>5. Solid(restoreLot(tied))
      BY <3>2, <3>3 DEF Solid
    <3> QED
      BY <3>2, <3>4, <3>5
  <2> HIDE DEF gone
  <2>5. lots' \in [OpenLots -> Binds \cup {Nothing}]
    <3>1. restoreLot(lots[gone.lot]) \in Binds \cup {Nothing}
      BY <1>0, <2>2, <2>4 DEF ChoiceOK, restoreLot
    <3> QED
      BY <1>0, <2>1, <3>1 DEF ChoiceOK
  <2>6. IsFiniteSet(subs') /\ subs' \subseteq Subs
    BY <1>0, <2>1, FS_Subset DEF ChoiceOK
  <2>7. ChoiceOK'
    BY <1>0, <2>1, <2>3, <2>5, <2>6 DEF ChoiceOK
  <2>8. SingleOK'
    <3> SUFFICES ASSUME ~isGrid, NEW s \in subs'
                 PROVE  axes /\ \E k \in DOMAIN fading' : fading'[k] = s
      BY <1>0, <2>1 DEF SingleOK
    <3>1. PICK j \in DOMAIN fading : fading[j] = s
      BY <1>0, <2>1 DEF SingleOK
    <3>2. j # i
      BY <2>1, <3>1 DEF gone
    <3> QED
      BY <1>0, <2>3, <3>1, <3>2 DEF SingleOK
  <2>9. ASSUME NEW l \in Bound(lots'), l # gone.lot
        PROVE  /\ ready' /\ l \in chartHeld(pos', ledger') /\ pos'[l].mark # Nothing
               /\ lots'[l].trail # <<>> /\ Last(lots'[l].trail) = nextX' - 1
               /\ Runs(lots'[l]) /\ (Solid(lots'[l]) \/ Covered(l)')
    <3>1. l \in Bound(lots) /\ lots'[l] = lots[l]
      BY <1>0, <2>1, <2>9 DEF Bound, ChoiceOK
    <3>2. Covered(l) => Covered(l)'
      <4>1. CASE isGrid
        BY <2>1, <2>9, <4>1 DEF Covered
      <4>2. CASE ~isGrid
        <5> SUFFICES ASSUME NEW j \in DOMAIN fading, fading[j].lot = l
                     PROVE  \E k \in DOMAIN fading' : fading'[k].lot = l
          BY <2>1, <4>2 DEF Covered
        <5>1. j # i
          BY <2>9 DEF gone
        <5> QED
          BY <2>3, <5>1
      <4> QED
        BY <4>1, <4>2
    <3> QED
      BY <1>0, <2>1, <3>1, <3>2 DEF BoundOK
  <2>10. ASSUME NEW l \in Bound(lots'), l = gone.lot
         PROVE  /\ ready' /\ l \in chartHeld(pos', ledger') /\ pos'[l].mark # Nothing
                /\ lots'[l].trail # <<>> /\ Last(lots'[l].trail) = nextX' - 1
                /\ Runs(lots'[l]) /\ Solid(lots'[l])
    <3>1. l \in Bound(lots) /\ lots[l] \in Binds /\ lots[l] # Nothing
          /\ lots'[l] = restoreLot(lots[l])
      BY <1>0, <2>1, <2>10 DEF Bound, ChoiceOK, restoreLot
    <3> QED
      BY <1>0, <2>1, <2>4, <3>1 DEF BoundOK
  <2>11. BoundOK'
    BY <2>9, <2>10 DEF BoundOK
  <2> QED
    BY <2>7, <2>8, <2>11 DEF ChoiceInv
<1>6. CASE UNCHANGED choiceVars
  BY <1>0, <1>6 DEF choiceVars, ChoiceInv, ChoiceOK, BoundOK, SingleOK, Covered
<1> QED
  BY <1>1, <1>2, <1>3, <1>4, <1>5, <1>6 DEF ChoiceNext

\* ... and it holds before the chart is ready.
LEMMA ChoiceStart == ChoiceInit => ChoiceInv
<1> SUFFICES ASSUME ChoiceInit PROVE ChoiceInv
  OBVIOUS
<1>1. ChoiceOK
  <2>1. fading \in Seq(Subs) /\ IsFiniteSet(subs) /\ subs \subseteq Subs
    BY FS_EmptySet DEF ChoiceInit
  <2>2. pos \in [OpenLots -> OpenRows \cup {Nothing}] /\ lots \in [OpenLots -> Binds \cup {Nothing}]
    BY DEF ChoiceInit
  <2>3. nextX \in Int /\ toggles \in Nat
    BY DEF ChoiceInit
  <2>4. isGrid \in BOOLEAN /\ axes \in BOOLEAN /\ ready \in BOOLEAN
    BY Zenon DEF ChoiceInit
  <2> QED
    BY <2>1, <2>2, <2>3, <2>4 DEF ChoiceOK
<1>2. Bound(lots) = {} /\ SingleOK
  BY DEF ChoiceInit, Bound, SingleOK
<1> QED
  BY <1>1, <1>2 DEF ChoiceInv, BoundOK

\* The chart is whole again once the fades are over, and its lots share an axis.
LEMMA ChoiceAnswers == ChoiceInv => SingleIsRestored /\ TrailsAligned
<1> SUFFICES ASSUME ChoiceInv PROVE SingleIsRestored /\ TrailsAligned
  OBVIOUS
<1>0. ChoiceOK /\ BoundOK /\ SingleOK
  BY DEF ChoiceInv
<1>1. SingleIsRestored
  <2> SUFFICES ASSUME ~isGrid, fading = <<>>
               PROVE  subs = {} /\ axes /\ \A l \in Bound(lots) : lots[l].line /\ lots[l].band # FALSE
    BY DEF SingleIsRestored
  <2>1. DOMAIN fading = {}
    OBVIOUS
  <2>2. subs = {} /\ axes
    BY <1>0, <2>1 DEF SingleOK
  <2>3. \A l \in Bound(lots) : Solid(lots[l])
    BY <1>0, <2>1 DEF BoundOK, Covered
  <2> QED
    BY <2>2, <2>3 DEF Solid
<1>2. TrailsAligned
  <2>1. ASSUME NEW l \in Bound(lots)
        PROVE  /\ lots[l].trail # <<>> /\ Last(lots[l].trail) = nextX - 1
               /\ IsSuffix(lots[l].bandTrail, lots[l].trail)
    <3>1. lots[l] \in Binds /\ EndsWith(lots[l].bandTrail, lots[l].trail)
      BY <1>0 DEF ChoiceOK, BoundOK, Bound, Runs
    <3>2. lots[l].bandTrail \in Seq(Int) /\ lots[l].trail \in Seq(Int)
      BY <3>1 DEF Binds
    <3> QED
      BY <1>0, <3>1, <3>2, EndIsSuffix DEF BoundOK
  <2> QED
    BY <2>1 DEF TrailsAligned
<1> QED
  BY <1>1, <1>2

-----------------------------------------------------------------------------
(* One lot: LotViews. *)

LotInv == stop \in Stops \cup {Null} /\ mark \in Returns \cup {Null}

LEMMA StopStep == LotInv /\ [StopNext]_stopVars => LotInv'
<1> SUFFICES ASSUME LotInv, [StopNext]_stopVars PROVE LotInv'
  OBVIOUS
<1>1. ASSUME NEW w \in Stops \cup {Null}, StopArrives(w) PROVE LotInv'
  BY <1>1 DEF LotInv, StopArrives
<1>2. ASSUME NEW r \in Returns, Marked(r) PROVE LotInv'
  BY <1>2 DEF LotInv, Marked
<1>3. CASE UNCHANGED stopVars
  BY <1>3 DEF LotInv, stopVars
<1> QED
  BY <1>1, <1>2, <1>3 DEF StopNext

\* positionReadout: a lot is dated closed only when it is closed, and whenever
\* the desk says so.
LEMMA CardsAgree == CardsFollowLives
<1>1. ASSUME NEW fs, NEW open, NEW closing
      PROVE  LET now == positionReadout(fs, open, closing) IN
             now.closedAt # Null => now.closed
  <2> DEFINE buys == executionTotals(fs, "buy")
             sells == executionTotals(fs, "sell")
             fullySold == buys.qty # Null /\ sells.qty # Null /\ sells.qty >= buys.qty
             now == positionReadout(fs, open, closing)
  <2>1. /\ now.closed = (closing # Null \/ fullySold)
        /\ now.closedAt = Or(closing, IF fullySold THEN sells.lastAt ELSE Null)
    BY DEF positionReadout
  <2> HIDE DEF fullySold, now, sells
  <2> QED
    BY <2>1 DEF Or, now
<1> QED
  BY <1>1 DEF CardsFollowLives, lifecycleFromDeskOpen, lifecycleFromDeskClosed, selectPositions,
              selectClosed, lot

\* stateFromWire leaves a label that it gave.
LEMMA StateTwice ==
  ASSUME NEW x, NEW s, s = stateFromWire(x), s # Null
  PROVE  stateFromWire(<<"label", s>>) = s
<1>1. DOMAIN States = 1..6 /\ States[3] = "Dangerous"
  BY DEF States
<1>2. \A k \in 1..6 : States[k] \in Range(States)
  BY <1>1 DEF Range
<1>3. s \in Range(States)
  <2>1. CASE x[1] = "label" /\ x[2] = "Stalled" /\ x[2] \notin Range(States)
    BY <2>1, <1>1, <1>2 DEF stateFromWire
  <2>2. CASE x[1] = "label" /\ x[2] \in Range(States)
    BY <2>2 DEF stateFromWire
  <2>3. CASE x[1] # "label" /\ x[2] \in 0..5
    <3>1. x[2] + 1 \in 1..6
      BY <2>3
    <3>2. s = States[x[2] + 1]
      BY <2>3 DEF stateFromWire
    <3> QED
      BY <1>2, <3>1, <3>2
  <2> QED
    BY <2>1, <2>2, <2>3 DEF stateFromWire
<1> DEFINE again == <<"label", s>>
<1>4. again[1] = "label" /\ again[2] = s
  OBVIOUS
<1> HIDE DEF again
<1>5. stateFromWire(again) = s
  BY <1>3, <1>4 DEF stateFromWire
<1> QED
  BY <1>5 DEF again

\* The share of the span that is consumed is a number, and all of it without room.
LEMMA ConsumedOf ==
  ASSUME NEW room \in Int, NEW span \in Int
  PROVE  Consumed(room, span) \in Int /\ (room <= 0 => Consumed(room, span) = 100)
<1>1. CASE span <= 0
  BY <1>1 DEF Consumed
<1>2. CASE span > 0
  <2> DEFINE x == 100 * (span - room)
             q == x \div span
             least == Min({100, q})
  <2>1. x \in Int /\ q \in Int
    BY <1>2
  <2>2. room <= 0 => q >= 100
    <3>1. SUFFICES ASSUME room <= 0 PROVE q >= 100
      OBVIOUS
    <3>2. x >= 100 * span
      BY <3>1
    <3>3. x < span * (q + 1)
      BY <1>2
    <3>4. span * (q + 1) > 100 * span
      BY <2>1, <3>2, <3>3
    <3> HIDE DEF q, x
    <3>5. q + 1 > 100
      BY <1>2, <2>1, <3>4
    <3> QED
      BY <2>1, <3>5
  <2>3. Consumed(room, span) = Max({0, least})
    BY <1>2 DEF Consumed
  <2> HIDE DEF q, x
  <2>4. least = IF 100 <= q THEN 100 ELSE q
    BY <2>1, MinPair
  <2>5. least \in Int
    BY <2>1, <2>4
  <2> HIDE DEF least
  <2>6. Max({0, least}) = IF 0 >= least THEN 0 ELSE least
    BY <2>5, MaxPair
  <2> QED
    BY <2>1, <2>2, <2>3, <2>4, <2>5, <2>6
<1> QED
  BY <1>1, <1>2

\* What normalizeStoploss makes of a stop of the broker.
Normal(s) ==
  /\ s = [state |-> s.state, current |-> s.current, peak |-> s.peak, floor |-> s.floor,
          friction |-> s.friction, has_floor |-> TRUE, room |-> s.room,
          proximity |-> s.proximity, pressure |-> s.pressure, down |-> s.down]
  /\ s.state # Null /\ stateFromWire(<<"label", s.state>>) = s.state
  /\ s.current \in Int /\ s.peak \in Int /\ s.floor \in Int /\ s.friction \in Nat
  /\ s.room \in Int /\ s.proximity \in Int /\ s.pressure \in Int /\ s.down \in Int

LEMMA NormalOf ==
  ASSUME NEW w \in Stops, NEW s, s = normalizeStoploss(w), s # Null
  PROVE  /\ Normal(s)
         /\ w.proximity = Null /\ s.current <= s.floor => s.proximity = 100
<1> DEFINE state == stateFromWire(w.state)
           span == IF w.target # Null /\ w.maxLoss # Null THEN w.target - w.maxLoss
                   ELSE w.peak - w.floor
           room == Or(w.room, w.current - w.floor)
           friction == IF w.initial = Null THEN 0 ELSE Max({w.initial, -w.initial})
           proximity == IF w.proximity # Null THEN w.proximity ELSE Consumed(room, span)
<1>1. /\ state # Null /\ w.current \in Int /\ w.peak \in Int /\ w.floor \in Int
      /\ s = [state |-> state, current |-> w.current, peak |-> w.peak, floor |-> w.floor,
              friction |-> friction, has_floor |-> TRUE, room |-> room, proximity |-> proximity,
              pressure |-> Or(w.pressure, 0), down |-> Or(w.down, 0)]
  BY LotAssumption DEF normalizeStoploss
<1>2. Or(w.pressure, 0) \in Int /\ Or(w.down, 0) \in Int
  BY LotAssumption DEF Or
<1>3. room = w.current - w.floor /\ room \in Int /\ span \in Int
  BY <1>1, LotAssumption DEF Or
<1>4. friction \in Nat
  <2>1. CASE w.initial = Null
    BY <2>1
  <2>2. CASE w.initial # Null
    <3>1. w.initial \in Int /\ -w.initial \in Int
      BY <2>2, LotAssumption
    <3>2. Max({w.initial, -w.initial}) = IF w.initial >= -w.initial THEN w.initial ELSE -w.initial
      BY <3>1, MaxPair
    <3> QED
      BY <2>2, <3>1, <3>2
  <2> QED
    BY <2>1, <2>2
<1>5. stateFromWire(<<"label", state>>) = state
  BY <1>1, StateTwice
<1> HIDE DEF state, span, room, friction
<1>6. /\ Consumed(room, span) \in Int
      /\ room <= 0 => Consumed(room, span) = 100
  BY <1>3, ConsumedOf
<1>7. proximity \in Int
  BY <1>6, LotAssumption
<1>8. w.proximity = Null /\ w.current <= w.floor => proximity = 100
  BY <1>1, <1>3, <1>6
<1> HIDE DEF proximity
<1> QED
  BY <1>1, <1>2, <1>3, <1>4, <1>5, <1>7, <1>8 DEF Normal

LEMMA NormalStays ==
  ASSUME NEW s, Normal(s)
  PROVE  normalizeStoploss(AsWire(s)) = s
<1> DEFINE w == AsWire(s)
<1>1. /\ w.state = <<"label", s.state>> /\ w.current = s.current /\ w.peak = s.peak
      /\ w.floor = s.floor /\ w.initial = s.friction /\ w.room = s.room
      /\ w.proximity = s.proximity /\ w.pressure = s.pressure /\ w.down = s.down
  BY DEF AsWire
<1> HIDE DEF w
<1>2. /\ stateFromWire(w.state) = s.state
      /\ Null \notin {w.current, w.peak, w.floor}
  BY <1>1, LotAssumption DEF Normal
<1>3. w.initial # Null /\ Max({w.initial, -w.initial}) = s.friction
  <2>1. s.friction \in Int /\ -s.friction \in Int /\ s.friction >= -s.friction
    BY DEF Normal
  <2>2. Max({s.friction, -s.friction}) = s.friction
    BY <2>1, MaxPair
  <2> QED
    BY <1>1, <2>1, <2>2, LotAssumption
<1>4. /\ Or(w.room, w.current - w.floor) = s.room /\ Or(w.pressure, 0) = s.pressure
      /\ Or(w.down, 0) = s.down /\ w.proximity # Null /\ w.proximity = s.proximity
  BY <1>1, LotAssumption DEF Or, Normal
<1>5. normalizeStoploss(w) =
        [state |-> s.state, current |-> s.current, peak |-> s.peak, floor |-> s.floor,
         friction |-> s.friction, has_floor |-> TRUE, room |-> s.room,
         proximity |-> s.proximity, pressure |-> s.pressure, down |-> s.down]
  BY <1>1, <1>2, <1>3, <1>4 DEF normalizeStoploss, Normal
<1> QED
  BY <1>5 DEF w, Normal

\* heldVerdict: no room reads as at the floor, whatever the state.
LEMMA AlarmRings == LotInv => FloorIsAlarming
<1> SUFFICES ASSUME LotInv, stop # Null, stop.proximity = Null,
                    NEW s, s = normalizeStoploss(stop), s # Null,
                    s.current <= s.floor \/ stateTone(s.state) = "bad"
             PROVE  ExitPolicyPanel.verdict.tone = "bad"
  BY DEF FloorIsAlarming
<1>1. Normal(s) /\ (s.current <= s.floor => s.proximity = 100)
  BY NormalOf DEF LotInv
<1>2. ExitPolicyPanel.verdict = heldVerdict(s, s.current)
  BY DEF ExitPolicyPanel
<1>3. stateTone(s.state) = "bad" => s.state \in {"Dangerous", "Critical", "Triggered"}
  BY DEF stateTone
<1>4. s.current # Null
  BY <1>1, LotAssumption DEF Normal
<1>5. heldVerdict(s, s.current).tone = "bad"
  BY <1>1, <1>3, <1>4 DEF heldVerdict
<1> QED
  BY <1>2, <1>5

LEMMA StopReadsTwice == LotInv => NormalizedTwice
BY NormalOf, NormalStays DEF NormalizedTwice, LotInv

Names == <<"DEFENSE STOP", "GUARDED", "STABLE HOLD", "IN PROFIT">>

LEMMA RankIs ==
  ASSUME NEW k \in 1..4
  PROVE  Rank(Names[k]) = k
<1>1. /\ Names[1] = "DEFENSE STOP" /\ Names[2] = "GUARDED"
      /\ Names[3] = "STABLE HOLD" /\ Names[4] = "IN PROFIT"
  BY DEF Names
<1>2. Rank(Names[k]) = CHOOSE i \in 1..4 : Names[i] = Names[k]
  BY DEF Rank, Names
<1>3. Rank(Names[k]) \in 1..4 /\ Names[Rank(Names[k])] = Names[k]
  BY <1>2
<1>4. \A i \in 1..4 : i = 1 \/ i = 2 \/ i = 3 \/ i = 4
  OBVIOUS
<1>5. \A i \in 1..4 : /\ Names[i] = "DEFENSE STOP" <=> i = 1
                      /\ Names[i] = "GUARDED" <=> i = 2
                      /\ Names[i] = "STABLE HOLD" <=> i = 3
                      /\ Names[i] = "IN PROFIT" <=> i = 4
  BY <1>1, <1>4
<1>6. ASSUME NEW i \in 1..4, Names[i] = Names[k] PROVE i = k
  <2>1. CASE k = 1
    BY <1>1, <1>5, <1>6, <2>1
  <2>2. CASE k = 2
    BY <1>1, <1>5, <1>6, <2>2
  <2>3. CASE k = 3
    BY <1>1, <1>5, <1>6, <2>3
  <2>4. CASE k = 4
    BY <1>1, <1>5, <1>6, <2>4
  <2> QED
    BY <1>4, <2>1, <2>2, <2>3, <2>4
<1> QED
  BY <1>3, <1>6

\* The scores of the four bands of the gauge.
InProfit(x) == Min({100, Nearest(8000 + x * 5, 100)})
InHold(x) == Nearest(6500 + (x + 85) * 15, 100)
InGuard(x) == Nearest(4000 + (x + 250) * 15, 100)
InDefense(x) == Max({10, Nearest(2000 + (x + 500) * 8, 100)})

Rung(x) == IF x >= 100 THEN 4 ELSE IF x >= -85 THEN 3 ELSE IF x >= -250 THEN 2 ELSE 1
Score(x) ==
  IF x >= 100 THEN InProfit(x) ELSE IF x >= -85 THEN InHold(x)
  ELSE IF x >= -250 THEN InGuard(x) ELSE InDefense(x)

LEMMA Bands ==
  ASSUME NEW x \in Int
  PROVE  health(x) = [status |-> Names[Rung(x)], score |-> Score(x)]
<1> DEFINE a == [status |-> "IN PROFIT", score |-> InProfit(x)]
           b == [status |-> "STABLE HOLD", score |-> InHold(x)]
           c == [status |-> "GUARDED", score |-> InGuard(x)]
           d == [status |-> "DEFENSE STOP", score |-> InDefense(x)]
<1>1. health(x) = IF x >= 100 THEN a ELSE IF x >= -85 THEN b ELSE IF x >= -250 THEN c ELSE d
  BY SMT DEF health, InProfit, InHold, InGuard, InDefense
<1>2. /\ Names[1] = "DEFENSE STOP" /\ Names[2] = "GUARDED"
      /\ Names[3] = "STABLE HOLD" /\ Names[4] = "IN PROFIT"
  BY DEF Names
<1>3. CASE x >= 100
  <2>1. health(x) = a
    BY <1>1, <1>3, Zenon
  <2>2. Rung(x) = 4 /\ Score(x) = InProfit(x)
    BY <1>3, ZenonT(40) DEF Rung, Score
  <2> QED
    BY <1>2, <2>1, <2>2, Zenon
<1>4. CASE ~(x >= 100) /\ x >= -85
  <2>1. health(x) = b
    BY <1>1, <1>4, ZenonT(40)
  <2>2. Rung(x) = 3 /\ Score(x) = InHold(x)
    BY <1>4, ZenonT(40) DEF Rung, Score
  <2> QED
    BY <1>2, <2>1, <2>2, Zenon
<1>5. CASE ~(x >= 100) /\ ~(x >= -85) /\ x >= -250
  <2>1. health(x) = c
    BY <1>1, <1>5, ZenonT(40)
  <2>2. Rung(x) = 2 /\ Score(x) = InGuard(x)
    BY <1>5, ZenonT(40) DEF Rung, Score
  <2> QED
    BY <1>2, <2>1, <2>2, Zenon
<1>6. CASE ~(x >= 100) /\ ~(x >= -85) /\ ~(x >= -250)
  <2>1. health(x) = d
    BY <1>1, <1>6, ZenonT(40)
  <2>2. Rung(x) = 1 /\ Score(x) = InDefense(x)
    BY <1>6, ZenonT(40) DEF Rung, Score
  <2> QED
    BY <1>2, <2>1, <2>2, Zenon
<1> QED
  BY <1>3, <1>4, <1>5, <1>6, Zenon

\* The scores run on from one band to the next.
LEMMA ProfitRises ==
  ASSUME NEW x \in Int, NEW y \in Int, 100 <= x, x <= y
  PROVE  InProfit(x) \in Int /\ InProfit(y) \in Int /\ 65 <= InProfit(x) /\ InProfit(x) <= InProfit(y)
<1> DEFINE px == Nearest(8000 + x * 5, 100)
           py == Nearest(8000 + y * 5, 100)
<1>1. px \in Int /\ py \in Int /\ 65 <= px /\ px <= py
  BY DEF Nearest
<1>2. InProfit(x) = Min({100, px}) /\ InProfit(y) = Min({100, py})
  BY DEF InProfit
<1> HIDE DEF px, py
<1>3. Min({100, px}) = (IF 100 <= px THEN 100 ELSE px) /\ Min({100, py}) = (IF 100 <= py THEN 100 ELSE py)
  BY <1>1, MinPair
<1>4. \A p, q \in Int : p <= q /\ 65 <= p =>
        LET u == IF 100 <= p THEN 100 ELSE p
            v == IF 100 <= q THEN 100 ELSE q
        IN  u \in Int /\ v \in Int /\ 65 <= u /\ u <= v
  OBVIOUS
<1> QED
  BY <1>1, <1>2, <1>3, <1>4

LEMMA HoldRises ==
  ASSUME NEW x \in Int, NEW y \in Int, -85 <= x, x <= y
  PROVE  InHold(x) \in Int /\ InHold(y) \in Int /\ 65 <= InHold(x) /\ InHold(x) <= InHold(y)
BY DEF InHold, Nearest

LEMMA GuardRises ==
  ASSUME NEW x \in Int, NEW y \in Int, x <= y, y < -85
  PROVE  InGuard(x) \in Int /\ InGuard(y) \in Int /\ InGuard(x) <= 65 /\ InGuard(x) <= InGuard(y)
BY DEF InGuard, Nearest

LEMMA DefenseRises ==
  ASSUME NEW x \in Int, NEW y \in Int, x <= y
  PROVE  InDefense(x) \in Int /\ InDefense(y) \in Int /\ InDefense(x) <= InDefense(y)
<1> DEFINE px == Nearest(2000 + (x + 500) * 8, 100)
           py == Nearest(2000 + (y + 500) * 8, 100)
<1>1. px \in Int /\ py \in Int /\ px <= py
  BY DEF Nearest
<1>2. InDefense(x) = Max({10, px}) /\ InDefense(y) = Max({10, py})
  BY DEF InDefense
<1> HIDE DEF px, py
<1>3. Max({10, px}) = (IF 10 >= px THEN 10 ELSE px) /\ Max({10, py}) = (IF 10 >= py THEN 10 ELSE py)
  BY <1>1, MaxPair
<1>4. \A p, q \in Int : p <= q =>
        LET u == IF 10 >= p THEN 10 ELSE p
            v == IF 10 >= q THEN 10 ELSE q
        IN  u \in Int /\ v \in Int /\ u <= v
  OBVIOUS
<1> QED
  BY <1>1, <1>2, <1>3, <1>4

LEMMA ScoreRises ==
  ASSUME NEW x \in Int, NEW y \in Int, x < y
  PROVE  /\ Rung(x) \in 1..4 /\ Rung(y) \in 1..4 /\ Rung(y) >= Rung(x)
         /\ Score(x) \in Int /\ Score(y) \in Int
         /\ (Rung(y) = Rung(x) \/ Rung(x) = 2) => Score(y) >= Score(x)
<1>1. x <= y /\ x <= x /\ y <= y
  OBVIOUS
<1>2. /\ Rung(x) \in 1..4
      /\ (Rung(x) = 4) <=> (x >= 100)
      /\ (Rung(x) = 3) <=> (x < 100 /\ x >= -85)
      /\ (Rung(x) = 2) <=> (x < -85 /\ x >= -250)
      /\ (Rung(x) = 1) <=> (x < -250)
  BY DEF Rung
<1>3. /\ Rung(y) \in 1..4
      /\ (Rung(y) = 4) <=> (y >= 100)
      /\ (Rung(y) = 3) <=> (y < 100 /\ y >= -85)
      /\ (Rung(y) = 2) <=> (y < -85 /\ y >= -250)
      /\ (Rung(y) = 1) <=> (y < -250)
  BY DEF Rung
<1>4. Rung(y) >= Rung(x)
  BY <1>2, <1>3
<1>5. CASE Rung(x) = 4
  <2>1. x >= 100 /\ y >= 100 /\ 100 <= x
    BY <1>2, <1>5
  <2>2. Score(x) = InProfit(x) /\ Score(y) = InProfit(y)
    BY <2>1, ZenonT(40) DEF Score
  <2>3. InProfit(x) \in Int /\ InProfit(y) \in Int /\ InProfit(x) <= InProfit(y)
    BY <1>1, <2>1, ProfitRises
  <2> QED
    BY <1>2, <1>3, <1>4, <2>2, <2>3
<1>6. CASE Rung(x) = 3
  <2>1. ~(x >= 100) /\ x >= -85 /\ -85 <= x
    BY <1>2, <1>6
  <2>2. Score(x) = InHold(x)
    BY <2>1, ZenonT(40) DEF Score
  <2>3. InHold(x) \in Int /\ InHold(y) \in Int /\ InHold(x) <= InHold(y)
    BY <1>1, <2>1, HoldRises
  <2>4. CASE Rung(y) = 3
    <3>1. ~(y >= 100) /\ y >= -85
      BY <1>3, <2>4
    <3>2. Score(y) = InHold(y)
      BY <3>1, ZenonT(40) DEF Score
    <3> QED
      BY <1>2, <1>3, <1>4, <2>2, <2>3, <3>2
  <2>5. CASE Rung(y) = 4
    <3>1. y >= 100 /\ 100 <= y
      BY <1>3, <2>5
    <3>2. Score(y) = InProfit(y)
      BY <3>1, ZenonT(40) DEF Score
    <3>3. InProfit(y) \in Int
      BY <1>1, <3>1, ProfitRises
    <3> QED
      BY <1>2, <1>3, <1>4, <1>6, <2>2, <2>3, <2>5, <3>2, <3>3
  <2> QED
    BY <1>3, <1>4, <1>6, <2>4, <2>5
<1>7. CASE Rung(x) = 2
  <2>1. ~(x >= 100) /\ ~(x >= -85) /\ x >= -250 /\ x < -85
    BY <1>2, <1>7
  <2>2. Score(x) = InGuard(x)
    BY <2>1, ZenonT(40) DEF Score
  <2>3. InGuard(x) \in Int /\ InGuard(x) <= 65
    BY <1>1, <2>1, GuardRises
  <2>4. CASE Rung(y) = 2
    <3>1. ~(y >= 100) /\ ~(y >= -85) /\ y >= -250 /\ y < -85
      BY <1>3, <2>4
    <3>2. Score(y) = InGuard(y)
      BY <3>1, ZenonT(40) DEF Score
    <3>3. InGuard(y) \in Int /\ InGuard(x) <= InGuard(y)
      BY <1>1, <3>1, GuardRises
    <3> QED
      BY <1>2, <1>3, <1>4, <2>2, <2>3, <3>2, <3>3
  <2>5. CASE Rung(y) = 3
    <3>1. ~(y >= 100) /\ y >= -85 /\ -85 <= y
      BY <1>3, <2>5
    <3>2. Score(y) = InHold(y)
      BY <3>1, ZenonT(40) DEF Score
    <3>3. InHold(y) \in Int /\ 65 <= InHold(y)
      BY <1>1, <3>1, HoldRises
    <3> QED
      BY <1>2, <1>3, <1>4, <2>2, <2>3, <3>2, <3>3
  <2>6. CASE Rung(y) = 4
    <3>1. y >= 100 /\ 100 <= y
      BY <1>3, <2>6
    <3>2. Score(y) = InProfit(y)
      BY <3>1, ZenonT(40) DEF Score
    <3>3. InProfit(y) \in Int /\ 65 <= InProfit(y)
      BY <1>1, <3>1, ProfitRises
    <3> QED
      BY <1>2, <1>3, <1>4, <2>2, <2>3, <3>2, <3>3
  <2> QED
    BY <1>3, <1>4, <1>7, <2>4, <2>5, <2>6
<1>8. CASE Rung(x) = 1
  <2>1. ~(x >= 100) /\ ~(x >= -85) /\ ~(x >= -250)
    BY <1>2, <1>8
  <2>2. Score(x) = InDefense(x)
    BY <2>1, ZenonT(40) DEF Score
  <2>3. InDefense(x) \in Int /\ InDefense(y) \in Int /\ InDefense(x) <= InDefense(y)
    BY <1>1, DefenseRises
  <2>4. CASE Rung(y) = 1
    <3>1. ~(y >= 100) /\ ~(y >= -85) /\ ~(y >= -250)
      BY <1>3, <2>4
    <3>2. Score(y) = InDefense(y)
      BY <3>1, ZenonT(40) DEF Score
    <3> QED
      BY <1>2, <1>3, <1>4, <2>2, <2>3, <3>2
  <2>5. CASE Rung(y) # 1
    <3>1. Score(y) \in Int
      <4>1. CASE y >= 100
        BY <1>1, <4>1, ProfitRises DEF Score
      <4>2. CASE y < 100 /\ y >= -85
        BY <1>1, <4>2, HoldRises DEF Score
      <4>3. CASE y < -85 /\ y >= -250
        BY <1>1, <4>3, GuardRises DEF Score
      <4>4. CASE y < -250
        BY <1>1, <4>4, DefenseRises DEF Score
      <4> QED
        BY <4>1, <4>2, <4>3, <4>4
    <3> QED
      BY <1>2, <1>3, <1>4, <1>8, <2>2, <2>3, <2>5, <3>1
  <2> QED
    BY <2>4, <2>5
<1> QED
  BY <1>2, <1>5, <1>6, <1>7, <1>8

LEMMA HealthRises ==
  ASSUME NEW x \in Int, NEW y \in Int, x < y
  PROVE  /\ Rank(health(y).status) >= Rank(health(x).status)
         /\ health(y).status = health(x).status => health(y).score >= health(x).score
         /\ health(x).status = "GUARDED" => health(y).score >= health(x).score
<1>1. /\ Rung(x) \in 1..4 /\ Rung(y) \in 1..4 /\ Rung(y) >= Rung(x)
      /\ (Rung(y) = Rung(x) \/ Rung(x) = 2) => Score(y) >= Score(x)
  BY ScoreRises
<1>2. /\ health(x).status = Names[Rung(x)] /\ health(x).score = Score(x)
      /\ health(y).status = Names[Rung(y)] /\ health(y).score = Score(y)
  BY Bands
<1>3. Rank(health(x).status) = Rung(x) /\ Rank(health(y).status) = Rung(y)
  BY <1>1, <1>2, RankIs
<1>4. 2 \in 1..4 /\ Names[2] = "GUARDED"
  BY DEF Names
<1>5. Rank("GUARDED") = 2
  BY <1>4, RankIs
<1>6. health(x).status = "GUARDED" => Rung(x) = 2
  BY <1>3, <1>5
<1>7. health(y).status = health(x).status => Rung(y) = Rung(x)
  BY <1>3
<1>8. Rank(health(y).status) >= Rank(health(x).status)
  BY <1>1, <1>3, Zenon
<1>9. Rung(y) = Rung(x) \/ Rung(x) = 2 => health(y).score >= health(x).score
  BY <1>1, <1>2, Zenon
<1> QED
  BY <1>6, <1>7, <1>8, <1>9, Zenon

LEMMA GaugeFollows == LotInv => HealthFollowsMark
<1> SUFFICES ASSUME LotInv, mark # Null, NEW r \in Returns, r > mark
             PROVE  LET was == PositionHealth(1) now1 == health(r) IN
                    /\ Rank(now1.status) >= Rank(was.status)
                    /\ now1.status = was.status => now1.score >= was.score
                    /\ was.status = "GUARDED" => now1.score >= was.score
  BY DEF HealthFollowsMark
<1>1. PositionHealth(1) = health(mark) /\ mark \in Int /\ r \in Int
  BY LotAssumption DEF PositionHealth, LotInv
<1> QED
  BY <1>1, HealthRises

LEMMA LotReads == LotInv => LotReadsTrue
BY CardsAgree, StopReadsTwice, AlarmRings, GaugeFollows DEF LotReadsTrue

-----------------------------------------------------------------------------
(* What is held stays: FrameStore, Xray, PathBook, LotViews.               *)

\* preserveLitLayers: what a lit layer held stands in for what the incoming
\* value lacks.
LEMMA LitStays ==
  ASSUME NEW v \in Values, lit' = preserveLitLayers(lit, v)
  PROVE  LitNeverDark
<1> SUFFICES ASSUME NEW p \in LitKeys, lit # NoValue, lit.origin = lit'.origin,
                    nonEmptyArrayLayer(lit.layers, p)
             PROVE  nonEmptyArrayLayer(lit'.layers, p)
  BY DEF LitNeverDark
<1>1. p \in Paths
  BY StoreAssumption
<1>2. CASE lit.origin # v.origin
  BY <1>2 DEF preserveLitLayers
<1>3. CASE lit.origin = v.origin
  <2> DEFINE now == layerRelativeToPrefix(v)
             was == layerRelativeToPrefix(lit)
             stand == {q \in LitKeys : ~nonEmptyArrayLayer(now, q) /\ nonEmptyArrayLayer(was, q)}
             old == [q \in stand |-> was[q]]
  <2>1. nonEmptyArrayLayer(was, p)
    BY <1>1 DEF nonEmptyArrayLayer, layerRelativeToPrefix
  <2>2. lit' = IF stand = {} THEN v ELSE [v EXCEPT !.layers = Overlay(now, old)]
    BY <1>3 DEF preserveLitLayers
  <2>3. nonEmptyArrayLayer(now, p) => nonEmptyArrayLayer(v.layers, p)
    BY DEF nonEmptyArrayLayer, layerRelativeToPrefix
  <2>4. p \in stand => nonEmptyArrayLayer(Overlay(now, old), p)
    BY <2>1 DEF nonEmptyArrayLayer, Overlay
  <2>5. nonEmptyArrayLayer(now, p) => nonEmptyArrayLayer(Overlay(now, old), p)
    BY DEF nonEmptyArrayLayer, Overlay
  <2>6. p \in stand \/ nonEmptyArrayLayer(now, p)
    BY <2>1
  <2>7. [v EXCEPT !.layers = Overlay(now, old)].layers = Overlay(now, old)
    BY DEF Values
  <2>8. stand = {} => p \notin stand
    OBVIOUS
  <2> HIDE DEF now, was, stand, old
  <2> QED
    BY <2>2, <2>3, <2>4, <2>5, <2>6, <2>7, <2>8
<1> QED
  BY <1>2, <1>3

\* mergeResonanceData: a metric that was read is read again or stand.
LEMMA LanesStay == ResonanceNext => LanesNeverBlank
<1> SUFFICES ASSUME ResonanceNext, artifact # Absent, NEW m \in Metrics, artifact[m] # Absent
             PROVE  artifact'[m] # Absent
  BY DEF LanesNeverBlank
<1>1. ASSUME NEW s, NEW row, useArtifact(s, row) PROVE artifact'[m] # Absent
  BY <1>1 DEF useArtifact, mergeResonanceData
<1>2. ASSUME NEW s \in Scopes, NEW row \in ReadingForms, ReadingArrives(s, row)
      PROVE  artifact'[m] # Absent
  <2>1. CASE s \in {focus, Dashed[focus]}
    BY <1>1, <1>2, <2>1 DEF ReadingArrives
  <2>2. CASE s \notin {focus, Dashed[focus]}
    BY <1>2, <2>2 DEF ReadingArrives
  <2> QED
    BY <2>1, <2>2
<1>3. ASSUME NEW s \in Scopes, SetFocus(s) PROVE artifact'[m] # Absent
  BY <1>1, <1>3 DEF SetFocus
<1> QED
  BY <1>2, <1>3 DEF ResonanceNext

\* lifecycle-view.tsx: active is what is chosen while it is listed.
LEMMA ChosenStays == ChosenStaysShown
BY DEF ChosenStaysShown, active

\* A sentence and the tokens it refused.
Voiced(m) == m # NoneYet => m = Sentence(m.tick, m.tokens, m.rejected) /\ m.rejected \in Seq(Sectors)

RegionInv ==
  /\ matches = [s \in KnownSymbols |-> matches[s]]
  /\ \A s \in KnownSymbols : Voiced(matches[s])

Longer(was, is) ==
  was # NoneYet /\ is # NoneYet /\ is.tick = was.tick => IsPrefix(was.rejected, is.rejected)

LEMMA PrefixOfItself ==
  ASSUME NEW T, NEW s \in Seq(T)
  PROVE  IsPrefix(s, s) /\ \A x : IsPrefix(s, Append(s, x))
<1>1. ASSUME NEW x PROVE IsPrefix(s, Append(s, x))
  <2>1. Len(Append(s, x)) = Len(s) + 1 /\ \A i \in 1..Len(s) : Append(s, x)[i] = s[i]
    OBVIOUS
  <2> QED
    BY <2>1 DEF IsPrefix
<1>2. IsPrefix(s, s)
  BY DEF IsPrefix
<1> QED
  BY <1>1, <1>2

\* RefusedAt: nothing is refused yet at another tick.
LEMMA RefusedIs ==
  ASSUME NEW m, Voiced(m), NEW tick
  PROVE  /\ RefusedAt(m, tick) \in Seq(Sectors)
         /\ m # NoneYet /\ m.tick = tick => RefusedAt(m, tick) = m.rejected
BY DEF Voiced, RefusedAt

LEMMA SaidAgain ==
  ASSUME NEW m, Voiced(m), NEW tick, NEW tokens
  PROVE  LET is == Sentence(tick, tokens, RefusedAt(m, tick)) IN Voiced(is) /\ Longer(m, is)
<1> DEFINE is == Sentence(tick, tokens, RefusedAt(m, tick))
<1>1. is.tick = tick /\ is.tokens = tokens /\ is.rejected = RefusedAt(m, tick)
  BY DEF Sentence
<1>2. is = Sentence(is.tick, is.tokens, is.rejected)
  BY <1>1
<1> HIDE DEF is
<1>3. Voiced(is)
  BY <1>1, <1>2, RefusedIs DEF Voiced
<1>4. Longer(m, is)
  <2> SUFFICES ASSUME m # NoneYet, is.tick = m.tick PROVE IsPrefix(m.rejected, is.rejected)
    BY DEF Longer
  <2>1. is.rejected = m.rejected /\ m.rejected \in Seq(Sectors)
    BY <1>1, RefusedIs DEF Voiced
  <2> QED
    BY <2>1, PrefixOfItself
<1> QED
  BY <1>3, <1>4 DEF is

LEMMA SaidRefused ==
  ASSUME NEW m, Voiced(m), NEW tick, NEW token \in Sectors
  PROVE  LET base == IF m = NoneYet THEN Sentence(tick, <<>>, <<>>) ELSE m
             is == [base EXCEPT !.tick = tick, !.rejected = Append(RefusedAt(m, tick), token)]
         IN  Voiced(is) /\ Longer(m, is)
<1> DEFINE base == IF m = NoneYet THEN Sentence(tick, <<>>, <<>>) ELSE m
           more == Append(RefusedAt(m, tick), token)
           is == [base EXCEPT !.tick = tick, !.rejected = more]
<1>1. RefusedAt(m, tick) \in Seq(Sectors) /\ more \in Seq(Sectors)
  BY RefusedIs
<1>2. PICK t, k, r : base = [tick |-> t, tokens |-> k, rejected |-> r]
  BY DEF Voiced, Sentence
<1> HIDE DEF base, more
<1> DEFINE dated == [base EXCEPT !.tick = tick]
<1>3. is = [tick |-> tick, tokens |-> k, rejected |-> more]
  <2>1. dated = [tick |-> tick, tokens |-> k, rejected |-> r]
    BY <1>2
  <2>2. is = [dated EXCEPT !.rejected = more]
    OBVIOUS
  <2> HIDE DEF dated, is
  <2> QED
    BY <2>1, <2>2
<1> HIDE DEF is
<1>4. is.tick = tick /\ is.rejected = more /\ is = Sentence(is.tick, is.tokens, is.rejected)
  BY <1>3 DEF Sentence
<1>5. Voiced(is)
  BY <1>1, <1>4 DEF Voiced
<1>6. Longer(m, is)
  <2> SUFFICES ASSUME m # NoneYet, is.tick = m.tick PROVE IsPrefix(m.rejected, is.rejected)
    BY DEF Longer
  <2>1. is.rejected = Append(m.rejected, token) /\ m.rejected \in Seq(Sectors)
    BY <1>4, RefusedIs DEF Voiced, more
  <2> QED
    BY <2>1, PrefixOfItself
<1> QED
  BY <1>5, <1>6 DEF is, base, more

LEMMA SaidWalked ==
  ASSUME NEW m, Voiced(m), NEW tick, NEW tokens
  PROVE  LET is == Sentence(tick, tokens, IF m = NoneYet THEN <<>> ELSE m.rejected)
         IN  Voiced(is) /\ Longer(m, is)
<1> DEFINE stand == IF m = NoneYet THEN <<>> ELSE m.rejected
           is == Sentence(tick, tokens, stand)
<1>1. is.tick = tick /\ is.tokens = tokens /\ is.rejected = stand
  BY DEF Sentence
<1>2. is = Sentence(is.tick, is.tokens, is.rejected)
  BY <1>1
<1>3. stand \in Seq(Sectors)
  BY DEF Voiced
<1> HIDE DEF is
<1>4. Voiced(is)
  BY <1>1, <1>2, <1>3 DEF Voiced
<1>5. Longer(m, is)
  <2> SUFFICES ASSUME m # NoneYet, is.tick = m.tick PROVE IsPrefix(m.rejected, is.rejected)
    BY DEF Longer
  <2>1. is.rejected = m.rejected /\ m.rejected \in Seq(Sectors)
    BY <1>1, <1>3
  <2> QED
    BY <2>1, PrefixOfItself
<1> QED
  BY <1>4, <1>5 DEF is

\* One symbol's sentence changes.
LEMMA OneSaid ==
  ASSUME RegionInv, NEW s, NEW is, matches' = [matches EXCEPT ![s] = is],
         s \in KnownSymbols => Voiced(is) /\ Longer(matches[s], is)
  PROVE  RegionInv' /\ RefusedKept
<1>1. /\ matches' = [t \in KnownSymbols |-> matches'[t]]
      /\ \A t \in KnownSymbols : matches'[t] = IF t = s THEN is ELSE matches[t]
  BY DEF RegionInv
<1>2. RegionInv'
  BY <1>1 DEF RegionInv, Voiced, Sentence
<1>3. \A t \in KnownSymbols : Longer(matches[t], matches'[t])
  BY <1>1, PrefixOfItself DEF RegionInv, Longer, Voiced
<1> QED
  BY <1>2, <1>3 DEF RefusedKept, Longer

LEMMA RegionStart == RegionInit => RegionInv
BY DEF RegionInit, RegionInv, Voiced

LEMMA RegionStay == RegionInv /\ UNCHANGED matches => RegionInv' /\ RefusedKept
<1> SUFFICES ASSUME RegionInv, UNCHANGED matches PROVE RegionInv' /\ RefusedKept
  OBVIOUS
<1>1. RegionInv'
  BY DEF RegionInv, Voiced, Sentence
<1>2. \A t \in KnownSymbols : Longer(matches[t], matches'[t])
  BY PrefixOfItself DEF RegionInv, Longer, Voiced
<1> QED
  BY <1>1, <1>2 DEF RefusedKept, Longer

LEMMA RegionStep == RegionInv /\ [RegionNext]_regionVars => RegionInv' /\ RefusedKept
<1> SUFFICES ASSUME RegionInv, [RegionNext]_regionVars PROVE RegionInv' /\ RefusedKept
  OBVIOUS
<1>0. ASSUME UNCHANGED matches PROVE RegionInv' /\ RefusedKept
  BY <1>0, RegionStay
<1>1. ASSUME NEW symbol, NEW tick, NEW tokens,
             matches' = [matches EXCEPT ![symbol] = Sentence(tick, tokens, RefusedAt(@, tick))]
      PROVE  RegionInv' /\ RefusedKept
  <2> DEFINE is == Sentence(tick, tokens, RefusedAt(matches[symbol], tick))
  <2>1. matches' = [matches EXCEPT ![symbol] = is]
    BY <1>1
  <2>2. symbol \in KnownSymbols => Voiced(is) /\ Longer(matches[symbol], is)
    BY SaidAgain DEF RegionInv
  <2> HIDE DEF is
  <2> QED
    BY <2>1, <2>2, OneSaid
<1>2. CASE ingestTrainRegions
  <2>1. PICK tail \in IndexTails, tick \in 1..MaxStep :
          LET parsed == parseTrainRegionsIndex(tail) IN
          \/ UNCHANGED matches
          \/ \E tokens : matches' = [matches EXCEPT ![parsed.symbol] =
                                       Sentence(tick, tokens, RefusedAt(@, tick))]
    BY <1>2 DEF ingestTrainRegions
  <2> QED
    BY <1>0, <1>1, <2>1
<1>3. CASE ingestTrainReject
  <2>1. PICK symbol \in KnownSymbols, tick \in 1..MaxStep, token \in Sectors :
          LET prior == matches[symbol]
              base == IF prior = NoneYet THEN Sentence(tick, <<>>, <<>>) ELSE prior
          IN  matches' = [matches EXCEPT ![symbol] =
                            [base EXCEPT !.tick = tick, !.rejected = Append(RefusedAt(prior, tick), token)]]
    BY <1>3 DEF ingestTrainReject
  <2> DEFINE base == IF matches[symbol] = NoneYet THEN Sentence(tick, <<>>, <<>>) ELSE matches[symbol]
             is == [base EXCEPT !.tick = tick, !.rejected = Append(RefusedAt(matches[symbol], tick), token)]
  <2>2. matches' = [matches EXCEPT ![symbol] = is]
    BY <2>1
  <2>3. Voiced(is) /\ Longer(matches[symbol], is)
    BY SaidRefused DEF RegionInv
  <2> HIDE DEF is
  <2> QED
    BY <2>2, <2>3, OneSaid
<1>4. CASE ingestPathWalks
  <2>1. PICK symbol \in KnownSymbols, tick \in 1..MaxStep, tokens \in Sentences :
          matches' = [matches EXCEPT ![symbol] =
                        Sentence(tick, tokens, IF @ = NoneYet THEN <<>> ELSE @.rejected)]
    BY <1>4 DEF ingestPathWalks
  <2> DEFINE is == Sentence(tick, tokens, IF matches[symbol] = NoneYet THEN <<>> ELSE matches[symbol].rejected)
  <2>2. matches' = [matches EXCEPT ![symbol] = is]
    BY <2>1
  <2>3. Voiced(is) /\ Longer(matches[symbol], is)
    BY SaidWalked DEF RegionInv
  <2> HIDE DEF is
  <2> QED
    BY <2>2, <2>3, OneSaid
<1>5. CASE MatchesDropped
  BY <1>5 DEF MatchesDropped, RegionInv, Voiced, RefusedKept
<1>6. CASE UNCHANGED regionVars
  BY <1>0, <1>6 DEF regionVars
<1> QED
  BY <1>2, <1>3, <1>4, <1>5, <1>6 DEF RegionNext

-----------------------------------------------------------------------------
(* The executions of a lot: LotViews. *)

FillsInv == fills \in Seq(FillSet)

\* distinct: an execution whose identity came before is not read again.
LEMMA AgainIsNothing ==
  ASSUME NEW fs \in Seq(FillSet), NEW f \in FillSet, f.id # Null, f \in Range(fs), NEW side
  PROVE  distinct(Append(fs, f), side) = distinct(fs, side)
<1> DEFINE n == Len(fs)
           more == Append(fs, f)
           Firsts(s) == {i \in DOMAIN s :
                           /\ s[i].side = side
                           /\ \A j \in 1..(i - 1) : s[j].side = side => s[i].id = Null \/ s[j].id # s[i].id}
<1>1. /\ n \in Nat /\ DOMAIN fs = 1..n
      /\ more \in Seq(FillSet) /\ DOMAIN more = 1..(n + 1)
      /\ more[n + 1] = f /\ \A i \in 1..n : more[i] = fs[i]
  OBVIOUS
<1>2. PICK k \in 1..n : fs[k] = f
  BY <1>1 DEF Range
<1> HIDE DEF n, more
<1>3. n + 1 \notin Firsts(more)
  <2>1. k \in 1..((n + 1) - 1) /\ more[k] = f
    BY <1>1, <1>2
  <2> QED
    BY <1>1, <2>1
<1>4. ASSUME NEW i \in 1..n PROVE i \in Firsts(more) <=> i \in Firsts(fs)
  <2>1. \A j \in 1..(i - 1) : j \in 1..n
    BY <1>1
  <2>2. i \in 1..(n + 1)
    BY <1>1
  <2> QED
    BY <1>1, <2>1, <2>2
<1>5. \A i \in 1..(n + 1) : i = n + 1 \/ i \in 1..n
  BY <1>1
<1>6. Firsts(fs) \subseteq 1..n /\ Firsts(more) \subseteq 1..(n + 1)
  BY <1>1
<1>7. distinct(more, side) = Only(more, Firsts(more)) /\ distinct(fs, side) = Only(fs, Firsts(fs))
  BY DEF distinct
<1> DEFINE places == Firsts(fs)
<1>8. Firsts(more) = places
  BY <1>3, <1>4, <1>5, <1>6
<1> HIDE DEF Firsts, places
<1>9. places \subseteq DOMAIN fs /\ places \subseteq DOMAIN more
  BY <1>1, <1>6 DEF places
<1>10. Only(fs, places) = [i \in 1..Cardinality(places) |-> fs[InOrder(places)[i]]]
  BY <1>9, OnlyIs
<1>11. Only(more, places) = [i \in 1..Cardinality(places) |-> more[InOrder(places)[i]]]
  BY <1>1, <1>9, OnlyIs
<1>12. ASSUME NEW i \in 1..Cardinality(places) PROVE InOrder(places)[i] \in 1..n
  <2>1. DOMAIN Only(fs, places) = 1..Cardinality(places)
    BY <1>9, OnlyKeeps
  <2>2. InOrder(places) \in [DOMAIN Only(fs, places) -> places]
    BY <1>9, OnlyPlaces
  <2> QED
    BY <1>1, <1>9, <2>1, <2>2
<1>13. Only(more, places) = Only(fs, places)
  BY <1>1, <1>10, <1>11, <1>12
<1> QED
  BY <1>7, <1>8, <1>13 DEF places, more

LEMMA FillsStart == LotInit => FillsInv
BY DEF LotInit, FillsInv

LEMMA FillsStep ==
  FillsInv /\ [LotNext]_lotVars => FillsInv' /\ ReplayedFillIgnored
<1> SUFFICES ASSUME FillsInv, [LotNext]_lotVars PROVE FillsInv' /\ ReplayedFillIgnored
  OBVIOUS
<1>1. ASSUME fills' = fills PROVE FillsInv' /\ ReplayedFillIgnored
  <2>1. FillsInv'
    BY <1>1 DEF FillsInv
  <2>2. ASSUME NEW f \in FillSet PROVE fills' # Append(fills, f)
    <3>1. Len(Append(fills, f)) # Len(fills)
      BY DEF FillsInv
    <3> QED
      BY <1>1, <3>1
  <2> QED
    BY <2>1, <2>2 DEF ReplayedFillIgnored
<1>2. ASSUME NEW g \in FillSet, FillArrives(g) PROVE FillsInv' /\ ReplayedFillIgnored
  <2>1. FillsInv'
    BY <1>2 DEF FillArrives, FillsInv
  <2>2. ASSUME NEW f \in FillSet, fills' = Append(fills, f), f.id # Null, f \in Range(fills)
        PROVE  lot' = lot
    <3>1. distinct(fills', "buy") = distinct(fills, "buy") /\ distinct(fills', "sell") = distinct(fills, "sell")
      BY <2>2, AgainIsNothing DEF FillsInv
    <3>2. /\ executionTotals(fills', "buy") = executionTotals(fills, "buy")
          /\ executionTotals(fills', "sell") = executionTotals(fills, "sell")
      BY <3>1 DEF executionTotals
    <3>3. opened' = opened /\ closedAt' = closedAt
      BY <1>2 DEF FillArrives
    <3>4. positionReadout(fills', opened', closedAt') = positionReadout(fills, opened, closedAt)
      BY <3>2, <3>3 DEF positionReadout
    <3> QED
      BY <3>4 DEF lot
  <2> QED
    BY <2>1, <2>2 DEF ReplayedFillIgnored
<1>3. ASSUME NEW open, NEW closing, Dated(open, closing) PROVE FillsInv' /\ ReplayedFillIgnored
  BY <1>1, <1>3 DEF Dated
<1>4. CASE UNCHANGED lotVars
  BY <1>1, <1>4 DEF lotVars
<1> QED
  BY <1>2, <1>3, <1>4 DEF LotNext

-----------------------------------------------------------------------------
(* The retained rows: Xray. *)

Fields == UNION {DOMAIN row : row \in ReadingForms}
Numbers == {Absent} \cup UNION {{row[m] : m \in DOMAIN row} : row \in ReadingForms}
Held == UNION {[d -> Numbers] : d \in SUBSET Fields}
Entries == [symbol : Scopes, row : Held]

RetainedOK(rs) ==
  rs \in Seq(Entries) /\ \A i, j \in DOMAIN rs : rs[i].symbol = rs[j].symbol => i = j

Wider(old, new) ==
  /\ DOMAIN old \subseteq DOMAIN new
  /\ At(old, "surprise") \notin {Absent, 0} => At(new, "surprise") \notin {Absent, 0}

Extends(old, new) ==
  \A i \in DOMAIN old :
    i \in DOMAIN new /\ new[i].symbol = old[i].symbol /\ Wider(old[i].row, new[i].row)

\* retainResonanceRow: keys accumulate and a zero covers no reading.
LEMMA RetainKeeps ==
  ASSUME NEW old, DOMAIN old \subseteq Fields, \A m \in DOMAIN old : old[m] \in Numbers,
         NEW row \in ReadingForms
  PROVE  Retain(old, row) \in Held /\ Wider(old, Retain(old, row))
<1> DEFINE new == Retain(old, row)
<1>1. /\ DOMAIN new = DOMAIN old \cup DOMAIN row
      /\ \A m \in DOMAIN new :
           new[m] = IF m = "surprise" THEN keepScalar(At(row, m), At(old, m))
                    ELSE IF m \in DOMAIN row THEN row[m] ELSE old[m]
      /\ new = [m \in DOMAIN new |-> new[m]]
  BY DEF Retain
<1> HIDE DEF new
<1>2. DOMAIN row \subseteq Fields /\ \A m \in DOMAIN row : row[m] \in Numbers
  BY DEF Fields, Numbers
<1>3. Absent \in Numbers
  BY DEF Numbers
<1>4. \A m : At(row, m) \in Numbers /\ At(old, m) \in Numbers
  BY <1>2, <1>3 DEF At
<1>5. \A m \in DOMAIN new : new[m] \in Numbers
  BY <1>1, <1>2, <1>4 DEF keepScalar
<1>6. DOMAIN new \in SUBSET Fields
  BY <1>1, <1>2
<1>7. new \in [DOMAIN new -> Numbers]
  BY <1>1, <1>5
<1>8. new \in Held
  BY <1>6, <1>7 DEF Held
<1>9. At(old, "surprise") \notin {Absent, 0} => At(new, "surprise") \notin {Absent, 0}
  <2> SUFFICES ASSUME At(old, "surprise") \notin {Absent, 0} PROVE At(new, "surprise") \notin {Absent, 0}
    OBVIOUS
  <2>1. "surprise" \in DOMAIN new
    BY <1>1 DEF At
  <2>2. At(new, "surprise") = keepScalar(At(row, "surprise"), At(old, "surprise"))
    BY <1>1, <2>1 DEF At
  <2> QED
    BY <2>2 DEF keepScalar
<1> QED
  BY <1>1, <1>8, <1>9 DEF Wider, new

LEMMA HeldIs ==
  ASSUME NEW row \in Held
  PROVE  DOMAIN row \subseteq Fields /\ \A m \in DOMAIN row : row[m] \in Numbers
BY DEF Held

LEMMA ExtendsItself ==
  ASSUME NEW rs
  PROVE  Extends(rs, rs)
BY DEF Extends, Wider

LEMMA ExtendsOn ==
  ASSUME NEW a, NEW b, NEW c, Extends(a, b), Extends(b, c)
  PROVE  Extends(a, c)
BY DEF Extends, Wider

\* One row of the store is painted.
LEMMA RowRetained ==
  ASSUME NEW rs, RetainedOK(rs), NEW s \in Scopes, NEW row \in ReadingForms
  PROVE  LET new == retainResonanceRow(rs, s, row) IN RetainedOK(new) /\ Extends(rs, new)
<1> DEFINE n == Len(rs)
           new == retainResonanceRow(rs, s, row)
<1>1. /\ n \in Nat /\ DOMAIN rs = 1..n
      /\ \A i \in 1..n : rs[i] \in Entries
  BY DEF RetainedOK
<1>2. \A i \in 1..n : /\ rs[i] = [symbol |-> rs[i].symbol, row |-> rs[i].row]
                      /\ rs[i].symbol \in Scopes /\ rs[i].row \in Held
  BY <1>1 DEF Entries
<1>3. \A i \in 1..n : Retain(rs[i].row, row) \in Held /\ Wider(rs[i].row, Retain(rs[i].row, row))
  BY <1>2, HeldIs, RetainKeeps
<1> HIDE DEF n
<1>4. CASE \E i \in 1..n : rs[i].symbol = s
  <2> DEFINE put(i) == [symbol |-> rs[i].symbol, row |-> Retain(rs[i].row, row)]
  <2>1. new = [i \in 1..n |-> IF rs[i].symbol = s THEN [rs[i] EXCEPT !.row = Retain(@, row)] ELSE rs[i]]
    BY <1>1, <1>4 DEF retainResonanceRow
  <2>2. ASSUME NEW i \in 1..n PROVE [rs[i] EXCEPT !.row = Retain(@, row)] = put(i)
    <3> DEFINE e == rs[i]
    <3>1. e \in [symbol : Scopes, row : Held]
      BY <1>1 DEF Entries
    <3> HIDE DEF e
    <3>2. [e EXCEPT !.row = Retain(@, row)] = [symbol |-> e.symbol, row |-> Retain(e.row, row)]
      BY <3>1
    <3> QED
      BY <3>2 DEF e
  <2> HIDE DEF new
  <2>3. \A i \in 1..n : new[i] = IF rs[i].symbol = s THEN put(i) ELSE rs[i]
    BY <2>1, <2>2
  <2>4. \A i \in 1..n : put(i) \in Entries /\ put(i).symbol = rs[i].symbol /\ put(i).row = Retain(rs[i].row, row)
    BY <1>2, <1>3 DEF Entries
  <2> HIDE DEF put
  <2>5. \A i \in 1..n : new[i] \in Entries /\ new[i].symbol = rs[i].symbol
    BY <1>1, <2>3, <2>4
  <2>6. new \in [1..n -> Entries]
    BY <2>1, <2>5
  <2>7. new \in Seq(Entries) /\ DOMAIN new = 1..n
    BY <1>1, <2>6
  <2>8. RetainedOK(new)
    BY <1>1, <2>5, <2>7 DEF RetainedOK
  <2>9. \A i \in 1..n : Wider(rs[i].row, new[i].row)
    BY <1>3, <2>3, <2>4 DEF Wider
  <2>10. Extends(rs, new)
    BY <1>1, <2>5, <2>7, <2>9 DEF Extends
  <2> QED
    BY <2>8, <2>10 DEF new
<1>5. CASE ~ \E i \in 1..n : rs[i].symbol = s
  <2> DEFINE none == <<>>
             last == [symbol |-> s, row |-> Retain(none, row)]
  <2>1. new = Append(rs, last)
    BY <1>1, <1>5 DEF retainResonanceRow
  <2>2. DOMAIN none = {}
    OBVIOUS
  <2> HIDE DEF none
  <2>3. Retain(none, row) \in Held
    BY <2>2, RetainKeeps
  <2>4. last \in Entries /\ last.symbol = s
    BY <2>3 DEF Entries
  <2> HIDE DEF last, new
  <2>5. /\ new \in Seq(Entries) /\ DOMAIN new = 1..(n + 1)
        /\ new[n + 1] = last /\ \A i \in 1..n : new[i] = rs[i]
    BY <2>1, <2>4 DEF RetainedOK, n
  <2>6. ASSUME NEW i \in 1..(n + 1), NEW j \in 1..(n + 1), new[i].symbol = new[j].symbol PROVE i = j
    <3>1. (i = n + 1 \/ i \in 1..n) /\ (j = n + 1 \/ j \in 1..n)
      BY <1>1
    <3> QED
      BY <1>1, <1>5, <2>4, <2>5, <2>6, <3>1 DEF RetainedOK
  <2>7. RetainedOK(new)
    BY <2>5, <2>6 DEF RetainedOK
  <2>8. \A i \in 1..n : i \in 1..(n + 1)
    BY <1>1
  <2>9. Extends(rs, new)
    BY <1>1, <2>5, <2>8 DEF Extends, Wider
  <2> QED
    BY <2>7, <2>9 DEF new
<1> QED
  BY <1>1, <1>4, <1>5

LEMMA ScopesInARow ==
  LET all == SetToSeq(Scopes) IN
  \E n \in Nat : all \in [1..n -> Scopes] /\ Len(all) = n /\ DOMAIN all = 1..n
<1> DEFINE n == Cardinality(Scopes)
           all == SetToSeq(Scopes)
<1>1. n \in Nat /\ ExistsBijection(1..n, Scopes)
  BY XrayAssumption, FS_NatBijection, FS_CountingElements, FS_CardinalityType
<1>2. \E f \in [1..n -> Scopes] : IsInjective(f)
  BY <1>1 DEF ExistsBijection, Bijection, Injection, IsInjective
<1>3. all \in [1..n -> Scopes]
  BY <1>2 DEF SetToSeq
<1> QED
  BY <1>1, <1>3

\* updatePaint: whatever rows the store has, what was retained is extended.
LEMMA PaintExtends ==
  ASSUME NEW rs, RetainedOK(rs), NEW state \in [Scopes -> ReadingForms \cup {Absent}]
  PROVE  RetainedOK(updatePaint(rs, state)) /\ Extends(rs, updatePaint(rs, state))
<1> DEFINE Op(acc, s) == IF state[s] = Absent THEN acc ELSE retainResonanceRow(acc, s, state[s])
           C == {new \in Seq(Entries) : RetainedOK(new) /\ Extends(rs, new)}
           all == SetToSeq(Scopes)
<1>1. PICK n \in Nat : all \in [1..n -> Scopes] /\ DOMAIN all = 1..n
  BY ScopesInARow
<1> DEFINE step(T, h) == IF T = {} THEN rs ELSE Op(h[T \ {Greatest(T)}], all[Greatest(T)])
           Carries(h) == h = [T \in SUBSET (1..n) |-> step(T, h)]
           run == CHOOSE h : Carries(h)
           g == [c \in (1..n) \X C |-> Op(c[2], all[c[1]])]
<1>2. updatePaint(rs, state) = run[1..n]
  BY <1>1 DEF updatePaint, FoldLeft, MapThenFoldSet, Max, Greatest
<1>3. rs \in C
  BY ExtendsItself DEF RetainedOK
<1>4. ASSUME NEW k \in 1..n, NEW acc \in C PROVE Op(acc, all[k]) \in C
  <2>1. all[k] \in Scopes /\ RetainedOK(acc) /\ Extends(rs, acc)
    BY <1>1
  <2>2. CASE state[all[k]] = Absent
    BY <2>2
  <2>3. CASE state[all[k]] # Absent
    <3> DEFINE new == retainResonanceRow(acc, all[k], state[all[k]])
    <3>1. state[all[k]] \in ReadingForms
      BY <2>1, <2>3
    <3>2. RetainedOK(new) /\ Extends(acc, new)
      BY <2>1, <3>1, RowRetained
    <3> HIDE DEF new
    <3>3. Extends(rs, new)
      BY <2>1, <3>2, ExtendsOn
    <3>4. new \in C
      BY <3>2, <3>3 DEF RetainedOK
    <3> QED
      BY <2>3, <3>4 DEF new
  <2> QED
    BY <2>2, <2>3
<1> HIDE DEF C, all, Op
<1>5. \E h : Carries(h)
  <2>1. g \in [(1..n) \X C -> C] /\ \A k \in 1..n, acc \in C : g[<<k, acc>>] = Op(acc, all[k])
    BY <1>4
  <2> HIDE DEF g
  <2>2. PICK h \in [SUBSET (1..n) -> C] : Folds(n, rs, g, h)
    BY <1>3, <2>1, FoldExists
  <2>3. ASSUME NEW T \in SUBSET (1..n), T # {}
        PROVE  g[<<Greatest(T), h[T \ {Greatest(T)}]>>] = Op(h[T \ {Greatest(T)}], all[Greatest(T)])
    <3>1. \E j \in T : \A i \in T : j >= i
      BY <2>3, GreatestNumber
    <3>2. Greatest(T) \in 1..n
      BY <2>3, <3>1 DEF Greatest
    <3>3. h[T \ {Greatest(T)}] \in C
      OBVIOUS
    <3> QED
      BY <2>1, <3>2, <3>3
  <2>4. Carries(h)
    BY <2>2, <2>3 DEF Folds
  <2> QED
    BY <2>4
<1>6. Carries(run)
  BY <1>5
<1> HIDE DEF run
<1>7. run[1..0] \in C
  <2>1. 1..0 = {} /\ 1..0 \in SUBSET (1..n)
    OBVIOUS
  <2> QED
    BY <1>3, <1>6, <2>1
<1>8. ASSUME NEW k \in 0..(n - 1), run[1..k] \in C PROVE run[1..(k + 1)] \in C
  <2>1. /\ k \in Nat /\ k + 1 \in 1..n /\ 1..(k + 1) \in SUBSET (1..n)
    OBVIOUS
  <2>2. /\ 1..(k + 1) # {} /\ Greatest(1..(k + 1)) = k + 1
        /\ 1..(k + 1) \ {Greatest(1..(k + 1))} = 1..k
    BY <2>1, GreatestOfAll
  <2>3. run[1..(k + 1)] = Op(run[1..k], all[k + 1])
    BY <1>6, <2>1, <2>2
  <2> QED
    BY <1>4, <1>8, <2>1, <2>3
<1> HIDE DEF Carries
<1>9. run[1..n] \in C
  BY <1>7, <1>8, FoldStays
<1> QED
  BY <1>2, <1>9 DEF C

RetainedInv == RetainedOK(retained) /\ readings \in [Scopes -> ReadingForms \cup {Absent}]

LEMMA RetainedStart == ResonanceInit => RetainedInv
BY DEF ResonanceInit, RetainedInv, RetainedOK

\* What was retained is extended, so nothing of a row is lost.
LEMMA ExtendedIsKept ==
  ASSUME RetainedOK(retained), RetainedOK(retained'), Extends(retained, retained')
  PROVE  RetainedNeverLoses
<1> SUFFICES ASSUME NEW i \in DOMAIN retained
             PROVE  LET new == RowOf(retained', retained[i].symbol) old == retained[i].row
                    IN  /\ DOMAIN old \subseteq DOMAIN new
                        /\ At(old, "surprise") \notin {Absent, 0} => new["surprise"] # 0
  BY DEF RetainedNeverLoses
<1> DEFINE s == retained[i].symbol
           old == retained[i].row
           new == RowOf(retained', s)
<1>1. i \in DOMAIN retained' /\ retained'[i].symbol = s /\ Wider(old, retained'[i].row)
  BY DEF Extends
<1>2. (CHOOSE k \in DOMAIN retained' : retained'[k].symbol = s) = i
  BY <1>1 DEF RetainedOK
<1>3. new = retained'[i].row
  BY <1>1, <1>2 DEF RowOf
<1> HIDE DEF new, old
<1>4. DOMAIN old \subseteq DOMAIN new /\ (At(old, "surprise") \notin {Absent, 0} => At(new, "surprise") \notin {Absent, 0})
  BY <1>1, <1>3 DEF Wider
<1>5. At(new, "surprise") \notin {Absent, 0} => new["surprise"] # 0
  BY DEF At
<1> QED
  BY <1>4, <1>5 DEF new, old

LEMMA RetainedStep ==
  RetainedInv /\ [ResonanceNext]_resonanceVars => RetainedInv' /\ RetainedNeverLoses
<1> SUFFICES ASSUME RetainedInv, [ResonanceNext]_resonanceVars PROVE RetainedInv' /\ RetainedNeverLoses
  OBVIOUS
<1>1. ASSUME retained' = updatePaint(retained, readings'), readings' \in [Scopes -> ReadingForms \cup {Absent}]
      PROVE  RetainedInv' /\ RetainedNeverLoses
  <2>1. RetainedOK(retained') /\ Extends(retained, retained')
    BY <1>1, PaintExtends DEF RetainedInv
  <2> QED
    BY <1>1, <2>1, ExtendedIsKept DEF RetainedInv, RetainedOK
<1>2. ASSUME NEW s \in Scopes, NEW row \in ReadingForms, ReadingArrives(s, row)
      PROVE  RetainedInv' /\ RetainedNeverLoses
  <2>1. readings' \in [Scopes -> ReadingForms \cup {Absent}]
    BY <1>2 DEF ReadingArrives, RetainedInv
  <2> QED
    BY <1>1, <1>2, <2>1 DEF ReadingArrives
<1>3. ASSUME NEW s \in Scopes, SetFocus(s) PROVE RetainedInv' /\ RetainedNeverLoses
  BY <1>1, <1>3 DEF SetFocus, RetainedInv
<1>4. CASE UNCHANGED resonanceVars
  <2>1. retained' = retained /\ readings' = readings
    BY <1>4 DEF resonanceVars
  <2> QED
    BY <2>1, ExtendsItself, ExtendedIsKept DEF RetainedInv, RetainedOK
<1> QED
  BY <1>2, <1>3, <1>4 DEF ResonanceNext

-----------------------------------------------------------------------------
(* The gate lab: Shell. *)

LabForm(l) ==
  l = [open |-> l.open, force |-> l.force, risk |-> l.risk,
       rez |-> [bypass |-> l.rez.bypass, floor |-> l.rez.floor]]

ToldForm(t) == t = [risk |-> t.risk, rez |-> t.rez]

LabInv == LabForm(lab) /\ ToldForm(told) /\ PushedIsTold

LEMMA LabShape ==
  ASSUME NEW l, NEW o, NEW f, NEW r, NEW b, NEW n,
         l = [open |-> o, force |-> f, risk |-> r, rez |-> [bypass |-> b, floor |-> n]]
  PROVE  /\ LabForm(l) /\ l.open = o /\ l.force = f /\ l.risk = r
         /\ l.rez = [bypass |-> b, floor |-> n] /\ l.rez.bypass = b /\ l.rez.floor = n
BY DEF LabForm

LEMMA ToldShape ==
  ASSUME NEW t, NEW r, NEW z, t = [risk |-> r, rez |-> z]
  PROVE  ToldForm(t) /\ t.risk = r /\ t.rez = z
BY DEF ToldForm

LEMMA LabStart == LabInit => LabInv
<1> SUFFICES ASSUME LabInit PROVE LabInv
  OBVIOUS
<1>1. PICK b \in BOOLEAN, n \in Int : RezDefaults = [bypass |-> b, floor |-> n]
  BY ShellAssumption
<1>2. lab = [open |-> FALSE, force |-> emptyOverrides, risk |-> RiskDefault, rez |-> [bypass |-> b, floor |-> n]]
  BY <1>1 DEF LabInit
<1>3. ToldForm(told)
  BY ToldShape DEF LabInit
<1>4. PushedIsTold
  BY DEF LabInit, PushedIsTold
<1> QED
  BY <1>2, <1>3, <1>4, LabShape DEF LabInv

LEMMA LabStep == LabInv /\ [LabNext]_labVars => LabInv'
<1> SUFFICES ASSUME LabInv, [LabNext]_labVars PROVE LabInv'
  OBVIOUS
<1> DEFINE o == lab.open
           f == lab.force
           r == lab.risk
           b == lab.rez.bypass
           n == lab.rez.floor
           tr == told.risk
           tz == told.rez
<1>1. lab = [open |-> o, force |-> f, risk |-> r, rez |-> [bypass |-> b, floor |-> n]]
  BY DEF LabInv, LabForm
<1>2. told = [risk |-> tr, rez |-> tz]
  BY DEF LabInv, ToldForm
<1> HIDE DEF o, f, r, b, n, tr, tz
<1>3. ASSUME Quiet, LabForm(lab') PROVE LabInv'
  <2>1. told' = told /\ pressed' = ""
    BY <1>3 DEF Quiet
  <2>2. PushedIsTold'
    BY <2>1 DEF PushedIsTold
  <2>3. ToldForm(told')
    BY <2>1 DEF LabInv
  <2> QED
    BY <1>3, <2>2, <2>3 DEF LabInv, LabForm, ToldForm
<1>4. CASE toggleGateLab
  <2>1. lab' = [open |-> ~o, force |-> f, risk |-> r, rez |-> [bypass |-> b, floor |-> n]]
    BY <1>1, <1>4 DEF toggleGateLab
  <2>2. LabForm(lab')
    BY <2>1 DEF LabForm
  <2> QED
    BY <1>3, <1>4, <2>2 DEF toggleGateLab
<1>5. CASE resetGateLab
  <2>1. PICK b1 \in BOOLEAN, n1 \in Int : RezDefaults = [bypass |-> b1, floor |-> n1]
    BY ShellAssumption
  <2>2. lab' = [open |-> o, force |-> emptyOverrides, risk |-> RiskDefault, rez |-> [bypass |-> b1, floor |-> n1]]
    BY <1>1, <1>5, <2>1 DEF resetGateLab
  <2>3. LabForm(lab')
    BY <2>2, LabShape
  <2> QED
    BY <1>3, <1>5, <2>3 DEF resetGateLab
<1>6. CASE applyRisk
  <2>1. lab' = lab /\ bound' = bound /\ pressed' = "risk"
    BY <1>6 DEF applyRisk
  <2>2. told' = IF bound THEN [risk |-> lab.risk, rez |-> tz] ELSE told
    BY <1>2, <1>6 DEF applyRisk, trySendCommand
  <2>3. ToldForm(told') /\ (bound => told'.risk = lab.risk)
    BY <2>2, ToldShape DEF LabInv
  <2>4. PushedIsTold'
    BY <2>1, <2>3 DEF PushedIsTold
  <2> QED
    BY <2>1, <2>3, <2>4 DEF LabInv, LabForm, ToldForm
<1>7. ASSUME lab' = lab, told' = told, pressed' # "bypass", pressed' # "risk" PROVE LabInv'
  BY <1>7 DEF LabInv, PushedIsTold, LabForm, ToldForm
<1>8. CASE ClickBypass
  <2>1. lab' = [open |-> o, force |-> f, risk |-> r, rez |-> [bypass |-> ~b, floor |-> n]]
    BY <1>1, <1>8 DEF ClickBypass, b
  <2>2. lab'.rez = [bypass |-> ~b, floor |-> n] /\ lab.rez.bypass = b
    BY <2>1 DEF b
  <2>3. [lab'.rez EXCEPT !.bypass = ~lab.rez.bypass] = lab'.rez
    BY <2>2
  <2>4. told' = IF bound THEN [told EXCEPT !["rez"] = lab'.rez] ELSE told
    BY <1>8, <2>3 DEF ClickBypass, trySendCommand
  <2>5. told' = IF bound THEN [risk |-> tr, rez |-> lab'.rez] ELSE told
    BY <1>2, <2>4
  <2>6. ToldForm(told') /\ (bound => told'.rez = lab'.rez)
    BY <2>5, ToldShape DEF LabInv
  <2>7. bound' = bound /\ pressed' = "bypass"
    BY <1>8 DEF ClickBypass
  <2>8. PushedIsTold'
    BY <2>6, <2>7 DEF PushedIsTold
  <2>9. LabForm(lab')
    BY <2>1 DEF LabForm
  <2> QED
    BY <2>6, <2>8, <2>9 DEF LabInv, LabForm, ToldForm
<1>9. ASSUME NEW g \in Oracles, cycleOracleOverride(g) PROVE LabInv'
  <2> DEFINE f1 == [lab.force EXCEPT ![g] = cycle(@)]
  <2>1. lab' = [lab EXCEPT !.force = f1]
    BY <1>9 DEF cycleOracleOverride
  <2> HIDE DEF f1
  <2>2. lab' = [open |-> o, force |-> f1, risk |-> r, rez |-> [bypass |-> b, floor |-> n]]
    BY <1>1, <2>1
  <2>3. LabForm(lab')
    BY <2>2, LabShape
  <2> QED
    BY <1>3, <1>9, <2>3 DEF cycleOracleOverride
<1>10. ASSUME NEW v, setRiskField(v) PROVE LabInv'
  <2>1. lab' = [open |-> o, force |-> f, risk |-> v, rez |-> [bypass |-> b, floor |-> n]]
    BY <1>1, <1>10 DEF setRiskField
  <2>2. LabForm(lab')
    BY <2>1, LabShape
  <2> QED
    BY <1>3, <1>10, <2>2 DEF setRiskField
<1>11. ASSUME NEW v, setResonanceField(v) PROVE LabInv'
  <2>1. lab' = [open |-> o, force |-> f, risk |-> r, rez |-> [bypass |-> b, floor |-> v]]
    BY <1>1, <1>11 DEF setResonanceField
  <2>2. LabForm(lab')
    BY <2>1, LabShape
  <2> QED
    BY <1>3, <1>11, <2>2 DEF setResonanceField
<1>12. CASE applyResonance
  BY <1>7, <1>12 DEF applyResonance
<1>13. CASE bindHubWorker
  BY <1>7, <1>13 DEF bindHubWorker
<1>14. CASE UNCHANGED labVars
  BY <1>14 DEF labVars, LabInv, PushedIsTold, LabForm, ToldForm
<1> QED
  BY <1>4, <1>5, <1>6, <1>8, <1>9, <1>10, <1>11, <1>12, <1>13, <1>14 DEF LabNext

-----------------------------------------------------------------------------
(* The palette: Shell. *)

TermForm(t) ==
  /\ t = [open |-> t.open, mode |-> t.mode, query |-> t.query, index |-> t.index,
          selected |-> t.selected, inspector |-> t.inspector]
  /\ t.index \in Int

PaletteInv == TermForm(term)

LEMMA TermShape ==
  ASSUME NEW t, NEW o, NEW m, NEW q, NEW i \in Int, NEW s, NEW p,
         t = [open |-> o, mode |-> m, query |-> q, index |-> i, selected |-> s, inspector |-> p]
  PROVE  TermForm(t)
BY DEF TermForm

LEMMA PaletteStart == PaletteInit => PaletteInv
<1> SUFFICES ASSUME PaletteInit PROVE PaletteInv
  OBVIOUS
<1>1. term = [open |-> FALSE, mode |-> "all", query |-> AllText, index |-> 0,
              selected |-> "", inspector |-> Undefined]
  BY DEF PaletteInit
<1>2. 0 \in Int
  OBVIOUS
<1> QED
  BY <1>1, <1>2, TermShape DEF PaletteInv

LEMMA PaletteStep == PaletteInv /\ [PaletteNext]_paletteVars => PaletteInv'
<1> SUFFICES ASSUME PaletteInv, [PaletteNext]_paletteVars PROVE PaletteInv'
  OBVIOUS
<1> DEFINE o == term.open
           m == term.mode
           q == term.query
           i == term.index
           s == term.selected
           p == term.inspector
<1>1. /\ term = [open |-> o, mode |-> m, query |-> q, index |-> i, selected |-> s, inspector |-> p]
      /\ i \in Int /\ 0 \in Int
  BY DEF PaletteInv, TermForm
<1> HIDE DEF o, m, q, i, s, p
<1>2. TermForm(term') => PaletteInv'
  BY DEF PaletteInv, TermForm
<1>3. ASSUME NEW mode, Opened(mode) PROVE PaletteInv'
  <2>1. term' = [open |-> TRUE, mode |-> mode, query |-> AllText, index |-> 0, selected |-> s, inspector |-> p]
    BY <1>1, <1>3 DEF Opened
  <2> QED
    BY <1>1, <1>2, <2>1, TermShape
<1>4. CASE closePalette
  <2>1. term' = [open |-> FALSE, mode |-> m, query |-> q, index |-> i, selected |-> s, inspector |-> p]
    BY <1>1, <1>4 DEF closePalette
  <2> QED
    BY <1>1, <1>2, <2>1, TermShape
<1>5. CASE closeInspect
  <2>1. term' = [open |-> o, mode |-> m, query |-> q, index |-> i, selected |-> s, inspector |-> Undefined]
    BY <1>1, <1>5 DEF closeInspect
  <2> QED
    BY <1>1, <1>2, <2>1, TermShape
<1>6. ASSUME NEW x, setPaletteQuery(x) PROVE PaletteInv'
  <2>1. term' = [open |-> o, mode |-> m, query |-> x, index |-> 0, selected |-> s, inspector |-> p]
    BY <1>1, <1>6 DEF setPaletteQuery
  <2> QED
    BY <1>1, <1>2, <2>1, TermShape
<1>7. ASSUME NEW delta \in {1, -1}, bumpPaletteIndex(delta) PROVE PaletteInv'
  <2>1. term' = [open |-> o, mode |-> m, query |-> q, index |-> i + delta, selected |-> s, inspector |-> p]
    BY <1>1, <1>7 DEF bumpPaletteIndex
  <2>2. i + delta \in Int
    BY <1>1
  <2> QED
    BY <1>2, <2>1, <2>2, TermShape
<1>8. ASSUME NEW c, runPalette(c) PROVE PaletteInv'
  <2> DEFINE ran == IF c.source = Undefined THEN term ELSE inspectSource(term, c.source)
  <2>1. PICK s1, p1 : ran =
          [open |-> o, mode |-> m, query |-> q, index |-> i, selected |-> s1, inspector |-> p1]
    <3>1. CASE c.source = Undefined
      BY <1>1, <3>1
    <3>2. CASE c.source # Undefined
      <4> DEFINE src == c.source
      <4>1. ran = [term EXCEPT !.selected = src, !.inspector = src]
        BY <3>2 DEF inspectSource
      <4> HIDE DEF src, ran
      <4>2. ran = [open |-> o, mode |-> m, query |-> q, index |-> i, selected |-> src, inspector |-> src]
        BY <1>1, <4>1
      <4> QED
        BY <4>2
    <3> QED
      BY <3>1, <3>2
  <2>2. term' = [ran EXCEPT !.open = FALSE]
    BY <1>8 DEF runPalette
  <2> HIDE DEF ran
  <2>3. term' = [open |-> FALSE, mode |-> m, query |-> q, index |-> i, selected |-> s1, inspector |-> p1]
    BY <2>1, <2>2
  <2> QED
    BY <1>1, <1>2, <2>3, TermShape
<1>9. ASSUME UNCHANGED term PROVE PaletteInv'
  BY <1>9 DEF PaletteInv, TermForm
<1>10. CASE PressEnter
  BY <1>8, <1>10 DEF PressEnter
<1>11. CASE ClickCommand
  BY <1>8, <1>11 DEF ClickCommand
<1>12. ASSUME NEW c, onClickCapture(c) PROVE PaletteInv'
  BY <1>9, <1>12 DEF onClickCapture
<1>13. CASE UNCHANGED paletteVars
  BY <1>9, <1>13 DEF paletteVars
<1> QED
  BY <1>3, <1>4, <1>5, <1>6, <1>7, <1>10, <1>11, <1>12, <1>13
     DEF PaletteNext, openPalette, openSymbolPalette

\* Division with remainder has one answer.
LEMMA Divided ==
  ASSUME NEW n \in Nat, n > 0, NEW a \in Int, NEW q \in Int, NEW r \in 0..(n - 1), a = q * n + r
  PROVE  a % n = r
<1> DEFINE p == a \div n
           t == a % n
<1>1. p \in Int /\ t \in 0..(n - 1) /\ a = n * p + t
  OBVIOUS
<1> HIDE DEF p, t
<1>2. p = q
  <2>1. ASSUME p >= q + 1 PROVE FALSE
    <3>1. PICK k \in Nat : p = q + 1 + k
      <4>1. p - (q + 1) \in Nat /\ p = q + 1 + (p - (q + 1))
        BY <1>1, <2>1
      <4> QED
        BY <4>1
    <3>2. n * p = n * q + n + n * k /\ n * k >= 0 /\ n * q = q * n
      BY <3>1
    <3> QED
      BY <1>1, <3>2
  <2>2. ASSUME q >= p + 1 PROVE FALSE
    <3>1. PICK k \in Nat : q = p + 1 + k
      <4>1. q - (p + 1) \in Nat /\ q = p + 1 + (q - (p + 1))
        BY <1>1, <2>2
      <4> QED
        BY <4>1
    <3>2. q * n = n * p + n + n * k /\ n * k >= 0
      BY <1>1, <3>1
    <3> QED
      BY <1>1, <3>2
  <2> QED
    BY <1>1, <2>1, <2>2
<1>3. t = r
  BY <1>1, <1>2
<1> QED
  BY <1>3 DEF t

\* Rem and the correction after it: the place an index stands for.
LEMMA RemPlaces ==
  ASSUME NEW n \in Nat, n > 0, NEW a \in Int
  PROVE  Rem(Rem(a, n) + n, n) = a % n /\ a % n \in 0..(n - 1)
<1>1. a % n \in 0..(n - 1) /\ (-a) % n \in 0..(n - 1) /\ a \div n \in Int /\ (-a) \div n \in Int
  OBVIOUS
<1>2. a = n * (a \div n) + (a % n) /\ -a = n * ((-a) \div n) + ((-a) % n)
  OBVIOUS
<1> DEFINE t == a % n
           q == a \div n
           u == (-a) % n
           w == (-a) \div n
<1>3. CASE a >= 0
  <2>1. Rem(a, n) = t
    BY <1>3 DEF Rem
  <2>2. t + n = 1 * n + t
    BY <1>1
  <2>3. (t + n) % n = t
    <3> HIDE DEF t
    <3>1. t \in 0..(n - 1) /\ t + n \in Int
      BY <1>1 DEF t
    <3> QED
      BY <2>2, <3>1, Divided
  <2>4. t + n >= 0
    BY <1>1
  <2> QED
    BY <1>1, <2>1, <2>3, <2>4 DEF Rem
<1>4. CASE ~ (a >= 0)
  <2>1. Rem(a, n) = -u
    BY <1>4 DEF Rem
  <2> HIDE DEF t, q, u, w
  <2>2. /\ t \in 0..(n - 1) /\ u \in 0..(n - 1) /\ q \in Int /\ w \in Int
        /\ a = n * q + t /\ -a = n * w + u
    BY <1>1, <1>2 DEF t, q, u, w
  <2>3. -u + n >= 0 /\ -u + n \in Int
    BY <2>2
  <2>4. Rem(-u + n, n) = (-u + n) % n
    BY <2>3 DEF Rem
  <2>5. (-u + n) % n = t
    <3>1. -u + n = n * (q + w + 1) + t
      <4>1. n * (q + w + 1) = n * q + n * w + n
        BY <2>2
      <4> QED
        BY <2>2, <4>1
    <3>2. q + w + 1 \in Int /\ n * (q + w + 1) = (q + w + 1) * n
      BY <2>2
    <3> QED
      BY <2>2, <2>3, <3>1, <3>2, Divided
  <2> QED
    BY <1>1, <2>1, <2>4, <2>5 DEF t
<1> QED
  BY <1>3, <1>4

LEMMA PlaceMoves ==
  ASSUME NEW n \in Nat, n > 0, NEW a \in Int, NEW d \in Int
  PROVE  (a + d) % n = ((a % n) + d) % n
<1> DEFINE t == a % n
           q == a \div n
           b == t + d
           u == b % n
           w == b \div n
<1>1. t \in 0..(n - 1) /\ q \in Int /\ a = n * q + t
  OBVIOUS
<1> HIDE DEF t, q
<1>2. b \in Int
  BY <1>1
<1> HIDE DEF b
<1>3. u \in 0..(n - 1) /\ w \in Int /\ b = n * w + u
  BY <1>2
<1> HIDE DEF u, w
<1>4. a + d = (q + w) * n + u
  <2>1. (q + w) * n = n * q + n * w
    BY <1>1, <1>3
  <2>2. b = t + d
    BY DEF b
  <2> QED
    BY <1>1, <1>2, <1>3, <2>1, <2>2
<1>5. (a + d) % n = u
  <2>1. a + d \in Int /\ q + w \in Int
    BY <1>1, <1>3
  <2> QED
    BY <1>3, <1>4, <2>1, Divided
<1> QED
  BY <1>5 DEF u, b, t

LEMMA HighlightMoves == PaletteInv => HighlightWalks
<1> SUFFICES ASSUME PaletteInv, commands(term) # <<>>, NEW delta \in {1, -1}
             PROVE  selectedIndex([term EXCEPT !.index = @ + delta]) =
                      (selectedIndex(term) + delta) % Len(commands(term))
  BY DEF HighlightWalks
<1> DEFINE i == term.index
           moved == [term EXCEPT !.index = i + delta]
           n == Len(commands(term))
<1>1. i \in Int /\ moved.index = i + delta /\ moved.query = term.query /\ moved.mode = term.mode
  BY DEF PaletteInv, TermForm
<1>2. commands(moved) = commands(term)
  BY <1>1 DEF commands
<1>3. n \in Nat /\ n > 0
  <2> DEFINE at == {k \in DOMAIN PaletteEntries :
                      /\ PaletteEntries[k] \in Finds[term.query]
                      /\ term.mode = "symbols" => PaletteEntries[k].group = "Symbol"}
  <2>1. at \subseteq DOMAIN PaletteEntries
    OBVIOUS
  <2>2. commands(term) = Only(PaletteEntries, at)
    BY DEF commands
  <2> HIDE DEF at
  <2>3. commands(term) \in Seq(ToSet(PaletteEntries))
    BY <2>1, <2>2, ShellAssumption, OnlyKeeps
  <2> QED
    BY <2>3
<1>4. selectedIndex(term) = Rem(Rem(i, n) + n, n) /\ selectedIndex(moved) = Rem(Rem(i + delta, n) + n, n)
  BY <1>1, <1>2, <1>3 DEF selectedIndex
<1> HIDE DEF moved, n, i
<1>5. selectedIndex(term) = i % n /\ selectedIndex(moved) = (i + delta) % n
  <2>1. i + delta \in Int
    BY <1>1
  <2> QED
    BY <1>1, <1>3, <1>4, <2>1, RemPlaces
<1>6. (i + delta) % n = ((i % n) + delta) % n
  <2>1. delta \in Int
    OBVIOUS
  <2> QED
    BY <1>1, <1>3, <2>1, PlaceMoves
<1> QED
  BY <1>5, <1>6 DEF moved, n, i

-----------------------------------------------------------------------------
(* The decisions board: Shell. *)

BoardKeys == BoardBooks \X BoardSymbols
BoardCards == [book : BoardBooks, symbol : BoardSymbols, action : STRING]
WireRows == [symbol : BoardSymbols, tier : STRING, action : STRING]

\* Every card rests under its own book and symbol.
LiveOK(l) ==
  /\ l \in [BoardKeys -> BoardCards \cup {Undefined}]
  /\ \A k \in BoardKeys : l[k] # Undefined => <<l[k].book, l[k].symbol>> = k

Mine(l, b) == {d \in Cards(l) : d.book = b}
MineKeys(l, b) == [d \in Mine(l, b) |-> rank(d.action) * (Cardinality(BoardSymbols) + 1) + d.symbol]

\* What one decision of an envelope does to the cards.
Put(m, d) ==
  IF d.action = "" THEN m
  ELSE [m EXCEPT ![decisionStoreKey(d)] =
          [book |-> decisionBook(d), symbol |-> d.symbol, action |-> d.action]]

LEMMA BookOfDecision ==
  ASSUME NEW d \in WireRows
  PROVE  /\ decisionBook(d) \in BoardBooks /\ d.symbol \in BoardSymbols /\ d.action \in STRING
         /\ decisionStoreKey(d) = <<decisionBook(d), d.symbol>> /\ decisionStoreKey(d) \in BoardKeys
<1>1. decisionBook(d) \in BoardBooks
  BY ShellAssumption DEF decisionBook
<1>2. d.symbol \in BoardSymbols /\ d.action \in STRING
  BY DEF WireRows
<1> QED
  BY <1>1, <1>2 DEF decisionStoreKey, BoardKeys

\* A decision is put under its key; the other books stand.
LEMMA PutKeeps ==
  ASSUME NEW m, LiveOK(m), NEW d \in WireRows
  PROVE  /\ LiveOK(Put(m, d))
         /\ \A k \in BoardKeys : k[1] # decisionBook(d) => Put(m, d)[k] = m[k]
<1> DEFINE key == decisionStoreKey(d)
           card == [book |-> decisionBook(d), symbol |-> d.symbol, action |-> d.action]
           new == [m EXCEPT ![key] = card]
<1>1. CASE d.action = ""
  BY <1>1 DEF Put
<1>2. CASE d.action # ""
  <2>1. /\ key \in BoardKeys /\ key = <<decisionBook(d), d.symbol>> /\ card \in BoardCards
        /\ card.book = decisionBook(d) /\ card.symbol = d.symbol /\ key[1] = decisionBook(d)
    BY BookOfDecision DEF BoardCards
  <2>2. Put(m, d) = new
    BY <1>2 DEF Put
  <2> HIDE DEF key, card
  <2>3. /\ m \in [BoardKeys -> BoardCards \cup {Undefined}]
        /\ \A k \in BoardKeys : m[k] # Undefined => <<m[k].book, m[k].symbol>> = k
    BY DEF LiveOK
  <2>4. /\ new \in [BoardKeys -> BoardCards \cup {Undefined}]
        /\ \A k \in BoardKeys : new[k] = IF k = key THEN card ELSE m[k]
    BY <2>1, <2>3
  <2> HIDE DEF new
  <2>5. \A k \in BoardKeys : new[k] # Undefined => <<new[k].book, new[k].symbol>> = k
    BY <2>1, <2>3, <2>4
  <2>6. \A k \in BoardKeys : k[1] # decisionBook(d) => new[k] = m[k]
    BY <2>1, <2>4
  <2> QED
    BY <2>2, <2>4, <2>5, <2>6 DEF LiveOK
<1> QED
  BY <1>1, <1>2

\* decisionsFromWire: a run of decisions touches the books it names only.
LEMMA WireKeeps ==
  ASSUME NEW l, LiveOK(l), NEW ds \in Seq(WireRows), NEW B, \A i \in DOMAIN ds : decisionBook(ds[i]) \in B
  PROVE  /\ LiveOK(decisionsFromWire(ds, l))
         /\ \A k \in BoardKeys : k[1] \notin B => decisionsFromWire(ds, l)[k] = l[k]
<1> DEFINE C == {m \in [BoardKeys -> BoardCards \cup {Undefined}] :
                   LiveOK(m) /\ \A k \in BoardKeys : k[1] \notin B => m[k] = l[k]}
           n == Len(ds)
<1>1. n \in Nat /\ DOMAIN ds = 1..n /\ \A i \in 1..n : ds[i] \in WireRows
  OBVIOUS
<1> HIDE DEF n
<1> DEFINE step(T, h) == IF T = {} THEN l ELSE Put(h[T \ {Greatest(T)}], ds[Greatest(T)])
           Carries(h) == h = [T \in SUBSET (1..n) |-> step(T, h)]
           run == CHOOSE h : Carries(h)
           g == [c \in (1..n) \X C |-> Put(c[2], ds[c[1]])]
<1>2. decisionsFromWire(ds, l) = run[1..n]
  BY <1>1 DEF decisionsFromWire, FoldLeft, MapThenFoldSet, Max, Greatest, Put
<1>3. l \in C
  BY DEF LiveOK
<1>4. ASSUME NEW k \in 1..n, NEW m \in C PROVE Put(m, ds[k]) \in C
  <2>1. ds[k] \in WireRows /\ decisionBook(ds[k]) \in B /\ LiveOK(m)
    BY <1>1
  <2> DEFINE new == Put(m, ds[k])
  <2>2. LiveOK(new) /\ \A c \in BoardKeys : c[1] # decisionBook(ds[k]) => new[c] = m[c]
    BY <2>1, PutKeeps
  <2> HIDE DEF new
  <2>3. new \in [BoardKeys -> BoardCards \cup {Undefined}]
    BY <2>2 DEF LiveOK
  <2>4. \A c \in BoardKeys : c[1] \notin B => new[c] = l[c]
    BY <2>1, <2>2
  <2>5. new \in C
    BY <2>2, <2>3, <2>4
  <2> QED
    BY <2>5 DEF new
<1> HIDE DEF C
<1>5. \E h : Carries(h)
  <2>1. g \in [(1..n) \X C -> C] /\ \A k \in 1..n, m \in C : g[<<k, m>>] = Put(m, ds[k])
    BY <1>4
  <2> HIDE DEF g
  <2>2. PICK h \in [SUBSET (1..n) -> C] : Folds(n, l, g, h)
    BY <1>1, <1>3, <2>1, FoldExists
  <2>3. ASSUME NEW T \in SUBSET (1..n), T # {}
        PROVE  g[<<Greatest(T), h[T \ {Greatest(T)}]>>] = Put(h[T \ {Greatest(T)}], ds[Greatest(T)])
    <3>1. \E j \in T : \A i \in T : j >= i
      BY <1>1, <2>3, GreatestNumber
    <3>2. Greatest(T) \in 1..n
      BY <2>3, <3>1 DEF Greatest
    <3>3. h[T \ {Greatest(T)}] \in C
      OBVIOUS
    <3> QED
      BY <2>1, <3>2, <3>3
  <2>4. Carries(h)
    BY <2>2, <2>3 DEF Folds
  <2> QED
    BY <2>4
<1>6. Carries(run)
  BY <1>5
<1> HIDE DEF run
<1>7. run[1..0] \in C
  <2>1. 1..0 = {} /\ 1..0 \in SUBSET (1..n)
    OBVIOUS
  <2> QED
    BY <1>3, <1>6, <2>1
<1>8. ASSUME NEW k \in 0..(n - 1), run[1..k] \in C PROVE run[1..(k + 1)] \in C
  <2>1. /\ k \in Nat /\ k + 1 \in 1..n /\ 1..(k + 1) \in SUBSET (1..n)
    BY <1>1
  <2>2. /\ 1..(k + 1) # {} /\ Greatest(1..(k + 1)) = k + 1
        /\ 1..(k + 1) \ {Greatest(1..(k + 1))} = 1..k
    BY <2>1, GreatestOfAll
  <2>3. run[1..(k + 1)] = Put(run[1..k], ds[k + 1])
    BY <1>6, <2>1, <2>2
  <2> QED
    BY <1>4, <1>8, <2>1, <2>3
<1> HIDE DEF Carries
<1>9. run[1..n] \in C
  BY <1>1, <1>7, <1>8, FoldStays
<1> QED
  BY <1>2, <1>9 DEF C

\* The cards of a book are what rests under its keys.
LEMMA MineIs ==
  ASSUME NEW l, LiveOK(l), NEW b \in BoardBooks
  PROVE  /\ \A d \in Mine(l, b) :
              \E s \in BoardSymbols : l[<<b, s>>] # Undefined /\ d = l[<<b, s>>] /\ d.symbol = s
         /\ \A s \in BoardSymbols : l[<<b, s>>] # Undefined => l[<<b, s>>] \in Mine(l, b)
<1>1. DOMAIN l = BoardKeys /\ \A k \in BoardKeys : l[k] # Undefined => <<l[k].book, l[k].symbol>> = k
  BY DEF LiveOK
<1>2. ASSUME NEW d \in Mine(l, b)
      PROVE  \E s \in BoardSymbols : l[<<b, s>>] # Undefined /\ d = l[<<b, s>>] /\ d.symbol = s
  <2>1. PICK k \in BoardKeys : l[k] # Undefined /\ d = l[k] /\ d.book = b
    BY <1>1 DEF Mine, Cards
  <2>2. PICK c \in BoardBooks, s \in BoardSymbols : k = <<c, s>>
    BY DEF BoardKeys
  <2>3. c = b /\ d.symbol = s
    BY <1>1, <2>1, <2>2
  <2> QED
    BY <2>1, <2>2, <2>3
<1>3. ASSUME NEW s \in BoardSymbols, l[<<b, s>>] # Undefined PROVE l[<<b, s>>] \in Mine(l, b)
  <2>1. <<b, s>> \in BoardKeys
    BY DEF BoardKeys
  <2>2. l[<<b, s>>].book = b
    BY <1>1, <1>3, <2>1
  <2> QED
    BY <1>1, <1>3, <2>1, <2>2 DEF Mine, Cards
<1> QED
  BY <1>2, <1>3

\* A card of a book is told by its symbol, and the cards of a book are finite.
LEMMA MineApart ==
  ASSUME NEW l, LiveOK(l), NEW b \in BoardBooks
  PROVE  /\ IsFiniteSet(Mine(l, b))
         /\ \A d \in Mine(l, b) : d.symbol \in BoardSymbols
         /\ \A d, e \in Mine(l, b) : d.symbol = e.symbol => d = e
<1>1. \A d \in Mine(l, b) :
        \E s \in BoardSymbols : l[<<b, s>>] # Undefined /\ d = l[<<b, s>>] /\ d.symbol = s
  BY MineIs
<1>3. \A d \in Mine(l, b) : \E s \in BoardSymbols : d = l[<<b, s>>] /\ d.symbol = s
  BY ONLY <1>1
<1> DEFINE f == [s \in BoardSymbols |-> l[<<b, s>>]]
           T == {f[s] : s \in BoardSymbols}
<1>4. f \in Surjection(BoardSymbols, T)
  BY DEF Surjection
<1>5. IsFiniteSet(T)
  BY <1>4, ShellAssumption, FS_Surjection
<1>6. Mine(l, b) \subseteq T
  BY <1>3
<1> HIDE DEF T
<1>7. IsFiniteSet(Mine(l, b))
  BY <1>5, <1>6, FS_Subset
<1>8. ASSUME NEW d \in Mine(l, b), NEW e \in Mine(l, b), d.symbol = e.symbol PROVE d = e
  <2>1. PICK s \in BoardSymbols : d = l[<<b, s>>] /\ d.symbol = s
    BY <1>3
  <2>2. PICK t \in BoardSymbols : e = l[<<b, t>>] /\ e.symbol = t
    BY <1>3
  <2> QED
    BY <1>8, <2>1, <2>2
<1>9. \A d \in Mine(l, b) : d.symbol \in BoardSymbols
  BY <1>3
<1> QED
  BY <1>7, <1>8, <1>9

\* decisionsFromLive: one row per card, so one per symbol.
LEMMA RowsApart ==
  ASSUME NEW l, LiveOK(l), NEW b \in BoardBooks
  PROVE  LET cards == decisionsFromLive(l, b) IN
         \A i, j \in DOMAIN cards : i # j => cards[i].symbol # cards[j].symbol
<1> DEFINE mine == Mine(l, b)
           key == MineKeys(l, b)
           cards == decisionsFromLive(l, b)
           n == Cardinality(BoardSymbols)
<1>1. cards = ByKey(mine, key)
  BY DEF decisionsFromLive, Mine, MineKeys
<1>2. n \in Nat /\ BoardSymbols = 1..n
  BY ShellAssumption, FS_CardinalityType
<1> HIDE DEF n
<1>3. ASSUME NEW d \in mine PROVE rank(d.action) \in {0, 1, 2} /\ d.symbol \in 1..n
                                  /\ key[d] = rank(d.action) * (n + 1) + d.symbol
  <2>1. d.symbol \in 1..n
    BY <1>2, MineApart
  <2>2. rank(d.action) \in {0, 1, 2}
    BY DEF rank
  <2>3. key[d] = rank(d.action) * (n + 1) + d.symbol
    BY DEF MineKeys, n
  <2> QED
    BY <2>1, <2>2, <2>3
<1>4. key \in [mine -> Int]
  <2>1. \A d \in mine : key[d] \in Int
    BY <1>2, <1>3
  <2>2. key = [d \in mine |-> key[d]]
    BY DEF MineKeys
  <2> QED
    BY <2>1, <2>2
<1>5. ASSUME NEW d \in mine, NEW e \in mine, key[d] = key[e] PROVE d = e
  <2> DEFINE r == rank(d.action)
             q == rank(e.action)
             s == d.symbol
             t == e.symbol
  <2>1. /\ r \in {0, 1, 2} /\ q \in {0, 1, 2} /\ s \in 1..n /\ t \in 1..n
        /\ r * (n + 1) + s = q * (n + 1) + t
    BY <1>3, <1>5
  <2> HIDE DEF r, q, s, t
  <2>2. s = t
    BY <1>2, <2>1
  <2> QED
    BY <2>2, MineApart DEF s, t
<1> HIDE DEF mine, key, cards
<1>6. IsFiniteSet(mine) /\ \A d, e \in mine : d.symbol = e.symbol => d = e
  BY MineApart DEF mine
<1>7. /\ cards \in [1..Cardinality(mine) -> mine]
      /\ \A j, k \in 1..Cardinality(mine) : j < k => key[cards[j]] < key[cards[k]]
  BY <1>1, <1>4, <1>5, <1>6, ByKeySorts
<1>8. ASSUME NEW i \in DOMAIN cards, NEW j \in DOMAIN cards, i # j PROVE cards[i].symbol # cards[j].symbol
  <2>1. /\ i \in 1..Cardinality(mine) /\ j \in 1..Cardinality(mine)
        /\ cards[i] \in mine /\ cards[j] \in mine
    BY <1>7
  <2>2. i < j \/ j < i
    BY <1>8, <2>1
  <2>3. key[cards[i]] \in Int /\ key[cards[j]] \in Int
    BY <1>4, <2>1
  <2>4. cards[i] # cards[j]
    BY <1>7, <2>1, <2>2, <2>3
  <2> QED
    BY <1>6, <2>1, <2>4
<1> QED
  BY <1>8 DEF cards

BoardInv == LiveOK(live)

LEMMA BoardStart == BoardInit => BoardInv
BY DEF BoardInit, BoardInv, LiveOK, BoardKeys

LEMMA WireIsTyped ==
  ASSUME NEW ds \in WireDecisions
  PROVE  ds \in Seq(WireRows)
BY ShellAssumption DEF WireRows

LEMMA BoardStep == BoardInv /\ [BoardNext]_boardVars => BoardInv'
<1> SUFFICES ASSUME BoardInv, [BoardNext]_boardVars PROVE BoardInv'
  OBVIOUS
<1>1. ASSUME NEW ds \in WireDecisions, live' = decisionsFromWire(ds, live) PROVE BoardInv'
  <2>1. LiveOK(decisionsFromWire(ds, live))
    <3>1. \A i \in DOMAIN ds : decisionBook(ds[i]) \in {decisionBook(ds[j]) : j \in DOMAIN ds}
      OBVIOUS
    <3> QED
      BY <3>1, WireIsTyped, WireKeeps DEF BoardInv
  <2> QED
    BY <1>1, <2>1 DEF BoardInv, LiveOK
<1>2. ASSUME UNCHANGED live PROVE BoardInv'
  BY <1>2 DEF BoardInv, LiveOK
<1> QED
  BY <1>1, <1>2 DEF BoardNext, boardVars, Envelope, CognitionChanges, ChooseLedger

LEMMA BooksStayApart == BoardInv => BooksDoNotMix
<1> SUFFICES ASSUME BoardInv PROVE BooksDoNotMix
  OBVIOUS
<1>1. ASSUME NEW b \in BoardBooks, NEW ds \in WireDecisions, \A i \in DOMAIN ds : decisionBook(ds[i]) # b
      PROVE  decisionsFromLive(decisionsFromWire(ds, live), b) = decisionsFromLive(live, b)
  <2> DEFINE new == decisionsFromWire(ds, live)
             B == {decisionBook(ds[i]) : i \in DOMAIN ds}
  <2>1. b \notin B /\ \A i \in DOMAIN ds : decisionBook(ds[i]) \in B
    BY <1>1
  <2>2. ds \in Seq(WireRows)
    BY WireIsTyped
  <2> HIDE DEF B
  <2>3. LiveOK(new) /\ \A k \in BoardKeys : k[1] \notin B => new[k] = live[k]
    BY <2>1, <2>2, WireKeeps DEF BoardInv
  <2> HIDE DEF new
  <2>4. \A s \in BoardSymbols : new[<<b, s>>] = live[<<b, s>>]
    <3>1. \A s \in BoardSymbols : <<b, s>> \in BoardKeys /\ <<b, s>>[1] = b
      BY DEF BoardKeys
    <3> QED
      BY <2>1, <2>3, <3>1
  <2>5. Mine(new, b) = Mine(live, b)
    <3>1. ASSUME NEW d \in Mine(new, b) PROVE d \in Mine(live, b)
      <4>1. PICK s \in BoardSymbols : new[<<b, s>>] # Undefined /\ d = new[<<b, s>>]
        BY <2>3, MineIs DEF BoardInv
      <4>2. d = live[<<b, s>>] /\ live[<<b, s>>] # Undefined
        BY <2>4, <4>1
      <4>3. live[<<b, s>>] \in Mine(live, b)
        BY <2>3, <4>2, MineIs DEF BoardInv
      <4> QED
        BY <4>2, <4>3
    <3>2. ASSUME NEW d \in Mine(live, b) PROVE d \in Mine(new, b)
      <4>1. PICK s \in BoardSymbols : live[<<b, s>>] # Undefined /\ d = live[<<b, s>>]
        BY <2>3, MineIs DEF BoardInv
      <4>2. d = new[<<b, s>>] /\ new[<<b, s>>] # Undefined
        BY <2>4, <4>1
      <4>3. new[<<b, s>>] \in Mine(new, b)
        BY <2>3, <4>2, MineIs DEF BoardInv
      <4> QED
        BY <4>2, <4>3
    <3> QED
      BY <3>1, <3>2
  <2>6. decisionsFromLive(new, b) = decisionsFromLive(live, b)
    BY <2>5 DEF decisionsFromLive, Mine
  <2> QED
    BY <2>6 DEF new
<1>2. \A b \in BoardBooks : LET cards == decisionsFromLive(live, b) IN
        \A i, j \in DOMAIN cards : i # j => cards[i].symbol # cards[j].symbol
  BY RowsApart DEF BoardInv
<1> QED
  BY <1>1, <1>2 DEF BooksDoNotMix

ShellInv == LabInv /\ PaletteInv /\ BoardInv

LEMMA ShellAnswers == ShellInv => ShellIsTrue
BY HighlightMoves, BooksStayApart DEF ShellInv, LabInv, ShellIsTrue

-----------------------------------------------------------------------------
(* The path book: PathBook. *)

BookForm(b) == b = [epoch |-> b.epoch, keys |-> b.keys, thresholds |-> b.thresholds]

\* Nothing a book holds fails the filter.
BookKeeps(b) == \A k \in b.keys \cup DOMAIN b.thresholds : explorePathKept(k, b.thresholds)

BookOK == BookForm(book) /\ BookKeeps(book)

LEMMA BookShape ==
  ASSUME NEW b, NEW e, NEW ks, NEW t, b = [epoch |-> e, keys |-> ks, thresholds |-> t]
  PROVE  BookForm(b) /\ b.epoch = e /\ b.keys = ks /\ b.thresholds = t
BY DEF BookForm

\* The filter looks at the key's own threshold.
LEMMA KeptSame ==
  ASSUME NEW k, NEW f, NEW g, k \in DOMAIN f <=> k \in DOMAIN g, k \in DOMAIN f => f[k] = g[k]
  PROVE  explorePathKept(k, f) <=> explorePathKept(k, g)
BY DEF explorePathKept

LEMMA OverIs ==
  ASSUME NEW f, NEW g
  PROVE  /\ DOMAIN Over(f, g) = DOMAIN f \cup DOMAIN g
         /\ \A k \in DOMAIN f \cup DOMAIN g : Over(f, g)[k] = IF k \in DOMAIN g THEN g[k] ELSE f[k]
BY DEF Over

LEMMA RestrictIs ==
  ASSUME NEW f, NEW S
  PROVE  DOMAIN Restrict(f, S) = S /\ \A k \in S : Restrict(f, S)[k] = f[k]
BY DEF Restrict

\* pathsListingFromEnvelope: a listing with nothing in it to be pruned.
LEMMA ListingIs ==
  ASSUME NEW l \in Listings
  PROVE  LET c == pathsListingFromEnvelope(l) IN
         /\ c.epoch = l.epoch
         /\ c.keys = filterExploreKeys(l.keys, l.thresholds)
         /\ DOMAIN c.thresholds = c.keys \cap DOMAIN l.thresholds
         /\ \A k \in DOMAIN c.thresholds : c.thresholds[k] = l.thresholds[k]
         /\ BookKeeps(c)
<1> DEFINE c == pathsListingFromEnvelope(l)
           left == filterExploreKeys(l.keys, l.thresholds)
<1>1. PICK e, ks, t : l = [epoch |-> e, keys |-> ks, thresholds |-> t]
  BY DEF Listings
<1>2. c = [epoch |-> l.epoch, keys |-> left, thresholds |-> Restrict(l.thresholds, left \cap DOMAIN l.thresholds)]
  <2> DEFINE first == [l EXCEPT !.keys = left]
  <2>1. first = [epoch |-> e, keys |-> left, thresholds |-> t]
    BY <1>1
  <2>2. c = [first EXCEPT !.thresholds = Restrict(@, left \cap DOMAIN @)]
    BY DEF pathsListingFromEnvelope
  <2>3. l.epoch = e /\ l.thresholds = t
    BY <1>1
  <2> HIDE DEF left, first, c
  <2>4. c = [epoch |-> e, keys |-> left, thresholds |-> Restrict(t, left \cap DOMAIN t)]
    BY <2>1, <2>2
  <2> QED
    BY <2>3, <2>4
<1> HIDE DEF c
<1>3. c.epoch = l.epoch /\ c.keys = left /\ c.thresholds = Restrict(l.thresholds, left \cap DOMAIN l.thresholds)
  BY <1>2, BookShape
<1>4. \A k \in left : explorePathKept(k, l.thresholds)
  BY DEF filterExploreKeys
<1> HIDE DEF left
<1>5. /\ DOMAIN c.thresholds = left \cap DOMAIN l.thresholds
      /\ \A k \in DOMAIN c.thresholds : c.thresholds[k] = l.thresholds[k]
  BY <1>3, RestrictIs
<1>6. ASSUME NEW k \in left PROVE explorePathKept(k, c.thresholds)
  <2>1. k \in DOMAIN c.thresholds <=> k \in DOMAIN l.thresholds
    BY <1>5
  <2>2. k \in DOMAIN c.thresholds => c.thresholds[k] = l.thresholds[k]
    BY <1>5
  <2> QED
    BY <1>4, <2>1, <2>2, KeptSame
<1>7. BookKeeps(c)
  BY <1>3, <1>5, <1>6 DEF BookKeeps
<1> QED
  BY <1>3, <1>5, <1>7 DEF c, left

\* A threshold that a frame does not bring stands.
LEMMA OverKeeps ==
  ASSUME NEW f, NEW g, NEW k,
         k \in DOMAIN f => explorePathKept(k, f), k \in DOMAIN g => explorePathKept(k, g)
  PROVE  k \in DOMAIN Over(f, g) => explorePathKept(k, Over(f, g))
<1> DEFINE h == Over(f, g)
<1>1. /\ DOMAIN h = DOMAIN f \cup DOMAIN g
      /\ k \in DOMAIN f \cup DOMAIN g => h[k] = IF k \in DOMAIN g THEN g[k] ELSE f[k]
  BY OverIs
<1> HIDE DEF h
<1>2. CASE k \in DOMAIN g
  <2>1. explorePathKept(k, h) <=> explorePathKept(k, g)
    BY <1>1, <1>2, KeptSame
  <2> QED
    BY <1>2, <2>1 DEF h
<1>3. CASE k \notin DOMAIN g /\ k \in DOMAIN f
  <2>1. explorePathKept(k, h) <=> explorePathKept(k, f)
    BY <1>1, <1>3, KeptSame
  <2> QED
    BY <1>3, <2>1 DEF h
<1> QED
  BY <1>1, <1>2, <1>3 DEF h

LEMMA UnionKeeps ==
  ASSUME NEW b, BookKeeps(b), NEW c, BookKeeps(c)
  PROVE  BookForm(ingestExploreListPrefix(b, c)) /\ BookKeeps(ingestExploreListPrefix(b, c))
<1> DEFINE r == ingestExploreListPrefix(b, c)
           thr == Over(b.thresholds, c.thresholds)
<1>1. r = [epoch |-> IF c.epoch = NoneYet THEN b.epoch ELSE c.epoch,
           keys |-> filterExploreKeys(b.keys \cup c.keys, thr), thresholds |-> thr]
  BY DEF ingestExploreListPrefix
<1> HIDE DEF r
<1>2. BookForm(r) /\ r.keys = filterExploreKeys(b.keys \cup c.keys, thr) /\ r.thresholds = thr
  BY <1>1, BookShape
<1>3. ASSUME NEW k \in DOMAIN thr PROVE explorePathKept(k, thr)
  BY OverKeeps DEF BookKeeps
<1> HIDE DEF thr
<1>4. \A k \in r.keys : explorePathKept(k, thr)
  BY <1>2 DEF filterExploreKeys
<1> QED
  BY <1>2, <1>3, <1>4 DEF BookKeeps, r

LEMMA BookStart == BookInit => BookOK
<1> SUFFICES ASSUME BookInit PROVE BookOK
  OBVIOUS
<1>1. book = [epoch |-> 0, keys |-> {}, thresholds |-> <<>>]
  BY DEF BookInit
<1>2. BookForm(book) /\ book.keys = {} /\ book.thresholds = <<>>
  BY <1>1, BookShape
<1>3. DOMAIN <<>> = {}
  OBVIOUS
<1> QED
  BY <1>2, <1>3 DEF BookOK, BookKeeps

LEMMA BookStep == BookOK /\ [BookNext]_bookVars => BookOK'
<1> SUFFICES ASSUME BookOK, [BookNext]_bookVars PROVE BookOK'
  OBVIOUS
<1>1. BookForm(book) /\ BookKeeps(book)
  BY DEF BookOK
<1>2. ASSUME NEW b, book' = b, BookForm(b), BookKeeps(b) PROVE BookOK'
  BY <1>2 DEF BookOK, BookForm, BookKeeps
<1> DEFINE e0 == book.epoch
           k0 == book.keys
           t0 == book.thresholds
<1>3. book = [epoch |-> e0, keys |-> k0, thresholds |-> t0]
  BY <1>1 DEF BookForm
<1>4. ASSUME NEW e, NEW ks, book' = [epoch |-> e, keys |-> ks, thresholds |-> t0],
             \A k \in ks : explorePathKept(k, t0)
      PROVE  BookOK'
  <2> DEFINE b == [epoch |-> e, keys |-> ks, thresholds |-> t0]
  <2>1. BookForm(b) /\ b.keys = ks /\ b.thresholds = t0
    BY BookShape
  <2> HIDE DEF b
  <2>2. BookKeeps(b)
    BY <1>1, <1>4, <2>1 DEF BookKeeps
  <2> QED
    BY <1>2, <1>4, <2>1, <2>2 DEF b
<1>5. CASE PathsArrive
  <2>1. PICK l \in Listings : book' = ingestExploreListPrefix(book, pathsListingFromEnvelope(l))
    BY <1>5 DEF PathsArrive
  <2>2. BookKeeps(pathsListingFromEnvelope(l))
    BY ListingIs
  <2> QED
    BY <1>1, <1>2, <2>1, <2>2, UnionKeeps
<1>6. CASE TreeMounts
  <2> DEFINE ks == k0 \ OnTrie(k0)
  <2>1. book' = [book EXCEPT !.keys = ks]
    BY <1>6 DEF TreeMounts
  <2>2. \A k \in ks : explorePathKept(k, t0)
    BY <1>1 DEF BookKeeps
  <2> HIDE DEF ks, e0, k0, t0
  <2>3. book' = [epoch |-> e0, keys |-> ks, thresholds |-> t0]
    BY <1>3, <2>1
  <2> QED
    BY <1>4, <2>2, <2>3
<1>7. CASE ingestPolicyKeys
  <2>1. PICK sent, e : book' = [book EXCEPT !.epoch = IF e = NoneYet THEN @ ELSE e,
                                           !.keys = filterExploreKeys(OnTrie(sent), book.thresholds)]
    BY <1>7 DEF ingestPolicyKeys
  <2> DEFINE e1 == IF e = NoneYet THEN e0 ELSE e
             ks == filterExploreKeys(OnTrie(sent), t0)
             dated == [book EXCEPT !.epoch = e1]
  <2>2. book' = [dated EXCEPT !.keys = ks]
    BY <2>1
  <2>3. \A k \in ks : explorePathKept(k, t0)
    BY DEF filterExploreKeys
  <2> HIDE DEF ks, e1, e0, k0, t0
  <2>4. dated = [epoch |-> e1, keys |-> k0, thresholds |-> t0]
    BY <1>3
  <2> HIDE DEF dated
  <2>5. book' = [epoch |-> e1, keys |-> ks, thresholds |-> t0]
    BY <2>2, <2>4
  <2> QED
    BY <1>4, <2>3, <2>5
<1>8. CASE TreeFrame
  <2>1. PICK sent, e : book' = [book EXCEPT !.epoch = e, !.keys = filterExploreKeys(sent, book.thresholds)]
    BY <1>8 DEF TreeFrame
  <2> DEFINE ks == filterExploreKeys(sent, t0)
             dated == [book EXCEPT !.epoch = e]
  <2>2. book' = [dated EXCEPT !.keys = ks]
    BY <2>1
  <2>3. \A k \in ks : explorePathKept(k, t0)
    BY DEF filterExploreKeys
  <2> HIDE DEF ks, e0, k0, t0
  <2>4. dated = [epoch |-> e, keys |-> k0, thresholds |-> t0]
    BY <1>3
  <2> HIDE DEF dated
  <2>5. book' = [epoch |-> e, keys |-> ks, thresholds |-> t0]
    BY <2>2, <2>4
  <2> QED
    BY <1>4, <2>3, <2>5
<1>9. CASE ingestPolicyLayers
  <2>1. PICK l \in Listings :
          LET keys == OnTrie(l.keys)
              thr == Restrict(l.thresholds, keys \cap DOMAIN l.thresholds)
              left == filterExploreKeys(keys, thr)
              outside == {k \in DOMAIN book.thresholds : k.home # "model/paths"}
          IN  book' = [epoch |-> l.epoch, keys |-> left,
                       thresholds |-> Over(Restrict(book.thresholds, outside),
                                           Restrict(thr, left \cap DOMAIN thr))]
    BY <1>9 DEF ingestPolicyLayers
  <2> DEFINE keys == OnTrie(l.keys)
             thr == Restrict(l.thresholds, keys \cap DOMAIN l.thresholds)
             left == filterExploreKeys(keys, thr)
             outside == {k \in DOMAIN t0 : k.home # "model/paths"}
             f == Restrict(t0, outside)
             g == Restrict(thr, left \cap DOMAIN thr)
             new == [epoch |-> l.epoch, keys |-> left, thresholds |-> Over(f, g)]
  <2>2. book' = new
    BY <2>1
  <2>3. BookForm(new) /\ new.keys = left /\ new.thresholds = Over(f, g)
    BY BookShape
  <2>4. (\A k \in left : k.home = "model/paths" /\ explorePathKept(k, thr))
        /\ \A k \in outside : k.home # "model/paths"
    BY DEF filterExploreKeys, OnTrie
  <2>5. /\ DOMAIN f = outside
        /\ DOMAIN g = left \cap DOMAIN thr /\ \A k \in left \cap DOMAIN thr : g[k] = thr[k]
    BY RestrictIs
  <2> HIDE DEF new, thr, left, outside, f, g
  <2>6. ASSUME NEW k \in left PROVE explorePathKept(k, g) /\ k \notin DOMAIN f
    <3>1. k \in DOMAIN g <=> k \in DOMAIN thr
      BY <2>5
    <3>2. k \in DOMAIN g => g[k] = thr[k]
      BY <2>5
    <3>3. explorePathKept(k, g) <=> explorePathKept(k, thr)
      BY <3>1, <3>2, KeptSame
    <3> QED
      BY <2>4, <2>5, <3>3
  <2>7. ASSUME NEW k \in DOMAIN f PROVE explorePathKept(k, f)
    BY <2>4, <2>5 DEF explorePathKept
  <2>8. \A k \in DOMAIN Over(f, g) : explorePathKept(k, Over(f, g))
    BY <2>5, <2>6, <2>7, OverKeeps
  <2>9. ASSUME NEW k \in left, k \notin DOMAIN Over(f, g) PROVE explorePathKept(k, Over(f, g))
    BY <2>9 DEF explorePathKept
  <2>10. BookKeeps(new)
    BY <2>3, <2>8, <2>9 DEF BookKeeps
  <2> QED
    BY <1>2, <2>2, <2>3, <2>10
<1>10. CASE UNCHANGED bookVars
  BY <1>1, <1>2, <1>10 DEF bookVars
<1> QED
  BY <1>5, <1>6, <1>7, <1>8, <1>9, <1>10 DEF BookNext

LEMMA ShownKept == BookOK => ShownIsKept
<1> SUFFICES ASSUME BookOK PROVE ShownIsKept
  OBVIOUS
<1>1. \A k \in book.keys \cup DOMAIN book.thresholds : explorePathKept(k, book.thresholds)
  BY DEF BookOK, BookKeeps
<1> QED
  BY <1>1 DEF ShownIsKept, explorePathKept

\* Two frames that agree where they overlap, taken into a book that has nothing to prune.
LEMMA TwoFrames ==
  ASSUME NEW b, BookKeeps(b), NEW x, NEW y,
         x.keys \subseteq DOMAIN x.thresholds, x.epoch = NoneYet, y.epoch = NoneYet,
         \A k \in DOMAIN x.thresholds \cap DOMAIN y.thresholds : x.thresholds[k] = y.thresholds[k]
  PROVE  LET thr == Over(Over(b.thresholds, x.thresholds), y.thresholds) IN
         ingestExploreListPrefix(ingestExploreListPrefix(b, x), y)
           = [epoch |-> b.epoch,
              keys |-> {k \in b.keys \cup x.keys \cup y.keys : explorePathKept(k, thr)},
              thresholds |-> thr]
<1> DEFINE one == ingestExploreListPrefix(b, x)
           thr1 == Over(b.thresholds, x.thresholds)
           thr == Over(thr1, y.thresholds)
           keys1 == filterExploreKeys(b.keys \cup x.keys, thr1)
<1>1. one = [epoch |-> b.epoch, keys |-> keys1, thresholds |-> thr1]
  BY DEF ingestExploreListPrefix
<1>2. one.epoch = b.epoch /\ one.keys = keys1 /\ one.thresholds = thr1
  BY <1>1, BookShape
<1> HIDE DEF one
<1>3. ingestExploreListPrefix(one, y)
        = [epoch |-> b.epoch, keys |-> filterExploreKeys(keys1 \cup y.keys, thr), thresholds |-> thr]
  BY <1>2 DEF ingestExploreListPrefix
<1>4. /\ DOMAIN thr1 = DOMAIN b.thresholds \cup DOMAIN x.thresholds
      /\ \A k \in DOMAIN b.thresholds \cup DOMAIN x.thresholds :
           thr1[k] = IF k \in DOMAIN x.thresholds THEN x.thresholds[k] ELSE b.thresholds[k]
  BY OverIs
<1> HIDE DEF thr1
<1>5. /\ DOMAIN thr = DOMAIN thr1 \cup DOMAIN y.thresholds
      /\ \A k \in DOMAIN thr1 \cup DOMAIN y.thresholds :
           thr[k] = IF k \in DOMAIN y.thresholds THEN y.thresholds[k] ELSE thr1[k]
  BY OverIs
<1> HIDE DEF thr
<1>6. ASSUME NEW k \in b.keys \cup x.keys, explorePathKept(k, thr) PROVE explorePathKept(k, thr1)
  <2>1. CASE k \in DOMAIN x.thresholds
    <3>1. k \in DOMAIN thr1 /\ k \in DOMAIN thr /\ thr1[k] = thr[k]
      BY <1>4, <1>5, <2>1
    <3> QED
      BY <1>6, <3>1, KeptSame
  <2>2. CASE k \notin DOMAIN x.thresholds
    <3>1. k \in b.keys /\ explorePathKept(k, b.thresholds)
      BY <2>2 DEF BookKeeps
    <3>2. k \in DOMAIN thr1 <=> k \in DOMAIN b.thresholds
      BY <1>4, <2>2
    <3>3. k \in DOMAIN thr1 => thr1[k] = b.thresholds[k]
      BY <1>4, <2>2
    <3> QED
      BY <3>1, <3>2, <3>3, KeptSame
  <2> QED
    BY <2>1, <2>2
<1>7. filterExploreKeys(keys1 \cup y.keys, thr)
        = {k \in b.keys \cup x.keys \cup y.keys : explorePathKept(k, thr)}
  BY <1>6 DEF filterExploreKeys
<1> QED
  BY <1>3, <1>7 DEF one, thr, thr1

LEMMA OrderFree == BookOK => FramesCommute
<1> SUFFICES ASSUME BookOK, NEW l1 \in Frames, NEW l2 \in Frames,
                    LET c1 == pathsListingFromEnvelope(l1)
                        c2 == pathsListingFromEnvelope(l2)
                    IN  \A k \in DOMAIN c1.thresholds \cap DOMAIN c2.thresholds :
                          c1.thresholds[k] = c2.thresholds[k]
             PROVE  LET c1 == pathsListingFromEnvelope(l1)
                        c2 == pathsListingFromEnvelope(l2)
                    IN  ingestExploreListPrefix(ingestExploreListPrefix(book, c1), c2)
                        = ingestExploreListPrefix(ingestExploreListPrefix(book, c2), c1)
  BY DEF FramesCommute
<1> DEFINE x == pathsListingFromEnvelope(l1)
           y == pathsListingFromEnvelope(l2)
<1>1. BookKeeps(book)
  BY DEF BookOK
<1>2. ASSUME NEW l \in Frames
      PROVE  LET c == pathsListingFromEnvelope(l) IN
             c.epoch = NoneYet /\ c.keys \subseteq DOMAIN c.thresholds
  <2>1. l \in Listings /\ l.epoch = NoneYet /\ DOMAIN l.thresholds = l.keys
    BY DEF Frames
  <2>2. filterExploreKeys(l.keys, l.thresholds) \subseteq l.keys
    BY DEF filterExploreKeys
  <2> QED
    BY <2>1, <2>2, ListingIs
<1>3. /\ x.epoch = NoneYet /\ x.keys \subseteq DOMAIN x.thresholds
      /\ y.epoch = NoneYet /\ y.keys \subseteq DOMAIN y.thresholds
  BY <1>2
<1>4. \A k \in DOMAIN x.thresholds \cap DOMAIN y.thresholds : x.thresholds[k] = y.thresholds[k]
  OBVIOUS
<1> HIDE DEF x, y
<1> DEFINE tx == Over(Over(book.thresholds, x.thresholds), y.thresholds)
           ty == Over(Over(book.thresholds, y.thresholds), x.thresholds)
<1>5. tx = ty
  BY <1>4 DEF Over
<1>6. ingestExploreListPrefix(ingestExploreListPrefix(book, x), y)
        = [epoch |-> book.epoch,
           keys |-> {k \in book.keys \cup x.keys \cup y.keys : explorePathKept(k, tx)}, thresholds |-> tx]
  BY <1>1, <1>3, <1>4, TwoFrames
<1>7. ingestExploreListPrefix(ingestExploreListPrefix(book, y), x)
        = [epoch |-> book.epoch,
           keys |-> {k \in book.keys \cup y.keys \cup x.keys : explorePathKept(k, ty)}, thresholds |-> ty]
  BY <1>1, <1>3, <1>4, TwoFrames
<1> HIDE DEF tx, ty
<1>8. {k \in book.keys \cup x.keys \cup y.keys : explorePathKept(k, tx)}
        = {k \in book.keys \cup y.keys \cup x.keys : explorePathKept(k, ty)}
  BY <1>5
<1> QED
  BY <1>5, <1>6, <1>7, <1>8 DEF x, y

-----------------------------------------------------------------------------
(* The rings of regions: PathBook. *)

RingRows == [tick : 1..MaxStep, row : [Sectors -> Brightness \cup {NoneYet}]]

RingOK(r) ==
  /\ Len(r) <= MaxRing
  /\ \A i \in 2..Len(r) : Lit(r[i - 1].row) \subseteq Lit(r[i].row) /\ r[i].tick # r[i - 1].tick

RingsInv == rings \in [KnownSymbols -> {r \in Seq(RingRows) : RingOK(r)}]

\* The last of some numbers from 1 to n.
LEMMA LastOf ==
  ASSUME NEW n \in Nat, NEW S, S \subseteq 1..n, S # {}
  PROVE  Max(S) \in S
<1>1. \E j \in S : \A i \in S : j >= i
  BY GreatestNumber
<1> QED
  BY <1>1 DEF Max

\* noteRegions: one row more or the last one again, at least as lit.
LEMMA Noted ==
  ASSUME NEW ring \in Seq(RingRows), RingOK(ring), NEW tick \in 1..MaxStep, NEW tokens,
         NEW n \in Nat, NEW vs \in [1..n -> Brightness]
  PROVE  LET new == noteRegions(ring, tick, tokens, vs) IN new \in Seq(RingRows) /\ RingOK(new)
<1> DEFINE L == Len(ring)
           same == ring # <<>> /\ Last(ring).tick = tick
           before == IF ring = <<>> THEN [s \in Sectors |-> NoneYet] ELSE Last(ring).row
           at(s) == {i \in DOMAIN tokens \cap DOMAIN vs : tokens[i] = s}
           row == [s \in Sectors |-> IF at(s) = {} THEN before[s] ELSE vs[Max(at(s))]]
           d == IF same THEN 0 ELSE Max({1, L - MaxRing + 2}) - 1
           m == IF same THEN L - 1 ELSE L - d
           left == IF same THEN Front(ring) ELSE SubSeq(ring, Max({1, L - MaxRing + 2}), L)
           top == [tick |-> tick, row |-> row]
           new == Append(left, top)
<1>1. noteRegions(ring, tick, tokens, vs) = new
  BY DEF noteRegions
<1>2. L \in Nat /\ (L = 0 <=> ring = <<>>) /\ \A i \in 1..L : ring[i] \in RingRows
  OBVIOUS
<1>3. Last(ring) = ring[L]
  BY DEF Last
<1>4. before \in [Sectors -> Brightness \cup {NoneYet}]
  <2>1. CASE ring = <<>>
    BY <2>1
  <2>2. CASE ring # <<>>
    <3>1. L \in 1..L
      BY <1>2, <2>2
    <3>2. ring[L] \in RingRows
      BY <1>2, <3>1
    <3> QED
      BY <1>3, <2>2, <3>2 DEF RingRows
  <2> QED
    BY <2>1, <2>2
<1>5. ASSUME NEW s \in Sectors, at(s) # {} PROVE vs[Max(at(s))] \in Brightness
  <2>1. at(s) \subseteq 1..n
    OBVIOUS
  <2> HIDE DEF at
  <2>2. Max(at(s)) \in 1..n
    BY <1>5, <2>1, LastOf
  <2> QED
    BY <2>2
<1> HIDE DEF before, at
<1>6. row \in [Sectors -> Brightness \cup {NoneYet}]
  BY <1>4, <1>5
<1>7. Lit(before) \subseteq Lit(row)
  BY <1>5, PathAssumption DEF Lit
<1>8. top \in RingRows /\ top.tick = tick /\ top.row = row
  BY <1>6 DEF RingRows
<1> HIDE DEF row, top
<1>9. MaxRing \in Nat /\ MaxRing > 1 /\ L <= MaxRing
  BY PathAssumption DEF RingOK
<1>10. Max({1, L - MaxRing + 2}) = IF 1 >= L - MaxRing + 2 THEN 1 ELSE L - MaxRing + 2
  BY <1>2, <1>9, MaxPair
<1>11. /\ d \in Nat /\ m \in Nat /\ m <= MaxRing - 1 /\ m + d = IF same THEN L - 1 ELSE L
  <2> HIDE DEF same
  <2>1. same => L >= 1
    BY <1>2 DEF same
  <2> QED
    BY <1>2, <1>9, <1>10, <2>1
<1>12. left \in Seq(RingRows) /\ Len(left) = m /\ \A i \in 1..m : left[i] = ring[i + d]
  <2>1. CASE same
    <3>1. L >= 1 /\ left = SubSeq(ring, 1, L - 1) /\ d = 0 /\ m = L - 1
      BY <1>2, <2>1 DEF Front
    <3> HIDE DEF left, d, m, L
    <3>2. \A i \in 1..(L - 1) : i \in 1..L
      BY <1>2
    <3>3. SubSeq(ring, 1, L - 1) = [i \in 1..(L - 1) |-> ring[i]]
      BY <1>2, <3>1
    <3>4. SubSeq(ring, 1, L - 1) \in Seq(RingRows) /\ Len(SubSeq(ring, 1, L - 1)) = L - 1
      BY <1>2, <3>1, <3>2, SubSeqProperties DEF L
    <3> QED
      BY <1>2, <3>1, <3>3, <3>4
  <2>2. CASE ~same
    <3> DEFINE a == Max({1, L - MaxRing + 2})
    <3>1. a \in Nat /\ a >= 1 /\ left = SubSeq(ring, a, L) /\ d = a - 1 /\ m = L - (a - 1)
      <4>1. left = SubSeq(ring, a, L) /\ d = a - 1 /\ m = L - (a - 1)
        BY <2>2
      <4> HIDE DEF left, d, m, same
      <4>2. a \in Nat /\ a >= 1
        BY <1>2, <1>9, <1>10
      <4> QED
        BY <4>1, <4>2
    <3> HIDE DEF left, d, m, a, same
    <3>2. a <= L + 1
      BY <1>2, <1>9, <1>11, <3>1, <2>2
    <3>3. SubSeq(ring, a, L) \in Seq(RingRows) /\ Len(SubSeq(ring, a, L)) = L - a + 1
          /\ \A i \in 1..(L - a + 1) : SubSeq(ring, a, L)[i] = ring[a + i - 1]
      BY <1>2, <3>1, <3>2, SubSeqProperties
    <3> QED
      BY <1>2, <3>1, <3>3
  <2> QED
    BY <2>1, <2>2
<1> HIDE DEF left, m, d
<1>13. new \in Seq(RingRows) /\ Len(new) = m + 1 /\ new[m + 1] = top /\ \A i \in 1..m : new[i] = ring[i + d]
  BY <1>8, <1>11, <1>12
<1> HIDE DEF new
<1>14. ASSUME NEW i \in 2..L PROVE Lit(ring[i - 1].row) \subseteq Lit(ring[i].row) /\ ring[i].tick # ring[i - 1].tick
  BY DEF RingOK
<1>15. ASSUME NEW i \in 2..(m + 1)
       PROVE  Lit(new[i - 1].row) \subseteq Lit(new[i].row) /\ new[i].tick # new[i - 1].tick
  <2>1. CASE i <= m
    <3>1. i \in 1..m /\ i - 1 \in 1..m /\ i + d \in 2..L /\ (i - 1) + d = (i + d) - 1
      BY <1>2, <1>11, <2>1
    <3>2. new[i] = ring[i + d] /\ new[i - 1] = ring[(i + d) - 1]
      BY <1>13, <3>1
    <3> QED
      BY <1>14, <3>1, <3>2
  <2>2. CASE i = m + 1
    <3>1. m \in 1..m /\ i - 1 = m /\ new[i] = top /\ new[i - 1] = ring[m + d]
      BY <1>11, <1>13, <2>2
    <3>2. L >= 1 /\ ring # <<>>
      BY <1>2, <1>11, <3>1
    <3>3. before = ring[L].row
      BY <1>3, <3>2 DEF before
    <3>4. CASE same
      <4>1. m + d = L - 1 /\ L \in 2..L
        BY <1>2, <1>11, <3>1, <3>4
      <4>2. Lit(ring[L - 1].row) \subseteq Lit(ring[L].row) /\ ring[L].tick # ring[L - 1].tick
        BY <1>14, <4>1
      <4>3. ring[L].tick = tick
        BY <1>3, <3>4
      <4> QED
        BY <1>7, <1>8, <3>1, <3>3, <4>1, <4>2, <4>3
    <3>5. CASE ~same
      <4>1. m + d = L
        BY <1>11, <3>5
      <4>2. ring[L].tick # tick
        BY <1>3, <3>2, <3>5
      <4> QED
        BY <1>7, <1>8, <3>1, <3>3, <4>1, <4>2
    <3> QED
      BY <3>4, <3>5
  <2>3. i <= m \/ i = m + 1
    BY <1>11
  <2> QED
    BY <2>1, <2>2, <2>3
<1>16. RingOK(new)
  <2>1. Len(new) = m + 1 /\ Len(new) <= MaxRing
    BY <1>9, <1>11, <1>13
  <2> QED
    BY <1>15, <2>1 DEF RingOK
<1> QED
  BY <1>1, <1>13, <1>16

LEMMA RingsStart == RegionInit => RingsInv
<1> SUFFICES ASSUME RegionInit PROVE RingsInv
  OBVIOUS
<1>1. <<>> \in Seq(RingRows) /\ Len(<<>>) = 0
  OBVIOUS
<1>2. RingOK(<<>>)
  BY <1>1, PathAssumption DEF RingOK
<1> QED
  BY <1>1, <1>2 DEF RegionInit, RingsInv

LEMMA RingsStep == RingsInv /\ [RegionNext]_regionVars => RingsInv'
<1> SUFFICES ASSUME RingsInv, [RegionNext]_regionVars PROVE RingsInv'
  OBVIOUS
<1>1. ASSUME UNCHANGED rings PROVE RingsInv'
  BY <1>1 DEF RingsInv, RingOK, Lit
<1>2. CASE ingestTrainRegions
  <2>1. PICK tail \in IndexTails, tick \in 1..MaxStep :
          LET parsed == parseTrainRegionsIndex(tail) IN
          \/ UNCHANGED rings
          \/ \E n \in 0..Len(parsed.tokens) : \E vs \in [1..n -> Brightness] :
               rings' = [rings EXCEPT ![parsed.symbol] = noteRegions(@, tick, parsed.tokens, vs)]
    BY <1>2 DEF ingestTrainRegions
  <2> DEFINE parsed == parseTrainRegionsIndex(tail)
             s == parsed.symbol
  <2>2. ASSUME NEW n \in 0..Len(parsed.tokens), NEW vs \in [1..n -> Brightness],
               rings' = [rings EXCEPT ![s] = noteRegions(@, tick, parsed.tokens, vs)]
        PROVE  RingsInv'
    <3> DEFINE new == noteRegions(rings[s], tick, parsed.tokens, vs)
    <3>1. rings' = [rings EXCEPT ![s] = new] /\ n \in Nat
      BY <2>2
    <3>2. s \in KnownSymbols => new \in Seq(RingRows) /\ RingOK(new)
      BY <3>1, Noted DEF RingsInv
    <3> HIDE DEF new, s
    <3>3. rings' \in [KnownSymbols -> {r \in Seq(RingRows) : RingOK(r)}]
      BY <3>1, <3>2 DEF RingsInv
    <3> QED
      BY <3>3 DEF RingsInv, RingOK, Lit
  <2> QED
    BY <1>1, <2>1, <2>2
<1> QED
  BY <1>1, <1>2 DEF RegionNext, ingestTrainReject, ingestPathWalks, MatchesDropped, regionVars

LEMMA RingsCarry == RingsInv => RingCarries
BY DEF RingsInv, RingCarries, RingOK

-----------------------------------------------------------------------------
(* The tree of paths: PathTree. *)

TrieKeyType == [path : Seq(STRING), action : STRING]

TreeInv ==
  /\ treeKeys \in Seq(TrieKeyType)
  /\ branches \in {"matching", "enter", "hold", "exit", "all"}

LEMMA TreeStart == TreeInit => TreeInv
BY DEF TreeInit, TreeInv

LEMMA TreeStep == TreeInv /\ [TreeNext]_treeVars => TreeInv'
<1> SUFFICES ASSUME TreeInv, [TreeNext]_treeVars PROVE TreeInv'
  OBVIOUS
<1>1. CASE KeysChange
  <2>1. PICK ks : treeKeys' = Only(TrieKeys, {i \in DOMAIN TrieKeys : TrieKeys[i] \in ks})
    BY <1>1 DEF KeysChange
  <2> DEFINE I == {i \in DOMAIN TrieKeys : TrieKeys[i] \in ks}
  <2>2. I \subseteq DOMAIN TrieKeys /\ TrieKeys \in Seq(TrieKeyType)
    BY TreeAssumption DEF TrieKeyType
  <2>3. treeKeys' = Only(TrieKeys, I)
    BY <2>1
  <2> HIDE DEF I
  <2>4. treeKeys' \in Seq(TrieKeyType)
    BY <2>2, <2>3, OnlyKeeps
  <2> QED
    BY <1>1, <2>4 DEF KeysChange, TreeInv
<1>2. CASE UNCHANGED treeKeys /\ branches' \in {branches, "matching", "enter", "hold", "exit", "all"}
  BY <1>2 DEF TreeInv
<1> QED
  BY <1>1, <1>2 DEF TreeNext, SymbolMoves, PickSymbol, ClearFocus, PickBranches, handleNodeClick,
     Hover, treeVars

\* What is shown is some of the keys.
LEMMA ShownKeys ==
  ASSUME TreeInv
  PROVE  allKeys \in Seq(TrieKeyType) /\ filteredKeys \in Seq(TrieKeyType)
<1>1. treeKeys \in Seq(TrieKeyType)
  BY DEF TreeInv
<1>2. ASSUME NEW s \in Seq(TrieKeyType), NEW I, I \subseteq DOMAIN s PROVE Only(s, I) \in Seq(TrieKeyType)
  BY <1>2, OnlyKeeps
<1> DEFINE at == {i \in DOMAIN treeKeys : Level(treeKeys[i]) # Nowhere => Level(treeKeys[i]) <= 80}
           some == Only(treeKeys, at)
           top == Min({MaxTrie, Len(some)})
<1>3. some \in Seq(TrieKeyType)
  <2>1. at \subseteq DOMAIN treeKeys
    OBVIOUS
  <2> HIDE DEF at
  <2> QED
    BY <1>1, <1>2, <2>1
<1>4. allKeys = SubSeq(some, 1, top)
  BY DEF allKeys
<1> HIDE DEF some
<1>5. top \in Nat /\ top <= Len(some)
  <2>1. MaxTrie \in Nat /\ Len(some) \in Nat
    BY <1>3, TreeAssumption
  <2> QED
    BY <2>1, MinPair
<1> HIDE DEF top
<1>6. allKeys \in Seq(TrieKeyType)
  <2>1. \A i \in 1..top : some[i] \in TrieKeyType
    BY <1>3, <1>5
  <2> QED
    BY <1>4, <1>5, <2>1, SubSeqProperties
<1>7. matchingKeys \in Seq(TrieKeyType)
  <2> DEFINE I == {i \in DOMAIN allKeys : \E w \in targetSymbols : keyMatchesSymbol(allKeys[i], progress[w])}
  <2>1. I \subseteq DOMAIN allKeys /\ matchingKeys = Only(allKeys, I)
    BY DEF matchingKeys
  <2> HIDE DEF I
  <2> QED
    BY <1>2, <1>6, <2>1
<1>8. Only(allKeys, {i \in DOMAIN allKeys : allKeys[i].action = branches}) \in Seq(TrieKeyType)
  <2> DEFINE I == {i \in DOMAIN allKeys : allKeys[i].action = branches}
  <2>1. I \subseteq DOMAIN allKeys
    OBVIOUS
  <2> HIDE DEF I
  <2>2. Only(allKeys, I) \in Seq(TrieKeyType)
    BY <1>2, <1>6, <2>1
  <2> QED
    BY <2>2 DEF I
<1> QED
  BY <1>6, <1>7, <1>8 DEF filteredKeys

LEMMA EmptyOnly == TreeInv => EmptyOnlyByAction
BY DEF TreeInv, EmptyOnlyByAction, filteredKeys

-----------------------------------------------------------------------------
(* Prefixes. *)

LEMMA PrefixIs ==
  ASSUME NEW T, NEW a \in Seq(T), NEW b \in Seq(T)
  PROVE  IsPrefix(a, b) <=> Len(a) <= Len(b) /\ \A i \in 1..Len(a) : a[i] = b[i]
<1> DEFINE n == Len(a)
           m == Len(b)
<1>1. /\ n \in Nat /\ m \in Nat /\ DOMAIN a = 1..n
      /\ \A i \in 1..n : a[i] \in T
      /\ \A i \in 1..m : b[i] \in T
  OBVIOUS
<1> HIDE DEF n, m
<1>2. CASE n <= m
  <2>1. \A i \in 1..n : b[i] \in T
    BY <1>1, <1>2
  <2>2. /\ SubSeq(a, 1, n) \in Seq(T) /\ Len(SubSeq(a, 1, n)) = n
        /\ \A i \in 1..n : SubSeq(a, 1, n)[i] = a[i]
    BY <1>1, SubSeqProperties
  <2>3. /\ SubSeq(b, 1, n) \in Seq(T) /\ Len(SubSeq(b, 1, n)) = n
        /\ \A i \in 1..n : SubSeq(b, 1, n)[i] = b[i]
    BY <1>1, <2>1, SubSeqProperties
  <2>4. SubSeq(a, 1, n) = SubSeq(b, 1, n) <=> \A i \in 1..n : a[i] = b[i]
    BY <2>2, <2>3
  <2> QED
    BY <1>2, <2>4 DEF IsPrefix, n, m
<1>3. CASE ~ (n <= m)
  BY <1>3 DEF IsPrefix, n, m
<1> QED
  BY <1>2, <1>3

LEMMA PrefixOver ==
  ASSUME NEW T, NEW a \in Seq(T), NEW b \in Seq(T), NEW c \in Seq(T), IsPrefix(a, b), IsPrefix(b, c)
  PROVE  IsPrefix(a, c)
<1>1. Len(a) <= Len(b) /\ \A i \in 1..Len(a) : a[i] = b[i]
  BY PrefixIs
<1>2. Len(b) <= Len(c) /\ \A i \in 1..Len(b) : b[i] = c[i]
  BY PrefixIs
<1>3. Len(a) \in Nat /\ Len(b) \in Nat /\ Len(c) \in Nat
  OBVIOUS
<1>4. Len(a) <= Len(c) /\ \A i \in 1..Len(a) : a[i] = c[i]
  BY <1>1, <1>2, <1>3
<1> QED
  BY <1>4, PrefixIs

LEMMA PrefixBoth ==
  ASSUME NEW T, NEW a \in Seq(T), NEW b \in Seq(T), IsPrefix(a, b), IsPrefix(b, a)
  PROVE  a = b
<1>1. Len(a) <= Len(b) /\ \A i \in 1..Len(a) : a[i] = b[i]
  BY PrefixIs
<1>2. Len(b) <= Len(a)
  BY PrefixIs
<1>3. Len(a) \in Nat /\ Len(b) \in Nat
  OBVIOUS
<1>4. Len(a) = Len(b)
  BY <1>1, <1>2, <1>3
<1> QED
  BY <1>1, <1>4

-----------------------------------------------------------------------------
(* Building the tree: buildTreeFromPrefixes. *)

\* What a node of this path and action shows.
Shown(p, a) == Node(p, a, IF a = "" THEN Nowhere ELSE Level([path |-> p, action |-> a]))

TreeActions == STRING \cup {""}

TreeNodes == {Shown(p, a) : p \in Seq(STRING), a \in TreeActions}

\* One node for each path and action, with what it is to show.
TreeOK(t) ==
  /\ t \in Seq(TreeNodes)
  /\ \A i, j \in DOMAIN t : t[i].prefix = t[j].prefix /\ t[i].action = t[j].action => i = j

LEMMA ShownIs ==
  ASSUME NEW x \in TreeNodes
  PROVE  x.prefix \in Seq(STRING) /\ x.action \in TreeActions /\ x = Shown(x.prefix, x.action)
<1>1. PICK p \in Seq(STRING), a \in TreeActions : x = Shown(p, a)
  BY DEF TreeNodes
<1>2. x.prefix = p /\ x.action = a
  BY <1>1 DEF Shown, Node
<1> QED
  BY <1>1, <1>2

LEMMA ShownType ==
  ASSUME NEW p \in Seq(STRING), NEW a \in TreeActions
  PROVE  Shown(p, a) \in TreeNodes /\ Shown(p, a).prefix = p /\ Shown(p, a).action = a
<1>1. Shown(p, a) \in TreeNodes
  BY DEF TreeNodes
<1>2. Shown(p, a).prefix = p /\ Shown(p, a).action = a
  BY DEF Shown, Node
<1> QED
  BY <1>1, <1>2

LEMMA AppendRange ==
  ASSUME NEW T, NEW t \in Seq(T), NEW x \in T
  PROVE  Range(Append(t, x)) = Range(t) \cup {x}
<1> DEFINE n == Len(t)
           u == Append(t, x)
<1>1. n \in Nat /\ DOMAIN t = 1..n
  OBVIOUS
<1>2. u \in Seq(T) /\ Len(u) = n + 1 /\ (\A i \in 1..n : u[i] = t[i]) /\ u[n + 1] = x
  BY AppendProperties
<1>3. DOMAIN u = 1..(n + 1)
  BY <1>2
<1> HIDE DEF n, u
<1>4. ASSUME NEW y \in Range(u) PROVE y \in Range(t) \cup {x}
  <2>1. PICK i \in 1..(n + 1) : y = u[i]
    BY <1>3 DEF Range
  <2>2. i \in 1..n \/ i = n + 1
    BY <1>1
  <2> QED
    BY <1>1, <1>2, <2>1, <2>2 DEF Range
<1>5. ASSUME NEW y \in Range(t) PROVE y \in Range(u)
  <2>1. PICK i \in 1..n : y = t[i]
    BY <1>1 DEF Range
  <2>2. i \in 1..(n + 1)
    BY <1>1
  <2> QED
    BY <1>2, <1>3, <2>1, <2>2 DEF Range
<1>6. x \in Range(u)
  <2>1. n + 1 \in 1..(n + 1)
    BY <1>1
  <2> QED
    BY <1>2, <1>3, <2>1 DEF Range
<1> QED
  BY <1>4, <1>5, <1>6 DEF u

\* A node that is new.
LEMMA NodeAdded ==
  ASSUME NEW t, TreeOK(t), NEW p \in Seq(STRING), NEW a \in TreeActions,
         \A i \in DOMAIN t : ~ (t[i].prefix = p /\ t[i].action = a)
  PROVE  TreeOK(Append(t, Shown(p, a))) /\ Range(Append(t, Shown(p, a))) = Range(t) \cup {Shown(p, a)}
<1> DEFINE n == Len(t)
           x == Shown(p, a)
           u == Append(t, x)
<1>1. t \in Seq(TreeNodes) /\ x \in TreeNodes /\ x.prefix = p /\ x.action = a
  BY ShownType DEF TreeOK
<1>2. n \in Nat /\ DOMAIN t = 1..n
  BY <1>1
<1> HIDE DEF x
<1>3. u \in Seq(TreeNodes) /\ Len(u) = n + 1 /\ (\A i \in 1..n : u[i] = t[i]) /\ u[n + 1] = x
  BY <1>1, AppendProperties
<1>4. DOMAIN u = 1..(n + 1)
  BY <1>3
<1>5. Range(u) = Range(t) \cup {x}
  BY <1>1, AppendRange
<1> HIDE DEF n, u
<1>6. ASSUME NEW i \in DOMAIN u, NEW j \in DOMAIN u, u[i].prefix = u[j].prefix, u[i].action = u[j].action
      PROVE  i = j
  <2>1. (i \in 1..n \/ i = n + 1) /\ (j \in 1..n \/ j = n + 1)
    BY <1>2, <1>4
  <2>2. CASE i \in 1..n /\ j \in 1..n
    BY <1>2, <1>3, <1>6, <2>2 DEF TreeOK
  <2>3. CASE i \in 1..n /\ j = n + 1
    <3>1. t[i].prefix = p /\ t[i].action = a
      BY <1>1, <1>3, <1>6, <2>3
    <3> QED
      BY <1>2, <2>3, <3>1
  <2>4. CASE i = n + 1 /\ j \in 1..n
    <3>1. t[j].prefix = p /\ t[j].action = a
      BY <1>1, <1>3, <1>6, <2>4
    <3> QED
      BY <1>2, <2>4, <3>1
  <2> QED
    BY <2>1, <2>2, <2>3, <2>4
<1> QED
  BY <1>3, <1>5, <1>6 DEF TreeOK, x, u

\* A node that is there already.
LEMMA NodeThere ==
  ASSUME NEW t, TreeOK(t), NEW i \in DOMAIN t
  PROVE  t[i] = Shown(t[i].prefix, t[i].action) /\ Range(t) = Range(t) \cup {t[i]}
         /\ t[i].prefix \in Seq(STRING) /\ t[i].action \in TreeActions
<1>1. t[i] \in TreeNodes
  BY DEF TreeOK
<1>2. t[i] \in Range(t)
  BY DEF Range
<1> QED
  BY <1>1, <1>2, ShownIs

\* The nodes of a path, down to depth k.
Steps(path, k) == {Shown(SubSeq(path, 1, i), "") : i \in 1..k}

LEMMA StepsIs ==
  ASSUME NEW path \in Seq(STRING)
  PROVE  /\ Steps(path, 0) = {}
         /\ \A k \in 0..(Len(path) - 1) :
              Steps(path, k + 1) = Steps(path, k) \cup {Shown(SubSeq(path, 1, k + 1), "")}
         /\ \A i \in 1..Len(path) : SubSeq(path, 1, i) \in Seq(STRING)
<1>1. Steps(path, 0) = {}
  BY DEF Steps
<1>2. ASSUME NEW k \in 0..(Len(path) - 1)
      PROVE  Steps(path, k + 1) = Steps(path, k) \cup {Shown(SubSeq(path, 1, k + 1), "")}
  <2>1. 1..(k + 1) = 1..k \cup {k + 1}
    OBVIOUS
  <2> QED
    BY <2>1 DEF Steps
<1>3. ASSUME NEW i \in 1..Len(path) PROVE SubSeq(path, 1, i) \in Seq(STRING)
  <2>1. \A j \in 1..i : path[j] \in STRING
    OBVIOUS
  <2> QED
    BY <2>1, SubSeqProperties
<1> QED
  BY <1>1, <1>2, <1>3

\* The node of one prefix: found, or made.
LEMMA NodeGrown ==
  ASSUME NEW t, TreeOK(t), NEW p \in Seq(STRING)
  PROVE  LET u == IF childOf(t, p) THEN t ELSE Append(t, Node(p, "", Nowhere))
         IN  TreeOK(u) /\ Range(u) = Range(t) \cup {Shown(p, "")}
<1>1. Shown(p, "") = Node(p, "", Nowhere)
  BY DEF Shown
<1>2. CASE childOf(t, p)
  <2>1. PICK i \in DOMAIN t : t[i].action = "" /\ t[i].prefix = p
    BY <1>2 DEF childOf
  <2>2. t[i] = Shown(t[i].prefix, t[i].action) /\ Range(t) = Range(t) \cup {t[i]}
    BY NodeThere
  <2>3. Range(t) = Range(t) \cup {Shown(p, "")}
    BY <2>1, <2>2
  <2> QED
    BY <1>2, <2>3
<1>3. CASE ~ childOf(t, p)
  <2>1. \A i \in DOMAIN t : ~ (t[i].prefix = p /\ t[i].action = "")
    BY <1>3 DEF childOf
  <2>2. TreeOK(Append(t, Shown(p, ""))) /\ Range(Append(t, Shown(p, ""))) = Range(t) \cup {Shown(p, "")}
    <3>1. "" \in TreeActions
      BY DEF TreeActions
    <3> QED
      BY <2>1, <3>1, NodeAdded
  <2> QED
    BY <1>1, <1>3, <2>2
<1> QED
  BY <1>2, <1>3

\* One node for each prefix of a path.
GrowAt(path, acc, n) == LET prefix == SubSeq(path, 1, n)
                        IN  IF childOf(acc, prefix) THEN acc ELSE Append(acc, Node(prefix, "", Nowhere))

Grown(nodes, key) ==
  LET Grow(acc, n) == LET prefix == SubSeq(key.path, 1, n)
                      IN  IF childOf(acc, prefix) THEN acc
                          ELSE Append(acc, Node(prefix, "", Nowhere))
  IN  FoldLeft(Grow, nodes, [n \in 1..Len(key.path) |-> n])

LEMMA GrownHolds ==
  ASSUME NEW nodes, TreeOK(nodes), NEW key \in TrieKeyType
  PROVE  /\ TreeOK(Grown(nodes, key))
         /\ Range(Grown(nodes, key)) = Range(nodes) \cup Steps(key.path, Len(key.path))
<1> DEFINE path == key.path
           n == Len(path)
<1>1. path \in Seq(STRING) /\ n \in Nat
  BY DEF TrieKeyType
<1> DEFINE D == {t \in Seq(TreeNodes) : TreeOK(t)}
           step(T, h) == IF T = {} THEN nodes ELSE GrowAt(path, h[T \ {Greatest(T)}], Greatest(T))
           Carries(h) == h = [T \in SUBSET (1..n) |-> step(T, h)]
           run == CHOOSE h : Carries(h)
           g == [c \in (1..n) \X D |-> GrowAt(path, c[2], c[1])]
<1>2. Grown(nodes, key) = run[1..n]
  <2> HIDE DEF D
  <2> DEFINE raw(T, h) == IF T = {} THEN nodes
                          ELSE GrowAt(path, h[T \ {Greatest(T)}], [i \in 1..n |-> i][Greatest(T)])
             rawRun == CHOOSE h : h = [T \in SUBSET (1..n) |-> raw(T, h)]
  <2>1. Grown(nodes, key) = rawRun[1..n]
    BY DEF Grown, FoldLeft, MapThenFoldSet, Max, Greatest, GrowAt
  <2>2. ASSUME NEW T \in SUBSET (1..n), T # {} PROVE [i \in 1..n |-> i][Greatest(T)] = Greatest(T)
    <3>1. \E j \in T : \A i \in T : j >= i
      BY <1>1, <2>2, GreatestNumber
    <3>2. Greatest(T) \in 1..n
      BY <2>2, <3>1 DEF Greatest
    <3> QED
      BY <3>2
  <2>3. \A h : \A T \in SUBSET (1..n) : raw(T, h) = step(T, h)
    BY <2>2
  <2> HIDE DEF raw, step
  <2>4. ASSUME NEW h PROVE [T \in SUBSET (1..n) |-> raw(T, h)] = [T \in SUBSET (1..n) |-> step(T, h)]
    BY <2>3
  <2>5. \A h : (h = [T \in SUBSET (1..n) |-> raw(T, h)]) <=> Carries(h)
    BY <2>4
  <2>6. rawRun = run
    BY <2>5
  <2> QED
    BY <2>1, <2>6
<1>3. nodes \in D
  BY DEF TreeOK
<1>4. ASSUME NEW k \in 1..n, NEW t \in D
      PROVE  /\ GrowAt(path, t, k) \in D
             /\ Range(GrowAt(path, t, k)) = Range(t) \cup {Shown(SubSeq(path, 1, k), "")}
  <2>1. SubSeq(path, 1, k) \in Seq(STRING)
    BY <1>1, StepsIs
  <2>2. TreeOK(t)
    OBVIOUS
  <2> DEFINE u == GrowAt(path, t, k)
  <2>3. TreeOK(u) /\ Range(u) = Range(t) \cup {Shown(SubSeq(path, 1, k), "")}
    BY <2>1, <2>2, NodeGrown DEF GrowAt
  <2> HIDE DEF u
  <2>4. u \in D
    BY <2>3 DEF TreeOK
  <2> QED
    BY <2>3, <2>4 DEF u
<1> HIDE DEF D, n, path
<1>5. \E h : Carries(h)
  <2>1. g \in [(1..n) \X D -> D] /\ \A k \in 1..n, t \in D : g[<<k, t>>] = GrowAt(path, t, k)
    BY <1>4
  <2> HIDE DEF g
  <2>2. PICK h \in [SUBSET (1..n) -> D] : Folds(n, nodes, g, h)
    BY <1>1, <1>3, <2>1, FoldExists
  <2>3. ASSUME NEW T \in SUBSET (1..n), T # {}
        PROVE  g[<<Greatest(T), h[T \ {Greatest(T)}]>>] = GrowAt(path, h[T \ {Greatest(T)}], Greatest(T))
    <3>1. \E j \in T : \A i \in T : j >= i
      BY <1>1, <2>3, GreatestNumber
    <3>2. Greatest(T) \in 1..n
      BY <2>3, <3>1 DEF Greatest
    <3>3. h[T \ {Greatest(T)}] \in D
      OBVIOUS
    <3> QED
      BY <2>1, <3>2, <3>3
  <2>4. Carries(h)
    BY <2>2, <2>3 DEF Folds
  <2> QED
    BY <2>4
<1>6. Carries(run)
  BY <1>5
<1> HIDE DEF run
<1> DEFINE Holds(k) == run[1..k] \in D /\ Range(run[1..k]) = Range(nodes) \cup Steps(path, k)
           Up == {k \in 0..n : Holds(k)}
<1>7. 0 \in Up
  <2>1. 1..0 = {} /\ 1..0 \in SUBSET (1..n)
    OBVIOUS
  <2>2. run[1..0] = nodes
    BY <1>6, <2>1
  <2>3. Steps(path, 0) = {}
    BY <1>1, StepsIs
  <2>4. Holds(0)
    BY <1>3, <2>2, <2>3
  <2> QED
    BY <1>1, <2>4
<1>8. ASSUME NEW k \in 0..(n - 1), k \in Up PROVE k + 1 \in Up
  <2>1. k \in Nat /\ k + 1 \in 1..n /\ 1..(k + 1) \in SUBSET (1..n)
    BY <1>1
  <2>2. /\ 1..(k + 1) # {} /\ Greatest(1..(k + 1)) = k + 1
        /\ 1..(k + 1) \ {Greatest(1..(k + 1))} = 1..k
    BY <2>1, GreatestOfAll
  <2>3. run[1..(k + 1)] = GrowAt(path, run[1..k], k + 1)
    BY <1>6, <2>1, <2>2
  <2>4. Steps(path, k + 1) = Steps(path, k) \cup {Shown(SubSeq(path, 1, k + 1), "")}
    BY <1>1, StepsIs DEF n
  <2>5. Holds(k)
    BY <1>8
  <2> DEFINE t == run[1..k]
             u == run[1..(k + 1)]
  <2>6. t \in D /\ Range(t) = Range(nodes) \cup Steps(path, k) /\ u = GrowAt(path, t, k + 1)
    BY <2>3, <2>5
  <2> HIDE DEF t, u
  <2>7. u \in D /\ Range(u) = Range(t) \cup {Shown(SubSeq(path, 1, k + 1), "")}
    BY <1>4, <2>1, <2>6
  <2>8. u \in D /\ Range(u) = Range(nodes) \cup Steps(path, k + 1)
    BY <2>4, <2>6, <2>7
  <2>9. Holds(k + 1)
    BY <2>8 DEF u
  <2> QED
    BY <2>1, <2>9
<1> HIDE DEF Holds, Carries
<1>9. Holds(n)
  <2> HIDE DEF Up
  <2>1. n \in Up
    BY <1>1, <1>7, <1>8, UpTo
  <2> QED
    BY <2>1 DEF Up
<1>10. TreeOK(run[1..n]) /\ Range(run[1..n]) = Range(nodes) \cup Steps(path, n)
  BY <1>9 DEF Holds, D
<1> QED
  BY <1>2, <1>10 DEF n, path

\* What one key puts into the tree.
NodesOf(key) == Steps(key.path, Len(key.path))
                \cup (IF key.path = <<>> \/ key.action = "" THEN {} ELSE {Shown(key.path, key.action)})

LEMMA KeyIs ==
  ASSUME NEW key \in TrieKeyType
  PROVE  /\ key.path \in Seq(STRING) /\ key.action \in TreeActions
         /\ key = [path |-> key.path, action |-> key.action]
         /\ key.action # "" => Shown(key.path, key.action) = Node(key.path, key.action, Level(key))
<1>1. key.path \in Seq(STRING) /\ key.action \in STRING /\ key = [path |-> key.path, action |-> key.action]
  BY DEF TrieKeyType
<1>2. key.action # "" => Shown(key.path, key.action)
                          = Node(key.path, key.action, Level([path |-> key.path, action |-> key.action]))
  BY DEF Shown
<1> QED
  BY <1>1, <1>2 DEF TreeActions

LEMMA PlantedHolds ==
  ASSUME NEW nodes, TreeOK(nodes), NEW key \in TrieKeyType
  PROVE  TreeOK(Planted(nodes, key)) /\ Range(Planted(nodes, key)) = Range(nodes) \cup NodesOf(key)
<1> DEFINE grown == Grown(nodes, key)
           p == key.path
           a == key.action
           leaves == {i \in DOMAIN grown : grown[i].prefix = p /\ grown[i].action = a}
           one == CHOOSE i \in leaves : TRUE
<1>1. p \in Seq(STRING) /\ a \in TreeActions /\ (a # "" => Shown(p, a) = Node(p, a, Level(key)))
  BY KeyIs
<1>2. Planted(nodes, key) =
        IF p = <<>> THEN nodes
        ELSE IF a = "" THEN grown
        ELSE IF leaves = {} THEN Append(grown, Node(p, a, Level(key)))
        ELSE IF Level(key) = Nowhere THEN grown
        ELSE [grown EXCEPT ![one].level = Level(key)]
  BY DEF Planted, Grown
<1>3. TreeOK(grown) /\ Range(grown) = Range(nodes) \cup Steps(p, Len(p))
  BY GrownHolds
<1> HIDE DEF grown
<1>4. CASE p = <<>>
  <2>1. Steps(p, Len(p)) = {}
    <3>1. Len(p) = 0
      BY <1>4
    <3> QED
      BY <1>1, <3>1, StepsIs
  <2>2. NodesOf(key) = {}
    BY <1>4, <2>1 DEF NodesOf
  <2> QED
    BY <1>2, <1>4, <2>2
<1>5. CASE p # <<>> /\ a = ""
  <2>1. NodesOf(key) = Steps(p, Len(p))
    BY <1>5 DEF NodesOf
  <2> QED
    BY <1>2, <1>3, <1>5, <2>1
<1>6. CASE p # <<>> /\ a # "" /\ leaves = {}
  <2>1. NodesOf(key) = Steps(p, Len(p)) \cup {Shown(p, a)}
    BY <1>6 DEF NodesOf
  <2>2. \A i \in DOMAIN grown : ~ (grown[i].prefix = p /\ grown[i].action = a)
    BY <1>6
  <2>3. Planted(nodes, key) = Append(grown, Shown(p, a))
    BY <1>1, <1>2, <1>6
  <2>4. TreeOK(Append(grown, Shown(p, a))) /\ Range(Append(grown, Shown(p, a))) = Range(grown) \cup {Shown(p, a)}
    BY <1>1, <1>3, <2>2, NodeAdded
  <2> QED
    BY <1>3, <2>1, <2>3, <2>4
<1>7. CASE p # <<>> /\ a # "" /\ leaves # {}
  <2>1. NodesOf(key) = Steps(p, Len(p)) \cup {Shown(p, a)}
    BY <1>7 DEF NodesOf
  <2>2. one \in DOMAIN grown /\ grown[one].prefix = p /\ grown[one].action = a
    BY <1>7
  <2> HIDE DEF one
  <2>3. grown[one] = Shown(p, a) /\ Range(grown) = Range(grown) \cup {grown[one]}
    <3>1. grown[one] = Shown(grown[one].prefix, grown[one].action) /\ Range(grown) = Range(grown) \cup {grown[one]}
      BY <1>3, <2>2, NodeThere
    <3> QED
      BY <2>2, <3>1
  <2>4. [grown EXCEPT ![one].level = Level(key)] = grown
    <3> DEFINE l == Level(key)
    <3>1. grown[one] = [prefix |-> p, action |-> a, level |-> l]
      BY <1>1, <1>7, <2>3 DEF Node
    <3> HIDE DEF l
    <3>2. [grown[one] EXCEPT !.level = l] = grown[one]
      BY <3>1
    <3>3. DOMAIN grown = 1..Len(grown) /\ grown \in [1..Len(grown) -> TreeNodes]
      BY <1>3 DEF TreeOK
    <3>4. [grown EXCEPT ![one] = grown[one]] = grown
      BY <3>3
    <3>5. [grown EXCEPT ![one].level = l] = [grown EXCEPT ![one] = [grown[one] EXCEPT !.level = l]]
      OBVIOUS
    <3> QED
      BY <3>2, <3>4, <3>5 DEF l
  <2>5. Planted(nodes, key) = grown
    BY <1>2, <1>7, <2>4
  <2> QED
    BY <1>3, <2>1, <2>3, <2>5
<1> QED
  BY <1>4, <1>5, <1>6, <1>7

\* What the first k keys put into it.
NodesTo(keys, k) == UNION {NodesOf(keys[i]) : i \in 1..k}

LEMMA NodesToIs ==
  ASSUME NEW keys
  PROVE  /\ NodesTo(keys, 0) = {}
         /\ \A k \in Nat : NodesTo(keys, k + 1) = NodesTo(keys, k) \cup NodesOf(keys[k + 1])
<1>1. NodesTo(keys, 0) = {}
  BY DEF NodesTo
<1>2. ASSUME NEW k \in Nat PROVE NodesTo(keys, k + 1) = NodesTo(keys, k) \cup NodesOf(keys[k + 1])
  <2>1. 1..(k + 1) = 1..k \cup {k + 1}
    OBVIOUS
  <2> QED
    BY <2>1 DEF NodesTo
<1> QED
  BY <1>1, <1>2

LEMMA TreeBuilt ==
  ASSUME NEW keys \in Seq(TrieKeyType)
  PROVE  LET t == buildTreeFromPrefixes(keys)
         IN  TreeOK(t) /\ Range(t) = NodesTo(keys, Len(keys))
<1> DEFINE n == Len(keys)
<1>1. n \in Nat /\ DOMAIN keys = 1..n /\ \A i \in 1..n : keys[i] \in TrieKeyType
  OBVIOUS
<1> HIDE DEF n
<1> DEFINE D == {t \in Seq(TreeNodes) : TreeOK(t)}
           step(T, h) == IF T = {} THEN <<>> ELSE Planted(h[T \ {Greatest(T)}], keys[Greatest(T)])
           Carries(h) == h = [T \in SUBSET (1..n) |-> step(T, h)]
           run == CHOOSE h : Carries(h)
           g == [c \in (1..n) \X D |-> Planted(c[2], keys[c[1]])]
<1>2. buildTreeFromPrefixes(keys) = run[1..n]
  BY <1>1 DEF buildTreeFromPrefixes, FoldLeft, MapThenFoldSet, Max, Greatest
<1>3. <<>> \in D /\ Range(<<>>) = {}
  BY DEF TreeOK, Range
<1>4. ASSUME NEW k \in 1..n, NEW t \in D
      PROVE  Planted(t, keys[k]) \in D /\ Range(Planted(t, keys[k])) = Range(t) \cup NodesOf(keys[k])
  <2>1. keys[k] \in TrieKeyType
    BY <1>1
  <2>2. TreeOK(t)
    OBVIOUS
  <2> DEFINE u == Planted(t, keys[k])
  <2>3. TreeOK(u) /\ Range(u) = Range(t) \cup NodesOf(keys[k])
    BY <2>1, <2>2, PlantedHolds
  <2> HIDE DEF u
  <2>4. u \in D
    BY <2>3 DEF TreeOK
  <2> QED
    BY <2>3, <2>4 DEF u
<1> HIDE DEF D
<1>5. \E h : Carries(h)
  <2>1. g \in [(1..n) \X D -> D] /\ \A k \in 1..n, t \in D : g[<<k, t>>] = Planted(t, keys[k])
    BY <1>4
  <2> HIDE DEF g
  <2>2. PICK h \in [SUBSET (1..n) -> D] : Folds(n, <<>>, g, h)
    BY <1>1, <1>3, <2>1, FoldExists
  <2>3. ASSUME NEW T \in SUBSET (1..n), T # {}
        PROVE  g[<<Greatest(T), h[T \ {Greatest(T)}]>>] = Planted(h[T \ {Greatest(T)}], keys[Greatest(T)])
    <3>1. \E j \in T : \A i \in T : j >= i
      BY <1>1, <2>3, GreatestNumber
    <3>2. Greatest(T) \in 1..n
      BY <2>3, <3>1 DEF Greatest
    <3>3. h[T \ {Greatest(T)}] \in D
      OBVIOUS
    <3> QED
      BY <2>1, <3>2, <3>3
  <2>4. Carries(h)
    BY <2>2, <2>3 DEF Folds
  <2> QED
    BY <2>4
<1>6. Carries(run)
  BY <1>5
<1> HIDE DEF run
<1> DEFINE Holds(k) == run[1..k] \in D /\ Range(run[1..k]) = NodesTo(keys, k)
           Up == {k \in 0..n : Holds(k)}
<1>7. 0 \in Up
  <2>1. 1..0 = {} /\ 1..0 \in SUBSET (1..n)
    OBVIOUS
  <2>2. run[1..0] = <<>>
    BY <1>6, <2>1
  <2>3. Holds(0)
    BY <1>3, <2>2, NodesToIs
  <2> QED
    BY <1>1, <2>3
<1>8. ASSUME NEW k \in 0..(n - 1), k \in Up PROVE k + 1 \in Up
  <2>1. k \in Nat /\ k + 1 \in 1..n /\ 1..(k + 1) \in SUBSET (1..n)
    BY <1>1
  <2>2. /\ 1..(k + 1) # {} /\ Greatest(1..(k + 1)) = k + 1
        /\ 1..(k + 1) \ {Greatest(1..(k + 1))} = 1..k
    BY <2>1, GreatestOfAll
  <2>3. run[1..(k + 1)] = Planted(run[1..k], keys[k + 1])
    BY <1>6, <2>1, <2>2
  <2>4. NodesTo(keys, k + 1) = NodesTo(keys, k) \cup NodesOf(keys[k + 1])
    BY <2>1, NodesToIs
  <2>5. Holds(k)
    BY <1>8
  <2> DEFINE t == run[1..k]
             u == run[1..(k + 1)]
  <2>6. t \in D /\ Range(t) = NodesTo(keys, k) /\ u = Planted(t, keys[k + 1])
    BY <2>3, <2>5
  <2> HIDE DEF t, u
  <2>7. u \in D /\ Range(u) = Range(t) \cup NodesOf(keys[k + 1])
    BY <1>4, <2>1, <2>6
  <2>8. u \in D /\ Range(u) = NodesTo(keys, k + 1)
    BY <2>4, <2>6, <2>7
  <2>9. Holds(k + 1)
    BY <2>8 DEF u
  <2> QED
    BY <2>1, <2>9
<1> HIDE DEF Holds, Carries
<1>9. Holds(n)
  <2> HIDE DEF Up
  <2>1. n \in Up
    BY <1>1, <1>7, <1>8, UpTo
  <2> QED
    BY <2>1 DEF Up
<1>10. TreeOK(run[1..n]) /\ Range(run[1..n]) = NodesTo(keys, n)
  BY <1>9 DEF Holds, D
<1> QED
  BY <1>2, <1>10 DEF n

\* As many nodes as places.
LEMMA NodesCount ==
  ASSUME NEW t, TreeOK(t)
  PROVE  Cardinality(Range(t)) = Len(t)
<1> DEFINE n == Len(t)
<1>1. t \in Seq(TreeNodes) /\ n \in Nat /\ DOMAIN t = 1..n /\ t \in [1..n -> Range(t)]
  BY DEF TreeOK, Range
<1> HIDE DEF n
<1>2. IsFiniteSet(1..n) /\ Cardinality(1..n) = n
  BY <1>1, FS_Interval
<1>3. \A y \in Range(t) : \E i \in 1..n : t[i] = y
  BY <1>1 DEF Range
<1>4. \A i, j \in 1..n : t[i] = t[j] => i = j
  BY <1>1 DEF TreeOK
<1>5. t \in Bijection(1..n, Range(t))
  BY <1>1, <1>3, <1>4 DEF Bijection, Injection, Surjection, IsInjective
<1>6. Cardinality(Range(t)) = Cardinality(1..n)
  BY <1>2, <1>5, FS_Bijection DEF ExistsBijection
<1> QED
  BY <1>2, <1>6 DEF n

LEMMA HoldsKeys == TreeInv => TreeHoldsKeys
<1> SUFFICES ASSUME TreeInv PROVE TreeHoldsKeys
  OBVIOUS
<1> DEFINE fk == filteredKeys
           n == Len(fk)
           keys == {k \in Range(fk) : k.path # <<>>}
           inner == UNION {{SubSeq(k.path, 1, m) : m \in 1..Len(k.path)} : k \in keys}
           expected == {Node(p, "", Nowhere) : p \in inner}
                       \cup {Node(k.path, k.action, Level(k)) : k \in {q \in keys : q.action # ""}}
<1>1. fk \in Seq(TrieKeyType)
  BY ShownKeys
<1>2. TreeOK(treeData) /\ Range(treeData) = NodesTo(fk, n)
  <2>1. treeData = buildTreeFromPrefixes(fk)
    BY DEF treeData
  <2> HIDE DEF fk
  <2> QED
    BY <1>1, <2>1, TreeBuilt
<1> HIDE DEF fk
<1>3. n \in Nat /\ DOMAIN fk = 1..n /\ \A i \in 1..n : fk[i] \in TrieKeyType /\ fk[i] \in Range(fk)
  BY <1>1 DEF Range
<1> HIDE DEF n
<1>4. ASSUME NEW k \in keys
      PROVE  /\ \A m \in 1..Len(k.path) : Node(SubSeq(k.path, 1, m), "", Nowhere) \in expected
             /\ k.action # "" => Node(k.path, k.action, Level(k)) \in expected
  <2>1. \A m \in 1..Len(k.path) : SubSeq(k.path, 1, m) \in inner
    OBVIOUS
  <2> HIDE DEF inner
  <2>2. \A m \in 1..Len(k.path) : Node(SubSeq(k.path, 1, m), "", Nowhere) \in expected
    BY <2>1
  <2> QED
    BY <2>2
<1>5. ASSUME NEW x \in expected
      PROVE  \E k \in keys : \/ \E m \in 1..Len(k.path) : x = Node(SubSeq(k.path, 1, m), "", Nowhere)
                             \/ k.action # "" /\ x = Node(k.path, k.action, Level(k))
  OBVIOUS
<1> HIDE DEF expected, inner
<1>6. ASSUME NEW p PROVE Shown(p, "") = Node(p, "", Nowhere)
  BY DEF Shown
<1>7. ASSUME NEW i \in 1..n, NEW x \in NodesOf(fk[i]) PROVE x \in expected
  <2> DEFINE k == fk[i]
  <2>1. k \in TrieKeyType /\ k \in Range(fk)
    BY <1>3
  <2>2. k.path \in Seq(STRING) /\ (k.action # "" => Shown(k.path, k.action) = Node(k.path, k.action, Level(k)))
    BY <2>1, KeyIs
  <2>3. x \in Steps(k.path, Len(k.path)) \/ (k.path # <<>> /\ k.action # "" /\ x = Shown(k.path, k.action))
    BY DEF NodesOf
  <2> HIDE DEF k
  <2>4. CASE x \in Steps(k.path, Len(k.path))
    <3>1. PICK m \in 1..Len(k.path) : x = Shown(SubSeq(k.path, 1, m), "")
      BY <2>4 DEF Steps
    <3>2. k.path # <<>>
      <4>1. Len(<<>>) = 0
        OBVIOUS
      <4>2. Len(k.path) \in Nat
        <5>1. k.path \in Seq(STRING)
          BY ONLY <2>2
        <5> QED
          BY ONLY <5>1
      <4>3. m \in 1..Len(k.path)
        OBVIOUS
      <4>4. Len(k.path) # 0
        BY <4>2, <4>3
      <4> QED
        BY <4>1, <4>4
    <3> QED
      BY <1>4, <1>6, <2>1, <3>1, <3>2
  <2>5. CASE k.path # <<>> /\ k.action # "" /\ x = Shown(k.path, k.action)
    BY <1>4, <2>1, <2>2, <2>5
  <2> QED
    BY <2>3, <2>4, <2>5
<1>8. ASSUME NEW x \in expected PROVE \E i \in 1..n : x \in NodesOf(fk[i])
  <2>1. PICK k \in keys : \/ \E m \in 1..Len(k.path) : x = Node(SubSeq(k.path, 1, m), "", Nowhere)
                          \/ k.action # "" /\ x = Node(k.path, k.action, Level(k))
    BY <1>5
  <2>2. k.path # <<>> /\ \E i \in 1..n : k = fk[i]
    BY <1>3 DEF Range
  <2>3. PICK i \in 1..n : k = fk[i]
    BY <2>2
  <2>4. k \in TrieKeyType
    BY <1>3, <2>3
  <2>5. k.action # "" => Shown(k.path, k.action) = Node(k.path, k.action, Level(k))
    BY <2>4, KeyIs
  <2>6. CASE \E m \in 1..Len(k.path) : x = Node(SubSeq(k.path, 1, m), "", Nowhere)
    <3>1. x \in Steps(k.path, Len(k.path))
      BY <1>6, <2>6 DEF Steps
    <3> QED
      BY <2>3, <3>1 DEF NodesOf
  <2>7. CASE k.action # "" /\ x = Node(k.path, k.action, Level(k))
    <3>1. x \in NodesOf(k)
      BY <2>2, <2>5, <2>7 DEF NodesOf
    <3> QED
      BY <2>3, <3>1
  <2> QED
    BY <2>1, <2>6, <2>7
<1>9. NodesTo(fk, n) = expected
  <2>1. \A x : x \in NodesTo(fk, n) <=> \E i \in 1..n : x \in NodesOf(fk[i])
    BY DEF NodesTo
  <2> QED
    BY <1>7, <1>8, <2>1
<1>10. Range(treeData) = expected /\ Len(treeData) = Cardinality(expected)
  BY <1>2, <1>9, NodesCount
<1> QED
  BY <1>10 DEF TreeHoldsKeys, expected, inner, fk

\* A node over a node that is laid out is laid out.
LEMMA OverLaidOut ==
  ASSUME NEW t, TreeOK(t), NEW n \in DOMAIN t, NEW o \in Ancestors(t, n)
  PROVE  /\ o \in DOMAIN t /\ Ancestors(t, o) \subseteq Ancestors(t, n)
         /\ n \in displayTree(t) => o \in displayTree(t)
<1>1. o \in DOMAIN t /\ t[o].action = "" /\ o # n /\ IsPrefix(t[o].prefix, t[n].prefix)
  BY DEF Ancestors
<1>2. \A i \in DOMAIN t : t[i].prefix \in Seq(STRING)
  BY NodeThere
<1>3. ASSUME NEW i \in Ancestors(t, o) PROVE i \in Ancestors(t, n)
  <2>1. i \in DOMAIN t /\ t[i].action = "" /\ i # o /\ IsPrefix(t[i].prefix, t[o].prefix)
    BY DEF Ancestors
  <2>2. IsPrefix(t[i].prefix, t[n].prefix)
    BY <1>1, <1>2, <2>1, PrefixOver
  <2>3. ASSUME i = n PROVE FALSE
    <3>1. t[o].prefix = t[n].prefix
      BY <1>1, <1>2, <2>1, <2>3, PrefixBoth
    <3>2. t[o].action = t[n].action
      BY <1>1, <2>1, <2>3
    <3> QED
      BY <1>1, <3>1, <3>2 DEF TreeOK
  <2> QED
    BY <2>1, <2>2, <2>3 DEF Ancestors
<1>4. n \in displayTree(t) => o \in displayTree(t)
  BY <1>1, <1>3 DEF displayTree
<1> QED
  BY <1>1, <1>3, <1>4

LEMMA LitReaches == TreeInv => LitReachesRoot
<1> SUFFICES ASSUME TreeInv, hovered # Nowhere, NEW n \in DOMAIN Scene, Scene[n].lit,
                    NEW o \in Ancestors(treeData, n)
             PROVE  o \in DOMAIN Scene /\ Scene[o].lit
  BY DEF LitReachesRoot
<1> DEFINE t == treeData
<1>1. TreeOK(t)
  <2>1. t = buildTreeFromPrefixes(filteredKeys)
    BY DEF treeData
  <2> QED
    BY <2>1, ShownKeys, TreeBuilt
<1>2. DOMAIN Scene = displayTree(t)
  BY DEF Scene
<1>3. ASSUME NEW i \in displayTree(t) PROVE Scene[i].lit = nodeActivityOpacity(t, i)
  BY DEF Scene
<1> HIDE DEF t
<1>4. nodeActivityOpacity(t, n)
  BY <1>2, <1>3
<1>5. n \in activePathIds(t)
  BY <1>4 DEF nodeActivityOpacity
<1>6. hovered \in displayTree(t) /\ n \in {hovered} \cup Ancestors(t, hovered)
  BY <1>5 DEF activePathIds
<1>7. n \in displayTree(t) /\ n \in DOMAIN t /\ hovered \in DOMAIN t /\ o \in Ancestors(t, n)
  BY <1>2, <1>6 DEF displayTree, t
<1>8. o \in displayTree(t) /\ Ancestors(t, o) \subseteq Ancestors(t, n)
  BY <1>1, <1>7, OverLaidOut
<1>9. o \in Ancestors(t, hovered)
  <2>1. CASE n = hovered
    BY <1>7, <2>1
  <2>2. CASE n \in Ancestors(t, hovered)
    <3>1. Ancestors(t, n) \subseteq Ancestors(t, hovered)
      BY <1>1, <1>7, <2>2, OverLaidOut
    <3> QED
      BY <1>7, <3>1
  <2> QED
    BY <1>6, <2>1, <2>2
<1>10. nodeActivityOpacity(t, o)
  BY <1>6, <1>9 DEF nodeActivityOpacity, activePathIds
<1>11. Scene[o].lit
  BY <1>3, <1>8, <1>10
<1> QED
  BY <1>2, <1>8, <1>11

LEMMA TreeWhole == TreeInv => TreeIsWhole
BY HoldsKeys, EmptyOnly, LitReaches DEF TreeIsWhole

-----------------------------------------------------------------------------
(* Readings of a value: Readings. *)

LEMMA FirstPlace ==
  ASSUME NEW n \in Nat, NEW S, S \subseteq 1..n, S # {}
  PROVE  Min(S) \in S /\ \A i \in S : Min(S) <= i
<1>1. S \subseteq Nat
  OBVIOUS
<1>2. \E i \in S : \A k \in S : i <= k
  BY <1>1, LeastNumber
<1> QED
  BY <1>2 DEF Min

LEMMA FinalPlace ==
  ASSUME NEW n \in Nat, NEW S, S \subseteq 1..n, S # {}
  PROVE  Max(S) \in S /\ \A i \in S : Max(S) >= i
<1>1. \E j \in S : \A i \in S : j >= i
  BY GreatestNumber
<1> QED
  BY <1>1 DEF Max

LEMMA SeqIs ==
  ASSUME NEW T, NEW s \in Seq(T)
  PROVE  Len(s) \in Nat /\ DOMAIN s = 1..Len(s) /\ (s # <<>> => Len(s) \in Nat \ {0})
BY EmptySeq

LayersOK == layers \in Seq(LayerForms)

\* What is kept was read of the layers there were then.
KeptOK ==
  kept # Missing =>
    /\ kept = [size |-> kept.size, found |-> kept.found]
    /\ kept.size \in 0..Len(layers)
    /\ kept.found = Decoded(SubSeq(layers, 1, kept.size))

ReadingInv == LayersOK /\ KeptOK /\ ReadIsCurrent

LEMMA AllOfIt ==
  ASSUME NEW S, NEW s \in Seq(S)
  PROVE  SubSeq(s, 1, Len(s)) = s
OBVIOUS

LEMMA SubSeqStays ==
  ASSUME NEW T, NEW s \in Seq(T), NEW x \in T, NEW k \in 0..Len(s)
  PROVE  SubSeq(Append(s, x), 1, k) = SubSeq(s, 1, k)
<1>1. \A i \in 1..k : Append(s, x)[i] = s[i]
  OBVIOUS
<1> QED
  BY <1>1

LEMMA ReadingStart == ReadingInit => ReadingInv
BY DEF ReadingInit, ReadingInv, LayersOK, KeptOK, ReadIsCurrent

LEMMA ReadingStep == ReadingInv /\ [ReadingNext]_readingVars => ReadingInv'
<1> SUFFICES ASSUME ReadingInv, [ReadingNext]_readingVars PROVE ReadingInv'
  OBVIOUS
<1> USE DEF ReadingInv
<1>1. ASSUME NEW l \in LayerForms, AppendLayer(l) PROVE ReadingInv'
  <2>1. layers' = Append(layers, l) /\ kept' = kept /\ readBack' = Missing
    BY <1>1 DEF AppendLayer
  <2>2. LayersOK' /\ Len(layers') = Len(layers) + 1 /\ Len(layers) \in Nat
    BY <2>1 DEF LayersOK
  <2>3. KeptOK'
    <3> SUFFICES ASSUME kept # Missing
                 PROVE  /\ kept = [size |-> kept.size, found |-> kept.found]
                        /\ kept.size \in 0..Len(layers')
                        /\ kept.found = Decoded(SubSeq(layers', 1, kept.size))
      BY <2>1 DEF KeptOK
    <3>1. /\ kept = [size |-> kept.size, found |-> kept.found]
          /\ kept.size \in 0..Len(layers)
          /\ kept.found = Decoded(SubSeq(layers, 1, kept.size))
      BY DEF KeptOK
    <3>2. SubSeq(layers', 1, kept.size) = SubSeq(layers, 1, kept.size)
      BY <2>1, <3>1, SubSeqStays DEF LayersOK
    <3>3. kept.size \in 0..Len(layers')
      BY <2>2, <3>1
    <3>4. kept.found = Decoded(SubSeq(layers', 1, kept.size))
      BY <3>1, <3>2
    <3> QED
      BY <3>1, <3>3, <3>4
  <2>4. ReadIsCurrent'
    BY <2>1 DEF ReadIsCurrent
  <2> QED
    BY <2>2, <2>3, <2>4
<1>2. ASSUME readAll PROVE ReadingInv'
  <2>1. layers' = layers /\ SubSeq(layers, 1, Len(layers)) = layers /\ Len(layers) \in Nat
    BY <1>2, AllOfIt DEF readAll, LayersOK
  <2>2. CASE fits(kept, Len(layers))
    <3>1. kept.found = Decoded(layers)
      BY <2>1, <2>2 DEF KeptOK, fits
    <3>2. kept' = kept /\ readBack' = kept.found
      BY <1>2, <2>2 DEF readAll
    <3> QED
      BY <2>1, <3>1, <3>2 DEF LayersOK, KeptOK, ReadIsCurrent
  <2>3. CASE ~ fits(kept, Len(layers))
    <3>1. kept' = [size |-> Len(layers), found |-> Decoded(layers)] /\ readBack' = Decoded(layers)
      BY <1>2, <2>3 DEF readAll
    <3>2. /\ kept' = [size |-> kept'.size, found |-> kept'.found]
          /\ kept'.size = Len(layers) /\ kept'.found = Decoded(layers)
      BY <3>1
    <3>3. kept'.size \in 0..Len(layers') /\ SubSeq(layers', 1, kept'.size) = layers
      BY <2>1, <3>2
    <3>4. KeptOK'
      BY <3>2, <3>3 DEF KeptOK
    <3> QED
      BY <2>1, <3>1, <3>4 DEF LayersOK, ReadIsCurrent
  <2> QED
    BY <2>2, <2>3
<1>3. CASE UNCHANGED readingVars
  BY <1>3 DEF readingVars, LayersOK, KeptOK, ReadIsCurrent
<1> QED
  BY <1>1, <1>2, <1>3 DEF ReadingNext

\* A layer as it can be.
LEMMA LayerIs ==
  ASSUME LayersOK
  PROVE  /\ Len(layers) \in Nat /\ DOMAIN layers = 1..Len(layers)
         /\ \A i \in DOMAIN layers :
              /\ layers[i] \in LayerForms /\ layers[i] # Missing
              /\ layers[i].names \in Seq(STRING) /\ Len(layers[i].names) \in Nat \ {0}
              /\ DOMAIN layers[i].names = 1..Len(layers[i].names)
              /\ layers[i].items \in Seq(Words \cup Nat) /\ Len(layers[i].items) \in Nat
              /\ DOMAIN layers[i].items = 1..Len(layers[i].items)
              /\ layers[i].kind = "scalar" => Len(layers[i].names) = 1
<1>1. /\ Len(layers) \in Nat /\ DOMAIN layers = 1..Len(layers)
      /\ \A i \in DOMAIN layers : layers[i] \in LayerForms
  BY DEF LayersOK
<1>2. ASSUME NEW l \in LayerForms
      PROVE  /\ l # Missing /\ l.names \in Seq(STRING) /\ Len(l.names) \in Nat \ {0}
             /\ DOMAIN l.names = 1..Len(l.names)
             /\ l.items \in Seq(Words \cup Nat) /\ Len(l.items) \in Nat
             /\ DOMAIN l.items = 1..Len(l.items)
             /\ l.kind = "scalar" => Len(l.names) = 1
  <2>1. /\ l # Missing /\ l.names \in Seq(STRING) /\ l.names # <<>> /\ l.items \in Seq(Words \cup Nat)
        /\ l.kind = "scalar" => Len(l.names) = 1
    BY ReadingAssumption
  <2>2. Len(l.names) \in Nat /\ DOMAIN l.names = 1..Len(l.names)
    BY <2>1, SeqIs
  <2>3. Len(l.names) # 0
    BY <2>1, SeqIs
  <2>4. Len(l.items) \in Nat /\ DOMAIN l.items = 1..Len(l.items)
    BY <2>1, SeqIs
  <2> QED
    BY <2>1, <2>2, <2>3, <2>4
<1> QED
  BY <1>1, <1>2

\* A metric that is said is a rate the layer carries at the place of its name.
LEMMA SaidIs ==
  ASSUME LayersOK, NEW i \in DOMAIN layers, layers[i].kind # "gob", NEW m \in Said(layers[i])
  PROVE  /\ m[2] \in Nat
         /\ \E j \in DOMAIN layers[i].items :
              /\ layers[i].items[j] = m[2]
              /\ \/ j \in DOMAIN layers[i].names /\ layers[i].names[j] = m[1]
                 \/ j = 1 /\ m[1] = layers[i].names[1]
<1> DEFINE l == layers[i]
<1>1. /\ Len(l.names) \in Nat \ {0} /\ DOMAIN l.names = 1..Len(l.names)
      /\ l.items \in Seq(Words \cup Nat) /\ Len(l.items) \in Nat /\ DOMAIN l.items = 1..Len(l.items)
  BY LayerIs
<1>2. m \in Named(l) /\ m[2] # Missing /\ m[2] \notin Words
  BY DEF Said, Number
<1> HIDE DEF l
<1>3. CASE l.kind = "array" /\ Len(l.names) > 1
  <2>1. PICK j \in 1..Min({Len(l.names), Len(l.items)}) : m = <<l.names[j], l.items[j]>>
    BY <1>2, <1>3 DEF Named
  <2>2. j \in DOMAIN l.names /\ j \in DOMAIN l.items
    <3>1. Min({Len(l.names), Len(l.items)})
            = IF Len(l.names) <= Len(l.items) THEN Len(l.names) ELSE Len(l.items)
      BY <1>1, MinPair
    <3> QED
      BY <1>1, <2>1, <3>1
  <2>3. l.items[j] \in Words \cup Nat
    BY <1>1, <2>2
  <2> QED
    BY <1>2, <2>1, <2>2, <2>3 DEF l
<1>4. CASE ~ (l.kind = "array" /\ Len(l.names) > 1)
  <2>1. m = <<l.names[1], First(l)>>
    BY <1>2, <1>4 DEF Named
  <2>2. l.items # <<>> /\ m[2] = l.items[1] /\ m[1] = l.names[1]
    BY <1>2, <2>1 DEF First
  <2>3. 1 \in DOMAIN l.items
    BY <1>1, <2>2, EmptySeq
  <2>4. l.items[1] \in Words \cup Nat
    BY <1>1, <2>3
  <2> QED
    BY <1>2, <2>2, <2>3, <2>4 DEF l
<1> QED
  BY <1>3, <1>4

\* metrics: each is a number that some layer carries at its name's place.
LEMMA MetricIs ==
  ASSUME LayersOK, NEW n \in DOMAIN metrics
  PROVE  \E i \in Live(layers) : n \in SaidNames(layers[i]) /\ metrics[n] \in Nat
           /\ <<n, metrics[n]>> \in Said(layers[i])
           /\ \A k \in Live(layers) : n \in SaidNames(layers[k]) => k <= i
<1> DEFINE places == {i \in Live(layers) : n \in SaidNames(layers[i])}
           last == Max(places)
           one == CHOOSE m \in Said(layers[last]) : m[1] = n
<1>1. n \in UNION {SaidNames(layers[i]) : i \in Live(layers)} /\ metrics[n] = one[2]
  BY DEF metrics
<1>2. places # {} /\ places \subseteq 1..Len(layers) /\ Len(layers) \in Nat
  BY <1>1, LayerIs DEF Live
<1>3. last \in places /\ \A i \in places : last >= i
  BY <1>2, FinalPlace
<1> HIDE DEF last
<1>4. one \in Said(layers[last]) /\ one[1] = n
  BY <1>3 DEF SaidNames
<1> HIDE DEF one
<1>5. last \in DOMAIN layers /\ layers[last].kind # "gob"
  BY <1>3, LayerIs DEF Live, tryDecodeJsonBytes
<1>6. one[2] \in Nat
  BY <1>4, <1>5, SaidIs
<1>7. one = <<one[1], one[2]>>
  BY <1>4 DEF Said, Named
<1>8. <<n, metrics[n]>> \in Said(layers[last])
  BY <1>1, <1>4, <1>7
<1>9. last \in Nat /\ \A k \in places : k \in Nat
  BY <1>2, <1>3
<1> QED
  BY <1>1, <1>3, <1>6, <1>8, <1>9

About(n) == {i \in DOMAIN layers : layers[i].under /\ n \in Range(layers[i].names)}

LEMMA MetricIsCarried ==
  ASSUME LayersOK, NEW n \in DOMAIN metrics
  PROVE  \E i \in About(n) : \E j \in DOMAIN layers[i].items :
           layers[i].items[j] = metrics[n] /\ (layers[i].names[j] = n \/ j = 1)
<1>1. PICK i \in Live(layers) : <<n, metrics[n]>> \in Said(layers[i])
  BY MetricIs
<1>2. i \in DOMAIN layers /\ layers[i].under /\ layers[i].kind # "gob"
  BY <1>1, LayerIs DEF Live, tryDecodeJsonBytes
<1>3. PICK j \in DOMAIN layers[i].items :
        /\ layers[i].items[j] = metrics[n]
        /\ \/ j \in DOMAIN layers[i].names /\ layers[i].names[j] = n
           \/ j = 1 /\ n = layers[i].names[1]
  BY <1>1, <1>2, SaidIs
<1>4. n \in Range(layers[i].names)
  <2>1. 1 \in DOMAIN layers[i].names
    BY <1>2, LayerIs
  <2> QED
    BY <1>3, <2>1 DEF Range
<1> QED
  BY <1>2, <1>3, <1>4 DEF About

\* The one layer that is about a name says it in both ways.
LEMMA OneReading ==
  ASSUME LayersOK, NEW n, Cardinality(About(n)) = 1, Number(metricAt(n))
  PROVE  n \in DOMAIN metrics /\ metrics[n] = metricAt(n)
<1> DEFINE there == {i \in DOMAIN layers : layers[i].under /\ layers[i].names = <<n>>}
           at == Min(there)
           l == layers[at]
<1>1. metricAt(n) # Missing /\ metricAt(n) \notin Words
  BY DEF Number
<1>2. /\ there # {} /\ l.kind # "gob" /\ tryDecodeJsonBytes(l) # Missing
      /\ metricAt(n) = First(l)
  <2>1. there # {}
    BY <1>1 DEF metricAt, reading
  <2>2. reading(<<n>>) = tryDecodeJsonBytes(l)
    BY <2>1 DEF reading
  <2> HIDE DEF there, at, l
  <2>3. tryDecodeJsonBytes(l) # Missing /\ metricAt(n) = First(tryDecodeJsonBytes(l))
    BY <1>1, <2>2 DEF metricAt
  <2>4. l.kind # "gob" /\ tryDecodeJsonBytes(l) = l
    BY <2>3 DEF tryDecodeJsonBytes
  <2> QED
    BY <2>1, <2>3, <2>4
<1>3. at \in there
  <2>1. Len(layers) \in Nat /\ there \subseteq 1..Len(layers) /\ there # {}
    BY <1>2, LayerIs
  <2> HIDE DEF there
  <2> QED
    BY <2>1, FirstPlace, Zenon
<1>4. at \in DOMAIN layers /\ l.under /\ l.names = <<n>> /\ at \in Live(layers)
  BY <1>2, <1>3 DEF Live
<1> HIDE DEF at
<1>5. Named(l) = {<<n, First(l)>>}
  BY <1>4 DEF Named
<1>6. Said(l) = {<<n, First(l)>>}
  BY <1>1, <1>2, <1>5 DEF Said, Number
<1>7. n \in SaidNames(l)
  BY <1>6 DEF SaidNames
<1>8. n \in DOMAIN metrics
  BY <1>4, <1>7 DEF metrics
<1>9. PICK k \in Live(layers) : <<n, metrics[n]>> \in Said(layers[k])
  BY <1>8, MetricIs
<1>10. at \in About(n)
  BY <1>4 DEF About, Range
<1>11. k \in About(n)
  <2>1. k \in DOMAIN layers /\ layers[k].under /\ layers[k].kind # "gob"
    BY <1>9, LayerIs DEF Live, tryDecodeJsonBytes
  <2>2. \/ \E j \in DOMAIN layers[k].names : layers[k].names[j] = n
        \/ n = layers[k].names[1]
    BY <1>9, <2>1, SaidIs
  <2>3. 1 \in DOMAIN layers[k].names
    BY <2>1, LayerIs
  <2> QED
    BY <2>1, <2>2, <2>3 DEF About, Range
<1>12. k = at
  <2>1. IsFiniteSet(About(n))
    <3>1. IsFiniteSet(DOMAIN layers)
      BY LayerIs, FS_Interval
    <3> QED
      BY <3>1, FS_Subset DEF About
  <2> QED
    BY <1>10, <1>11, <2>1, FS_Singleton
<1> QED
  BY <1>2, <1>6, <1>8, <1>9, <1>12

LEMMA MetricsRead == LayersOK => MetricsAgree
<1> SUFFICES ASSUME LayersOK PROVE MetricsAgree
  OBVIOUS
<1>1. \A n : {i \in DOMAIN layers : layers[i].under /\ n \in Range(layers[i].names)} = About(n)
  BY DEF About
<1> QED
  BY <1>1, MetricIsCarried, OneReading DEF MetricsAgree

\* hawkesSample: what is drawn fades, and what was not fitted rests below.
LEMMA SampleTraced == LayersOK => SampleCanBeTraced
<1> SUFFICES ASSUME LayersOK PROVE SampleCanBeTraced
  OBVIOUS
<1> DEFINE m == metrics
           side == provenance(<<"side">>)
           s == hawkesSample
<1>1. \A n \in DOMAIN m : m[n] \in Nat
  BY MetricIs
<1> HIDE DEF m
<1>2. \A name, other : other \in Nat => MetricOr(m, name, other) \in Nat
  BY <1>1 DEF MetricOr
<1>3. DecayOf(m) > 0
  BY <1>1, <1>2 DEF DecayOf, MetricOr
<1>4. CASE side # Missing /\ {"buy_from_buy", "decay"} \subseteq DOMAIN m
  <2>1. s = FittedSample(m, side)
    BY <1>4 DEF hawkesSample, m
  <2>2. m["decay"] \in Nat
    BY <1>1, <1>4
  <2>3. s.kind = "sample" => s.decay = m["decay"] /\ m["decay"] # 0
    BY <2>1 DEF FittedSample
  <2> HIDE DEF s
  <2>4. s.kind = "sample" => s.decay > 0
    BY <2>2, <2>3
  <2> QED
    BY <1>4, <2>4 DEF SampleCanBeTraced, s
<1>5. CASE ~ (side # Missing /\ {"buy_from_buy", "decay"} \subseteq DOMAIN m)
  <2> DEFINE came == MetricOr(m, "arrival:buy", 0) + MetricOr(m, "arrival:sell", 0)
             level == IF MetricOr(m, "intensity", 0) > 0 THEN m["intensity"] ELSE came
             rest == MetricOr(m, "background",
                              MetricOr(m, "background:buy", 0) + MetricOr(m, "background:sell", 0))
             base == IF rest > 0 /\ rest < level THEN rest
                     ELSE IF came > 0 /\ came < level THEN came
                     ELSE (level * 85) \div 100
  <2>1. s = LevelSample(m)
    BY <1>5 DEF hawkesSample, m
  <2>2. s.decay = DecayOf(m) /\ s.baseline = base /\ s.intensity = level
    BY <2>1 DEF LevelSample
  <2>3. came \in Nat /\ rest \in Nat
    BY <1>2
  <2>4. level \in Nat
    BY <1>1, <2>3 DEF MetricOr
  <2> HIDE DEF came, level, rest
  <2>5. base <= level
    BY <2>3, <2>4
  <2> HIDE DEF s, base
  <2> QED
    BY <1>3, <2>2, <2>5 DEF SampleCanBeTraced, s
<1> QED
  BY <1>4, <1>5

-----------------------------------------------------------------------------
(* What is written into the page: Bindings. *)

\* The newest cap entries of a sequence end where it ends.
LEMMA NewestOf ==
  ASSUME NEW T, NEW s \in Seq(T), NEW cap \in Nat \ {0}
  PROVE  LET c == SubSeq(s, Max({1, Len(s) - cap + 1}), Len(s))
         IN  c \in Seq(T) /\ (s = <<>> <=> c = <<>>) /\ (s # <<>> => Last(c) = Last(s))
<1> DEFINE n == Len(s)
           from == Max({1, n - cap + 1})
           c == SubSeq(s, from, n)
<1>1. n \in Nat /\ DOMAIN s = 1..n
  OBVIOUS
<1>2. from \in Nat \ {0} /\ from <= n + 1 /\ (n > 0 => from <= n)
  BY <1>1, MaxPair
<1> HIDE DEF from
<1>3. c = [i \in 1..(n - from + 1) |-> s[i + from - 1]] /\ Len(c) = n - from + 1
  BY <1>1, <1>2
<1>4. \A i \in 1..(n - from + 1) : s[i + from - 1] \in T
  <2>1. \A i \in 1..(n - from + 1) : i + from - 1 \in 1..n
    BY <1>1, <1>2
  <2> QED
    BY <1>1, <2>1
<1> HIDE DEF c
<1>5. c \in Seq(T)
  <2>1. n - from + 1 \in Nat
    BY <1>1, <1>2
  <2> QED
    BY <1>3, <1>4, <2>1
<1>6. s = <<>> <=> n = 0
  BY <1>1
<1>7. c = <<>> <=> n - from + 1 = 0
  BY <1>3, <1>5, SeqIs
<1>8. s = <<>> <=> c = <<>>
  BY <1>1, <1>2, <1>6, <1>7
<1>9. s # <<>> => Last(c) = Last(s)
  <2>1. ASSUME n > 0 PROVE c[n - from + 1] = s[n]
    BY <1>1, <1>2, <1>3, <2>1
  <2>2. Last(c) = c[n - from + 1] /\ Last(s) = s[n]
    BY <1>3 DEF Last
  <2>3. s # <<>> => n > 0
    BY <1>1, <1>6
  <2> QED
    BY <2>1, <2>2, <2>3
<1> QED
  BY <1>5, <1>8, <1>9 DEF c, from

\* What a frame draws.
Written == UNION {{Of(s, r[m]) : s \in Tickers, m \in DOMAIN r} : r \in FrameReadings}

\* The cell the sparkline stands beside.
TextCell == <<"text", Headline>>

UiForm(u) ==
  /\ u = [dom |-> u.dom, asked |-> u.asked, listed |-> u.listed, window |-> u.window]
  /\ u.dom = [k \in Cells |-> u.dom[k]]
  /\ u.asked = [k \in Cells |-> u.asked[k]]
  /\ u.listed \in {NoFrame} \cup SUBSET Cells
  /\ u.window \in Seq(Written)

SparkOK(u) ==
  TextCell \in Cells =>
    /\ u.dom[TextCell] \in {Gone, Fallback} \cup Written
    /\ u.asked[TextCell] = "held" => u.dom[TextCell] # Gone
    /\ u.window # <<>> => u.asked[TextCell] # "unasked"
    /\ (/\ u.asked[TextCell] = "held" /\ u.window # <<>>
        /\ u.listed # NoFrame => TextCell \in u.listed)
       => u.dom[TextCell] = Last(u.window)

LEMMA NotGone == Fallback # Gone /\ Gone \notin Written
BY BindingAssumption DEF Written, Of

LEMMA WindowPut ==
  ASSUME NEW dom, NEW looked, NEW listed, NEW window, NEW new, NEW u,
         u = [dom |-> dom, asked |-> looked, listed |-> listed, window |-> window]
  PROVE  [u EXCEPT !.window = new] = [dom |-> dom, asked |-> looked, listed |-> listed, window |-> new]
OBVIOUS

LEMMA ListedPut ==
  ASSUME NEW dom, NEW looked, NEW listed, NEW window, NEW new, NEW u,
         u = [dom |-> dom, asked |-> looked, listed |-> listed, window |-> window]
  PROVE  [u EXCEPT !.listed = new] = [dom |-> dom, asked |-> looked, listed |-> new, window |-> window]
OBVIOUS

\* A frame: what was looked up is written, and its headline drawn.
LEMMA FrameShown ==
  ASSUME NEW u, UiForm(u), SparkOK(u), NEW s \in Tickers, NEW r \in FrameReadings
  PROVE  LET x == appendSeries(walkFrame(u, s, r), s, r)
         IN  /\ UiForm(x) /\ SparkOK(x) /\ x.listed = u.listed
             /\ \A k \in Cells : x.dom[k] = u.dom[k] \/ x.dom[k].of = s
<1> DEFINE names == DOMAIN r
           w == memoizedQuery(u, names)
           b == bind(u, s, r)
           x == appendSeries(b, s, r)
           asks == [k \in Cells |->
                      IF u.asked[k] # "unasked" \/ k[2] \notin names THEN u.asked[k]
                      ELSE IF u.dom[k] = Gone THEN "null" ELSE "held"]
           shows == [k \in Cells |->
                       IF k[2] \in names /\ asks[k] = "held"
                       THEN renderValue(k, s, r[k[2]], u.dom[k]) ELSE u.dom[k]]
           given == [i \in DOMAIN sampleMetric(r) |-> Of(s, sampleMetric(r)[i])]
           all == u.window \o given
           new == SubSeq(all, Max({1, Len(all) - SeriesWindow + 1}), Len(all))
<1>1. w = [dom |-> u.dom, asked |-> asks, listed |-> u.listed, window |-> u.window]
  BY DEF memoizedQuery, UiForm
<1>2. b = [dom |-> shows, asked |-> asks, listed |-> u.listed, window |-> u.window]
  BY <1>1 DEF bind
<1> HIDE DEF w, b, asks, shows
<1>3. x = [dom |-> shows, asked |-> asks, listed |-> u.listed, window |-> new]
  <2>1. b.window = u.window
    BY <1>2
  <2>2. x = [b EXCEPT !.window = new]
    BY <2>1 DEF appendSeries
  <2> QED
    BY <1>2, <2>2, WindowPut
<1>4. walkFrame(u, s, r) = b
  BY DEF walkFrame, b
<1> HIDE DEF x
<1>5. \A k \in Cells : shows[k] = u.dom[k] \/ shows[k].of = s
  BY DEF renderValue, Of, shows
<1>6. given = IF Headline \in names /\ r[Headline] # NaN THEN <<Of(s, r[Headline])>> ELSE <<>>
  BY DEF sampleMetric
<1>7. Headline \in names => Of(s, r[Headline]) \in Written
  BY DEF Written
<1>8. given \in Seq(Written) /\ (given # <<>> <=> Headline \in names /\ r[Headline] # NaN)
      /\ (given # <<>> => given = <<Of(s, r[Headline])>>)
  BY <1>6, <1>7
<1> HIDE DEF given
<1>9. all \in Seq(Written) /\ (given = <<>> => all = u.window)
      /\ (given # <<>> => all # <<>> /\ Last(all) = Of(s, r[Headline]))
  <2>1. u.window \in Seq(Written)
    BY DEF UiForm
  <2>2. CASE given = <<>>
    BY <2>1, <2>2
  <2>3. CASE given # <<>>
    <3>1. given = <<Of(s, r[Headline])>> /\ Of(s, r[Headline]) \in Written
      BY <1>7, <1>8, <2>3
    <3>2. all = Append(u.window, Of(s, r[Headline]))
      BY <2>1, <3>1
    <3>3. all \in Seq(Written) /\ Len(all) = Len(u.window) + 1 /\ all[Len(all)] = Of(s, r[Headline])
      BY <2>1, <3>1, <3>2
    <3>4. all # <<>>
      BY <2>1, <3>3
    <3> QED
      BY <2>3, <3>3, <3>4 DEF Last
  <2> QED
    BY <2>2, <2>3
<1> HIDE DEF all
<1>10. new \in Seq(Written) /\ (all = <<>> <=> new = <<>>) /\ (all # <<>> => Last(new) = Last(all))
  BY <1>9, NewestOf, BindingAssumption
<1> HIDE DEF new
<1>11. UiForm(x) /\ x.listed = u.listed
  <2>1. asks = [k \in Cells |-> asks[k]] /\ shows = [k \in Cells |-> shows[k]]
    BY DEF asks, shows
  <2> QED
    BY <1>3, <1>10, <2>1 DEF UiForm
<1>12. SparkOK(x)
  <2> SUFFICES ASSUME TextCell \in Cells
               PROVE  /\ shows[TextCell] \in {Gone, Fallback} \cup Written
                      /\ asks[TextCell] = "held" => shows[TextCell] # Gone
                      /\ new # <<>> => asks[TextCell] # "unasked"
                      /\ (/\ asks[TextCell] = "held" /\ new # <<>>
                          /\ u.listed # NoFrame => TextCell \in u.listed)
                         => shows[TextCell] = Last(new)
    BY <1>3 DEF SparkOK
  <2> DEFINE K == TextCell
  <2>1. K[1] = "text" /\ K[2] = Headline
    BY DEF TextCell
  <2>2. asks[K] = IF u.asked[K] # "unasked" \/ Headline \notin names THEN u.asked[K]
                  ELSE IF u.dom[K] = Gone THEN "null" ELSE "held"
    BY <2>1 DEF asks
  <2>3. shows[K] = IF Headline \in names /\ asks[K] = "held"
                   THEN IF r[Headline] = NaN THEN u.dom[K] ELSE Of(s, r[Headline]) ELSE u.dom[K]
    BY <2>1 DEF shows, renderValue
  <2>4. /\ u.dom[K] \in {Gone, Fallback} \cup Written
        /\ u.asked[K] = "held" => u.dom[K] # Gone
        /\ u.window # <<>> => u.asked[K] # "unasked"
        /\ (/\ u.asked[K] = "held" /\ u.window # <<>>
            /\ u.listed # NoFrame => K \in u.listed)
           => u.dom[K] = Last(u.window)
    BY DEF SparkOK
  <2> HIDE DEF K
  <2>5. /\ shows[K] \in {Gone, Fallback} \cup Written
        /\ asks[K] = "held" => shows[K] # Gone
    BY <1>7, <2>2, <2>3, <2>4, NotGone
  <2>6. ASSUME new # <<>> PROVE asks[K] # "unasked"
    BY <1>8, <1>9, <1>10, <2>2, <2>4, <2>6
  <2>7. ASSUME asks[K] = "held", new # <<>>, u.listed # NoFrame => K \in u.listed
        PROVE  shows[K] = Last(new)
    BY <1>8, <1>9, <1>10, <2>2, <2>3, <2>4, <2>7
  <2> QED
    BY <2>5, <2>6, <2>7 DEF K
<1> QED
  BY <1>3, <1>4, <1>5, <1>11, <1>12 DEF x

\* resetRoot: what was listed shows its fallback and nothing is drawn.
LEMMA ResetShown ==
  ASSUME NEW u, UiForm(u), SparkOK(u)
  PROVE  LET x == resetRoot(u)
         IN  /\ UiForm(x) /\ SparkOK(x) /\ x.listed # NoFrame
             /\ \A k \in x.listed : x.dom[k] = Fallback
<1> DEFINE L == IF u.listed = NoFrame THEN {k \in Cells : u.dom[k] # Gone} ELSE u.listed
           w == memoizedQueryAll(u)
           v == resetValue(w, w.listed)
           x == resetRoot(u)
           shows == [k \in Cells |-> IF k \in L THEN Fallback ELSE u.dom[k]]
<1>1. w = [dom |-> u.dom, asked |-> u.asked, listed |-> L, window |-> u.window]
  <2>1. w = [u EXCEPT !.listed = L]
    BY DEF memoizedQueryAll
  <2>2. u = [dom |-> u.dom, asked |-> u.asked, listed |-> u.listed, window |-> u.window]
    BY DEF UiForm
  <2> HIDE DEF w, L
  <2> QED
    BY <2>1, <2>2, ListedPut
<1>2. L \in SUBSET Cells /\ L # NoFrame
  BY BindingAssumption DEF UiForm
<1> HIDE DEF w, L
<1>3. v = [dom |-> shows, asked |-> u.asked, listed |-> L, window |-> u.window]
  BY <1>1 DEF resetValue
<1> HIDE DEF v, shows
<1>4. x = [dom |-> shows, asked |-> u.asked, listed |-> L, window |-> <<>>]
  BY <1>3, WindowPut DEF resetRoot, v, w
<1> HIDE DEF x
<1>5. UiForm(x)
  <2>1. shows = [k \in Cells |-> shows[k]]
    BY DEF shows
  <2> QED
    BY <1>2, <1>4, <2>1 DEF UiForm
<1>6. SparkOK(x)
  <2> SUFFICES ASSUME TextCell \in Cells
               PROVE  /\ shows[TextCell] \in {Gone, Fallback} \cup Written
                      /\ u.asked[TextCell] = "held" => shows[TextCell] # Gone
    BY <1>4 DEF SparkOK
  <2>1. shows[TextCell] = IF TextCell \in L THEN Fallback ELSE u.dom[TextCell]
    BY DEF shows
  <2> QED
    BY <2>1, NotGone DEF SparkOK
<1>7. \A k \in x.listed : x.dom[k] = Fallback
  BY <1>2, <1>4 DEF shows
<1> QED
  BY <1>2, <1>4, <1>5, <1>6, <1>7 DEF x

\* A component on a store shows its own symbol's readings.
OwnSymbol(u, s, frame) ==
  /\ u.listed # NoFrame
  /\ \A k \in u.listed : u.dom[k] # Fallback => u.dom[k].of = s /\ frame # NoFrame

LEMMA UpdateShown ==
  ASSUME NEW u, UiForm(u), SparkOK(u), NEW s \in Tickers, u.listed # NoFrame,
         \A k \in u.listed : u.dom[k] # Fallback => u.dom[k].of = s,
         NEW r \in FrameReadings \cup {NoFrame}
  PROVE  LET x == update(u, s, r) IN UiForm(x) /\ SparkOK(x) /\ OwnSymbol(x, s, r)
<1>1. CASE r = NoFrame
  BY <1>1, ResetShown DEF update, OwnSymbol
<1>2. CASE r # NoFrame
  <2> DEFINE x == appendSeries(walkFrame(u, s, r), s, r)
  <2>1. /\ UiForm(x) /\ SparkOK(x) /\ x.listed = u.listed
        /\ \A k \in Cells : x.dom[k] = u.dom[k] \/ x.dom[k].of = s
    BY <1>2, FrameShown
  <2>2. update(u, s, r) = x
    BY <1>2 DEF update
  <2> HIDE DEF x
  <2>3. \A k \in u.listed : k \in Cells
    BY DEF UiForm
  <2>4. OwnSymbol(x, s, r)
    BY <1>2, <2>1, <2>3 DEF OwnSymbol
  <2> QED
    BY <2>1, <2>2, <2>4
<1> QED
  BY <1>1, <1>2

Framed == frameOf \in [Tickers -> FrameReadings \cup {NoFrame}]

LEMMA EffectShown ==
  ASSUME NEW u, UiForm(u), SparkOK(u), NEW s \in Tickers, Framed, NEW mode \in {"store", "value"}
  PROVE  LET x == Effect(u, mode, s)
         IN  /\ UiForm(x) /\ SparkOK(x)
             /\ mode = "store" => OwnSymbol(x, s, frameOf[s])
<1>1. frameOf[s] \in FrameReadings \cup {NoFrame}
  BY DEF Framed
<1>2. CASE mode = "store"
  <2> DEFINE y == resetRoot(u)
  <2>1. /\ UiForm(y) /\ SparkOK(y) /\ y.listed # NoFrame
        /\ \A k \in y.listed : y.dom[k] = Fallback
    BY ResetShown
  <2>2. Effect(u, mode, s) = IF frameOf[s] = NoFrame THEN y ELSE update(y, s, frameOf[s])
    BY <1>2 DEF Effect, StoreEffect
  <2> HIDE DEF y
  <2>3. OwnSymbol(y, s, frameOf[s])
    BY <2>1 DEF OwnSymbol
  <2>4. LET x == update(y, s, frameOf[s]) IN UiForm(x) /\ SparkOK(x) /\ OwnSymbol(x, s, frameOf[s])
    BY <1>1, <2>1, UpdateShown
  <2> QED
    BY <2>1, <2>2, <2>3, <2>4
<1>3. CASE mode = "value"
  <2>1. Effect(u, mode, s) = IF frameOf[s] = NoFrame THEN u
                             ELSE appendSeries(walkFrame(u, s, frameOf[s]), s, frameOf[s])
    BY <1>3 DEF Effect, ValueEffect
  <2>2. CASE frameOf[s] = NoFrame
    BY <1>3, <2>1, <2>2
  <2>3. CASE frameOf[s] # NoFrame
    BY <1>1, <1>3, <2>1, <2>3, FrameShown
  <2> QED
    BY <2>2, <2>3
<1> QED
  BY <1>2, <1>3

CompOK ==
  /\ comp = [mode |-> comp.mode, symbol |-> comp.symbol]
  /\ comp.mode # "off" => comp.mode \in {"store", "value"} /\ comp.symbol \in Tickers

BindInv ==
  /\ Framed /\ CompOK /\ UiForm(ui) /\ SparkOK(ui)
  /\ comp.mode = "store" => OwnSymbol(ui, comp.symbol, frameOf[comp.symbol])

LEMMA UnaskedShown ==
  ASSUME NEW dom, dom = [k \in Cells |-> dom[k]], \A k \in Cells : dom[k] \in {Gone, Fallback}
  PROVE  UiForm(Unasked(dom)) /\ SparkOK(Unasked(dom))
<1> DEFINE u == Unasked(dom)
<1>1. /\ u.dom = dom /\ u.asked = [k \in Cells |-> "unasked"] /\ u.listed = NoFrame
      /\ u.window = <<>> /\ u = [dom |-> u.dom, asked |-> u.asked, listed |-> u.listed, window |-> u.window]
  BY DEF Unasked
<1> HIDE DEF u
<1>2. UiForm(u)
  BY <1>1 DEF UiForm
<1>3. SparkOK(u)
  BY <1>1 DEF SparkOK
<1> QED
  BY <1>2, <1>3 DEF u

LEMMA BindStart == BindingInit => BindInv
<1> SUFFICES ASSUME BindingInit PROVE BindInv
  OBVIOUS
<1> DEFINE gone == [k \in Cells |-> Gone]
<1>1. UiForm(Unasked(gone)) /\ SparkOK(Unasked(gone))
  BY UnaskedShown
<1> HIDE DEF gone
<1>2. ui = Unasked(gone)
  BY DEF BindingInit, gone
<1>3. Framed /\ CompOK /\ comp.mode = "off"
  BY DEF BindingInit, Framed, CompOK
<1> QED
  BY <1>1, <1>2, <1>3 DEF BindInv

LEMMA BindStep == BindInv /\ [BindingNext]_bindingVars => BindInv'
<1> SUFFICES ASSUME BindInv, [BindingNext]_bindingVars PROVE BindInv'
  OBVIOUS
<1> USE DEF BindInv
<1>1. ASSUME NEW mode \in {"store", "value"}, NEW s \in Tickers, Mount(mode, s) PROVE BindInv'
  <2>1. PICK there \in SUBSET Cells :
          /\ comp' = [mode |-> mode, symbol |-> s] /\ frameOf' = frameOf
          /\ ui' = Effect(Unasked([k \in Cells |-> IF k \in there THEN Fallback ELSE Gone]), mode, s)
    BY <1>1 DEF Mount
  <2> DEFINE dom == [k \in Cells |-> IF k \in there THEN Fallback ELSE Gone]
  <2>2. UiForm(Unasked(dom)) /\ SparkOK(Unasked(dom))
    BY UnaskedShown
  <2>3. ui' = Effect(Unasked(dom), mode, s)
    BY <2>1
  <2> HIDE DEF dom
  <2>4. /\ UiForm(ui') /\ SparkOK(ui')
        /\ mode = "store" => OwnSymbol(ui', s, frameOf[s])
    BY <2>2, <2>3, EffectShown
  <2>5. comp'.mode = mode /\ comp'.symbol = s /\ CompOK'
    BY <2>1 DEF CompOK
  <2> QED
    BY <2>1, <2>4, <2>5 DEF Framed, UiForm, SparkOK
<1>2. ASSUME Unmount PROVE BindInv'
  <2> DEFINE gone == [k \in Cells |-> Gone]
  <2>1. UiForm(Unasked(gone)) /\ SparkOK(Unasked(gone))
    BY UnaskedShown
  <2> HIDE DEF gone
  <2>2. ui' = Unasked(gone) /\ frameOf' = frameOf /\ comp' = [comp EXCEPT !.mode = "off"]
    BY <1>2 DEF Unmount, gone
  <2>3. comp'.mode = "off" /\ CompOK'
    BY <2>2 DEF CompOK
  <2> QED
    BY <2>1, <2>2, <2>3 DEF Framed, UiForm, SparkOK
<1>3. ASSUME NEW s \in Tickers, ChangeProps(s) PROVE BindInv'
  <2>1. comp.mode # "off" /\ comp' = [comp EXCEPT !.symbol = s] /\ frameOf' = frameOf
        /\ ui' = Effect(ui, comp.mode, s)
    BY <1>3 DEF ChangeProps
  <2>2. comp.mode \in {"store", "value"} /\ comp'.mode = comp.mode /\ comp'.symbol = s /\ CompOK'
    BY <2>1 DEF CompOK
  <2>3. /\ UiForm(ui') /\ SparkOK(ui')
        /\ comp.mode = "store" => OwnSymbol(ui', s, frameOf[s])
    BY <2>1, <2>2, EffectShown
  <2> QED
    BY <2>1, <2>2, <2>3 DEF Framed, UiForm, SparkOK
<1>4. ASSUME NEW s \in Tickers, NEW r \in FrameReadings \cup {NoFrame}, StoreChanges(s, r)
      PROVE  BindInv'
  <2>1. /\ frameOf' = [frameOf EXCEPT ![s] = r] /\ comp' = comp
        /\ ui' = IF comp.mode = "store" THEN update(ui, comp.symbol, frameOf'[comp.symbol])
                 ELSE IF comp.mode = "value" /\ s = comp.symbol /\ r # NoFrame
                 THEN appendSeries(walkFrame(ui, s, r), s, r) ELSE ui
    BY <1>4 DEF StoreChanges
  <2>2. Framed' /\ CompOK'
    <3>1. Framed'
      BY <2>1 DEF Framed
    <3> QED
      BY <2>1, <3>1 DEF CompOK
  <2>3. CASE comp.mode = "store"
    <3>1. comp.symbol \in Tickers /\ frameOf'[comp.symbol] \in FrameReadings \cup {NoFrame}
      BY <2>2, <2>3 DEF CompOK, Framed
    <3>2. /\ ui.listed # NoFrame
          /\ \A k \in ui.listed : ui.dom[k] # Fallback => ui.dom[k].of = comp.symbol
      BY <2>3 DEF OwnSymbol
    <3>3. ui' = update(ui, comp.symbol, frameOf'[comp.symbol])
      BY <2>1, <2>3
    <3>4. UiForm(ui') /\ SparkOK(ui') /\ OwnSymbol(ui', comp.symbol, frameOf'[comp.symbol])
      BY <3>1, <3>2, <3>3, UpdateShown
    <3> QED
      BY <2>1, <2>2, <3>4 DEF UiForm, SparkOK
  <2>4. CASE comp.mode # "store"
    <3>1. UiForm(ui') /\ SparkOK(ui')
      BY <2>1, <2>4, FrameShown
    <3> QED
      BY <2>1, <2>2, <2>4, <3>1 DEF UiForm, SparkOK
  <2> QED
    BY <2>3, <2>4
<1>5. ASSUME NEW c \in Cells, ChildChanges(c) PROVE BindInv'
  <2>1. /\ comp.mode # "off" /\ frameOf' = frameOf /\ comp' = comp
        /\ ui' = IF ui.dom[c] = Gone THEN [ui EXCEPT !.dom[c] = Fallback]
                 ELSE [ui EXCEPT !.dom[c] = Gone, !.asked[c] = IF @ = "held" THEN "null" ELSE @,
                                 !.listed = IF @ = NoFrame THEN @ ELSE @ \ {c}]
    BY <1>5 DEF ChildChanges
  <2>2. ui = [dom |-> ui.dom, asked |-> ui.asked, listed |-> ui.listed, window |-> ui.window]
        /\ ui.dom = [k \in Cells |-> ui.dom[k]] /\ ui.asked = [k \in Cells |-> ui.asked[k]]
        /\ ui.listed \in {NoFrame} \cup SUBSET Cells /\ ui.window \in Seq(Written)
    BY DEF UiForm
  <2>3. CASE ui.dom[c] = Gone
    <3> DEFINE shows == [ui.dom EXCEPT ![c] = Fallback]
    <3>1. ui' = [dom |-> shows, asked |-> ui.asked, listed |-> ui.listed, window |-> ui.window]
      BY <2>1, <2>2, <2>3
    <3>2. shows = [k \in Cells |-> shows[k]]
          /\ \A k \in Cells : shows[k] = IF k = c THEN Fallback ELSE ui.dom[k]
      BY <2>2
    <3> HIDE DEF shows
    <3>3. UiForm(ui')
      BY <2>2, <3>1, <3>2 DEF UiForm
    <3>4. SparkOK(ui')
      BY <2>2, <2>3, <3>1, <3>2, NotGone DEF SparkOK
    <3>5. comp.mode = "store" => OwnSymbol(ui', comp.symbol, frameOf[comp.symbol])
      BY <2>2, <3>1, <3>2 DEF OwnSymbol
    <3> QED
      BY <2>1, <3>3, <3>4, <3>5 DEF Framed, CompOK, UiForm, SparkOK
  <2>4. CASE ui.dom[c] # Gone
    <3> DEFINE shows == [ui.dom EXCEPT ![c] = Gone]
               looked == [ui.asked EXCEPT ![c] = IF @ = "held" THEN "null" ELSE @]
               L == IF ui.listed = NoFrame THEN NoFrame ELSE ui.listed \ {c}
    <3>1. ui' = [dom |-> shows, asked |-> looked, listed |-> L, window |-> ui.window]
      BY <2>1, <2>2, <2>4
    <3>2. /\ shows = [k \in Cells |-> shows[k]] /\ looked = [k \in Cells |-> looked[k]]
          /\ \A k \in Cells : shows[k] = IF k = c THEN Gone ELSE ui.dom[k]
          /\ \A k \in Cells : looked[k] = IF k = c /\ ui.asked[k] = "held" THEN "null" ELSE ui.asked[k]
      BY <2>2
    <3>3. L \in {NoFrame} \cup SUBSET Cells /\ (L = NoFrame <=> ui.listed = NoFrame)
          /\ (ui.listed # NoFrame => L = ui.listed \ {c})
      BY <2>2, BindingAssumption
    <3> HIDE DEF shows, looked, L
    <3>4. UiForm(ui')
      BY <2>2, <3>1, <3>2, <3>3 DEF UiForm
    <3>5. SparkOK(ui')
      BY <2>2, <2>4, <3>1, <3>2, <3>3, NotGone DEF SparkOK
    <3>6. comp.mode = "store" => OwnSymbol(ui', comp.symbol, frameOf[comp.symbol])
      BY <2>2, <3>1, <3>2, <3>3 DEF OwnSymbol
    <3> QED
      BY <2>1, <3>4, <3>5, <3>6 DEF Framed, CompOK, UiForm, SparkOK
  <2> QED
    BY <2>3, <2>4
<1>6. CASE UNCHANGED bindingVars
  BY <1>6 DEF bindingVars, Framed, CompOK, UiForm, SparkOK, OwnSymbol
<1> QED
  BY <1>1, <1>2, <1>3, <1>4, <1>5, <1>6 DEF BindingNext

LEMMA BindAnswers == BindInv => ReadingsAreOfSymbol /\ SparkAgreesWithText
BY DEF BindInv, OwnSymbol, SparkOK, TextCell, ReadingsAreOfSymbol, SparkAgreesWithText

-----------------------------------------------------------------------------
(* The kernel inspector: Inspector. *)

\* A quotient is at least what fits and at most what does not exceed it.
LEMMA QuotientIs ==
  ASSUME NEW r \in Nat \ {0}, NEW x \in Int, NEW q \in Int
  PROVE  /\ x \div r \in Int
         /\ q * r <= x => q <= x \div r
         /\ x < (q + 1) * r => x \div r <= q
<1> DEFINE p == x \div r
           t == x % r
<1>1. p \in Int /\ t \in 0..(r - 1) /\ x = r * p + t
  OBVIOUS
<1> HIDE DEF p, t
<1>2. ASSUME q * r <= x, p + 1 <= q PROVE FALSE
  <2>1. PICK k \in Nat : q = p + 1 + k
    <3>1. q - (p + 1) \in Nat /\ q = p + 1 + (q - (p + 1))
      BY <1>1, <1>2
    <3> QED
      BY <3>1
  <2>2. q * r = r * p + r + r * k /\ r * k >= 0
    BY <1>1, <2>1
  <2> QED
    BY <1>1, <1>2, <2>2
<1>3. ASSUME x < (q + 1) * r, q + 1 <= p PROVE FALSE
  <2>1. PICK k \in Nat : p = q + 1 + k
    <3>1. p - (q + 1) \in Nat /\ p = q + 1 + (p - (q + 1))
      BY <1>1, <1>3
    <3> QED
      BY <3>1
  <2>2. r * p = (q + 1) * r + r * k /\ r * k >= 0
    BY <1>1, <2>1
  <2> QED
    BY <1>1, <1>3, <2>2
<1>4. (q * r <= x => q <= p) /\ (x < (q + 1) * r => p <= q)
  BY <1>1, <1>2, <1>3
<1> QED
  BY <1>1, <1>4 DEF p

LEMMA QuotientRises ==
  ASSUME NEW r \in Nat \ {0}, NEW x \in Int, NEW y \in Int, x <= y
  PROVE  x \div r <= y \div r
<1> DEFINE q == x \div r
<1>1. q \in Int /\ q * r <= x
  OBVIOUS
<1> HIDE DEF q
<1>2. q * r <= y
  <2>1. q * r \in Int
    BY <1>1
  <2> QED
    BY <1>1, <2>1
<1> QED
  BY <1>1, <1>2, QuotientIs DEF q

\* A reading on its range is on the scale.
LEMMA OnScale ==
  ASSUME NEW r \in Nat \ {0}, NEW a \in 0..r
  PROVE  (1000 * a) \div r \in 0..1000
<1>1. 0 * r <= 1000 * a /\ 1000 * a \in Int
  OBVIOUS
<1>2. 1000 * a < (1000 + 1) * r
  OBVIOUS
<1>3. 0 <= (1000 * a) \div r
  BY <1>1, QuotientIs
<1>4. (1000 * a) \div r <= 1000
  BY <1>1, <1>2, QuotientIs
<1> QED
  BY <1>1, <1>3, <1>4, QuotientIs

\* Of finitely many numbers one is the least and one the greatest.
LEMMA EndsOf ==
  ASSUME NEW n \in Nat \ {0}, NEW f \in [1..n -> Int]
  PROVE  \E i, k \in 1..n : \A j \in 1..n : f[i] <= f[j] /\ f[j] <= f[k]
<1> DEFINE Up == {m \in 0..n : m = 0 \/ \E i, k \in 1..m : \A j \in 1..m : f[i] <= f[j] /\ f[j] <= f[k]}
<1>1. 0 \in Up
  OBVIOUS
<1>2. ASSUME NEW m \in 0..(n - 1), m \in Up PROVE m + 1 \in Up
  <2>1. CASE m = 0
    <3>1. \A j \in 1..1 : f[1] <= f[j] /\ f[j] <= f[1]
      OBVIOUS
    <3> QED
      BY <2>1, <3>1
  <2>2. CASE m # 0
    <3>1. PICK i \in 1..m, k \in 1..m : \A j \in 1..m : f[i] <= f[j] /\ f[j] <= f[k]
      BY <1>2, <2>2
    <3>2. i \in 1..(m + 1) /\ k \in 1..(m + 1) /\ m + 1 \in 1..(m + 1) /\ m + 1 \in 1..n
      OBVIOUS
    <3>3. \A j \in 1..(m + 1) : (j \in 1..m \/ j = m + 1) /\ f[j] \in Int
      OBVIOUS
    <3>4. PICK a \in {i, m + 1} : f[a] <= f[i] /\ f[a] <= f[m + 1]
      BY <3>2, <3>3
    <3>5. PICK b \in {k, m + 1} : f[k] <= f[b] /\ f[m + 1] <= f[b]
      BY <3>2, <3>3
    <3>6. a \in 1..(m + 1) /\ b \in 1..(m + 1)
      BY <3>2
    <3>7. \A j \in 1..(m + 1) : f[a] <= f[j] /\ f[j] <= f[b]
      BY <3>1, <3>2, <3>3, <3>4, <3>5, <3>6
    <3>8. m + 1 \in 0..n
      OBVIOUS
    <3> QED
      BY <3>6, <3>7, <3>8
  <2> QED
    BY <2>1, <2>2
<1> HIDE DEF Up
<1>3. n \in Up
  BY <1>1, <1>2, UpTo
<1> QED
  BY <1>3 DEF Up

LEMMA RangeEnds ==
  ASSUME NEW s \in Seq(Int), s # <<>>
  PROVE  /\ Min(Range(s)) \in Int /\ Max(Range(s)) \in Int
         /\ \A i \in DOMAIN s : Min(Range(s)) <= s[i] /\ s[i] <= Max(Range(s))
<1>1. Len(s) \in Nat \ {0} /\ s \in [1..Len(s) -> Int] /\ DOMAIN s = 1..Len(s)
  BY SeqIs
<1>2. PICK i \in 1..Len(s), k \in 1..Len(s) : \A j \in 1..Len(s) : s[i] <= s[j] /\ s[j] <= s[k]
  BY <1>1, EndsOf
<1>3. /\ s[i] \in Range(s) /\ s[k] \in Range(s)
      /\ \A x \in Range(s) : s[i] <= x /\ x <= s[k] /\ x \in Int
  BY <1>1, <1>2 DEF Range
<1>4. Min(Range(s)) \in Range(s) /\ \A x \in Range(s) : Min(Range(s)) <= x
  BY <1>3 DEF Min
<1>5. Max(Range(s)) \in Range(s) /\ \A x \in Range(s) : Max(Range(s)) >= x
  BY <1>3 DEF Max
<1> QED
  BY <1>1, <1>3, <1>4, <1>5 DEF Range


\* A function over the first numbers is a sequence.
LEMMA SeqMade ==
  ASSUME NEW T, NEW n \in Nat, NEW t \in [1..n -> T]
  PROVE  t \in Seq(T) /\ Len(t) = n /\ DOMAIN t = 1..n
OBVIOUS

LEMMA Scaled ==
  ASSUME NEW r \in Int, NEW a \in 0..r, NEW b \in 0..r, a <= b
  PROVE  /\ (IF r > 0 THEN (1000 * a) \div r ELSE 1000) \in 0..1000
         /\ (IF r > 0 THEN (1000 * a) \div r ELSE 1000)
              <= (IF r > 0 THEN (1000 * b) \div r ELSE 1000)
<1>1. CASE r > 0
  <2>1. r \in Nat \ {0}
    BY <1>1
  <2>2. (1000 * a) \div r \in 0..1000
    BY <2>1, OnScale
  <2>3. 1000 * a \in Int /\ 1000 * b \in Int /\ 1000 * a <= 1000 * b
    OBVIOUS
  <2> DEFINE x == 1000 * a
             y == 1000 * b
  <2>4. x \in Int /\ y \in Int /\ x <= y
    BY <2>3
  <2> HIDE DEF x, y
  <2>5. x \div r <= y \div r
    BY <2>1, <2>4, QuotientRises
  <2> USE DEF x, y
  <2> QED
    BY <1>1, <2>2, <2>5
<1>2. CASE ~ (r > 0)
  BY <1>2
<1> QED
  BY <1>1, <1>2

\* The plate of a sparkline.
Plate == 0..1000

\* scaleSparklineValues: on the scale, in the order of the readings.
LEMMA ScaledInOrder ==
  ASSUME NEW s \in Seq(Int), s # <<>>
  PROVE  LET t == scaleSparklineValues(s)
         IN  /\ t \in Seq(Plate) /\ Len(t) = Len(s) /\ DOMAIN t = DOMAIN s
             /\ \A i, j \in DOMAIN s : s[i] <= s[j] => t[i] <= t[j]
<1> DEFINE low == Min(Range(s))
           range == Max(Range(s)) - low
           at == [a \in 0..range |-> IF range > 0 THEN (1000 * a) \div range ELSE 1000]
           n == Len(s)
           t == [i \in DOMAIN s |-> IF range > 0 THEN (1000 * (s[i] - low)) \div range ELSE 1000]
           T == 0..1000
<1>1. scaleSparklineValues(s) = t
  BY DEF scaleSparklineValues
<1>2. /\ low \in Int /\ range \in Int
      /\ \A i \in DOMAIN s : s[i] \in Int /\ s[i] - low \in 0..range
  BY RangeEnds
<1> HIDE DEF low, range
<1>3. \A a, b \in 0..range : a <= b => at[a] \in T /\ at[a] <= at[b]
  <2> TAKE a, b \in 0..range
  <2> HAVE a <= b
  <2>1. (IF range > 0 THEN (1000 * a) \div range ELSE 1000) \in 0..1000
    BY <1>2, Scaled
  <2>2. (IF range > 0 THEN (1000 * a) \div range ELSE 1000)
          <= (IF range > 0 THEN (1000 * b) \div range ELSE 1000)
    BY <1>2, Scaled
  <2> QED
    BY <2>1, <2>2
<1>9. \A i \in DOMAIN s : t[i] = at[s[i] - low]
  BY <1>2
<1>10. t = [i \in DOMAIN s |-> at[s[i] - low]]
  BY <1>9
<1> HIDE DEF at, t, T
<1>4. ASSUME NEW i \in DOMAIN s, NEW j \in DOMAIN s, s[i] <= s[j] PROVE t[i] <= t[j]
  <2>1. s[i] - low \in 0..range /\ s[j] - low \in 0..range /\ s[i] - low <= s[j] - low
    BY <1>2, <1>4
  <2> QED
    BY <1>3, <1>9, <2>1
<1>5. DOMAIN s = 1..n /\ n \in Nat
  BY SeqIs
<1>6. \A i \in DOMAIN s : at[s[i] - low] \in T
  <2> TAKE i \in DOMAIN s
  <2>1. s[i] - low \in 0..range /\ s[i] - low <= s[i] - low
    BY <1>2
  <2> QED
    BY <1>3, <2>1
<1> HIDE DEF n
<1>8. t \in [1..n -> T]
  BY <1>5, <1>6, <1>10
<1>7. t \in Seq(T) /\ Len(t) = n /\ DOMAIN t = 1..n
  BY <1>5, <1>8, SeqMade
<1> QED
  BY <1>1, <1>4, <1>5, <1>7 DEF n, T, Plate

\* readingsFromValues: one reading, or none.
LEMMA ReadingsOne ==
  ASSUME NEW frame \in {Shut} \cup [id : Nat, metrics : KernelMetrics]
  PROVE  LET r == readingsFromValues(frame)
         IN  r \in Seq(Int) /\ (r # <<>> => r = <<r[1]>> /\ r[1] \in Int)
<1> DEFINE row == IF frame = Shut THEN <<>> ELSE frame.metrics
           named == {i \in DOMAIN row : row[i][1] = sourceHeadline}
           at == IF named # {} THEN Min(named) ELSE 1
           r == IF row = <<>> THEN <<>> ELSE <<row[at][2]>>
<1>1. readingsFromValues(frame) = r
  BY DEF readingsFromValues
<1>2. row \in Seq(STRING \X Int)
  BY InspectorAssumption
<1> HIDE DEF row
<1>3. DOMAIN row = 1..Len(row) /\ Len(row) \in Nat
      /\ (row # <<>> => Len(row) \in Nat \ {0})
  BY <1>2, SeqIs
<1>4. ASSUME row # <<>> PROVE at \in DOMAIN row
  <2>1. CASE named # {}
    <3>1. named \subseteq Nat
      BY <1>3
    <3>2. \E i \in named : \A k \in named : i <= k
      BY <2>1, <3>1, LeastNumber
    <3>3. Min(named) \in named
      BY <3>2 DEF Min
    <3> QED
      BY <2>1, <3>3
  <2>2. CASE named = {}
    BY <1>3, <1>4, <2>2
  <2> QED
    BY <2>1, <2>2
<1> HIDE DEF at
<1>5. ASSUME row # <<>> PROVE row[at][2] \in Int
  <2>1. row[at] \in STRING \X Int
    BY <1>2, <1>4, <1>5
  <2> QED
    BY <2>1
<1>6. r \in Seq(Int) /\ (r # <<>> => r = <<r[1]>> /\ r[1] \in Int)
  BY <1>5
<1> QED
  BY <1>1, <1>6

\* What the effect depended on, when it looks at a kernel, is the end of the
\* history; the modal ends on the reading it was rendered with.
Ends(s, r) == r # <<>> => s # <<>> /\ Last(s) = r[1]

InspectInv ==
  /\ stored \in [Sources -> [InspectSymbols -> {Shut} \cup [id : Nat, metrics : KernelMetrics]]]
  /\ inspected \in Sources \cup {Shut} /\ inspectFocus \in InspectSymbols
  /\ arrivals \in Nat /\ signalHistory \in Seq(Int)
  /\ depended.active /\ ~ depended.resonance =>
       Ends(signalHistory, readingsFromValues(depended.reading))
  /\ modal # Shut =>
       modal.points \in Seq(Int) /\ Ends(modal.points, readingsFromValues(modal.frame))

\* The history after an effect on a frame ends on its reading.
LEMMA HistoryEnds ==
  ASSUME NEW old \in Seq(Int), NEW source,
         NEW frame \in {Shut} \cup [id : Nat, metrics : KernelMetrics]
  PROVE  LET h == HistoryAfter(old, source, frame)
         IN  /\ h \in Seq(Int)
             /\ source \notin {Shut, "resonance"} => Ends(h, readingsFromValues(frame))
<1> DEFINE r == readingsFromValues(frame)
           s == old \o r
<1>1. r \in Seq(Int) /\ (r # <<>> => r = <<r[1]>> /\ r[1] \in Int)
  BY ReadingsOne
<1> HIDE DEF r
<1>2. s \in Seq(Int) /\ (r # <<>> => s # <<>> /\ Last(s) = r[1])
  <2>1. s \in Seq(Int) /\ Len(s) = Len(old) + Len(r) /\ Len(old) \in Nat /\ Len(r) \in Nat
    BY <1>1
  <2>2. ASSUME r # <<>> PROVE s # <<>> /\ Last(s) = r[1]
    <3>1. Len(r) = 1 /\ Len(s) = Len(old) + 1
      BY <1>1, <2>1, <2>2
    <3>2. s[Len(old) + 1] = r[1]
      BY <1>1, <2>1, <3>1
    <3> QED
      BY <2>1, <3>1, <3>2 DEF Last
  <2> QED
    BY <2>1, <2>2
<1> HIDE DEF s
<1>3. HistoryCap \in Nat \ {0}
  BY InspectorAssumption
<1> DEFINE T == Int
           cut == SubSeq(s, Max({1, Len(s) - HistoryCap + 1}), Len(s))
<1>7. s \in Seq(T)
  BY <1>2
<1>8. cut \in Seq(T) /\ (s = <<>> <=> cut = <<>>) /\ (s # <<>> => Last(cut) = Last(s))
  <2> HIDE DEF T
  <2> QED
    BY <1>3, <1>7, NewestOf
<1>4. Capped(s) \in Seq(Int) /\ (s # <<>> => Capped(s) # <<>> /\ Last(Capped(s)) = Last(s))
  BY <1>8 DEF Capped
<1>5. Capped(s) \in Seq(Int) /\ Ends(Capped(s), r)
  BY <1>2, <1>4 DEF Ends
<1>6. HistoryAfter(old, source, frame) = IF source \in {Shut, "resonance"} THEN <<>> ELSE Capped(s)
  BY DEF HistoryAfter, s, r
<1> QED
  BY <1>5, <1>6 DEF r

\* A render and its effect.
LEMMA RenderKeeps ==
  ASSUME InspectInv, NEW st, NEW source, NEW symbol,
         st \in [Sources -> [InspectSymbols -> {Shut} \cup [id : Nat, metrics : KernelMetrics]]],
         source \in Sources \cup {Shut}, symbol \in InspectSymbols,
         Render(st, source, symbol)
  PROVE  /\ signalHistory' \in Seq(Int)
         /\ depended'.active /\ ~ depended'.resonance =>
              Ends(signalHistory', readingsFromValues(depended'.reading))
         /\ modal' # Shut =>
              modal'.points \in Seq(Int) /\ Ends(modal'.points, readingsFromValues(modal'.frame))
<1> DEFINE frame == signalAt(st, source, symbol)
           deps == Deps(source, frame)
           next == HistoryAfter(signalHistory, source, frame)
           recent == readingsFromValues(frame)
           after == IF deps = depended THEN signalHistory ELSE next
           points == IF source = "resonance" \/ after = <<>> THEN recent ELSE after
<1>1. frame \in {Shut} \cup [id : Nat, metrics : KernelMetrics]
  BY DEF signalAt
<1>2. /\ signalHistory' = after /\ depended' = deps
      /\ modal' = IF source = Shut THEN Shut ELSE [frame |-> frame, points |-> points]
  BY DEF Render
<1> HIDE DEF frame
<1>3. /\ deps.active = (source # Shut) /\ deps.resonance = (source = "resonance")
      /\ source # "resonance" => deps.reading = frame
  BY DEF Deps
<1>4. recent \in Seq(Int) /\ (recent # <<>> => recent = <<recent[1]>> /\ recent[1] \in Int)
  BY <1>1, ReadingsOne
<1>5. signalHistory \in Seq(Int)
  BY DEF InspectInv
<1>6. next \in Seq(Int) /\ (source \notin {Shut, "resonance"} => Ends(next, recent))
  BY <1>1, <1>5, HistoryEnds
<1> HIDE DEF next, deps
<1>7. after \in Seq(Int) /\ (source \notin {Shut, "resonance"} => Ends(after, recent))
  <2>1. CASE deps = depended
    <3>1. depended.active /\ ~ depended.resonance => Ends(signalHistory, readingsFromValues(depended.reading))
      BY DEF InspectInv
    <3>2. source \notin {Shut, "resonance"} => depended.active /\ ~ depended.resonance /\ depended.reading = frame
      BY <1>3, <2>1
    <3> QED
      BY <1>5, <2>1, <3>1, <3>2
  <2>2. CASE deps # depended
    BY <1>6, <2>2
  <2> QED
    BY <2>1, <2>2
<1> HIDE DEF after
<1>8. depended'.active /\ ~ depended'.resonance =>
        Ends(signalHistory', readingsFromValues(depended'.reading))
  BY <1>2, <1>3, <1>7
<1>9. source # Shut => points \in Seq(Int) /\ Ends(points, recent)
  <2> HIDE DEF recent
  <2>1. Ends(recent, recent)
    BY <1>4 DEF Ends, Last
  <2> QED
    BY <1>4, <1>7, <2>1 DEF Ends
<1> HIDE DEF points
<1>10. modal' # Shut =>
         modal'.points \in Seq(Int) /\ Ends(modal'.points, readingsFromValues(modal'.frame))
  BY <1>2, <1>9
<1> QED
  BY <1>2, <1>7, <1>8, <1>10

LEMMA InspectStart == InspectInit => InspectInv
<1> SUFFICES ASSUME InspectInit PROVE InspectInv
  OBVIOUS
<1>1. inspectFocus \in InspectSymbols
  BY InspectorAssumption DEF InspectInit
<1>2. signalHistory \in Seq(Int) /\ ~ depended.active /\ modal = Shut /\ arrivals \in Nat
      /\ inspected \in Sources \cup {Shut}
  BY DEF InspectInit
<1>3. stored \in [Sources -> [InspectSymbols -> {Shut} \cup [id : Nat, metrics : KernelMetrics]]]
  BY DEF InspectInit
<1> QED
  BY <1>1, <1>2, <1>3 DEF InspectInv

LEMMA InspectStep == InspectInv /\ [InspectNext]_inspectVars => InspectInv'
<1> SUFFICES ASSUME InspectInv, [InspectNext]_inspectVars PROVE InspectInv'
  OBVIOUS
<1> DEFINE Stores == [Sources -> [InspectSymbols -> {Shut} \cup [id : Nat, metrics : KernelMetrics]]]
<1>0. /\ stored \in Stores /\ inspected \in Sources \cup {Shut}
      /\ inspectFocus \in InspectSymbols /\ arrivals \in Nat
  BY DEF InspectInv
<1>1. ASSUME NEW k \in Sources \cup {Shut}, InspectSource(k) PROVE InspectInv'
  <2>1. Render(stored, k, inspectFocus) /\ UNCHANGED <<stored, inspectFocus, arrivals>> /\ inspected' = k
    BY <1>1 DEF InspectSource
  <2> QED
    BY <1>0, <2>1, RenderKeeps DEF InspectInv
<1>2. ASSUME NEW s \in InspectSymbols, FocusMoves(s) PROVE InspectInv'
  <2>1. Render(stored, inspected, s) /\ UNCHANGED <<stored, inspected, arrivals>> /\ inspectFocus' = s
    BY <1>2 DEF FocusMoves
  <2> QED
    BY <1>0, <2>1, RenderKeeps DEF InspectInv
<1>3. ASSUME NEW k \in Sources, NEW s \in InspectSymbols, NEW m \in KernelMetrics, FrameStored(k, s, m)
      PROVE InspectInv'
  <2>1. /\ arrivals' = arrivals + 1 /\ UNCHANGED <<inspected, inspectFocus>>
        /\ stored' = [stored EXCEPT ![k][s] = [id |-> arrivals', metrics |-> m]]
    BY <1>3 DEF FrameStored
  <2>2. arrivals' \in Nat /\ stored' \in Stores
    BY <1>0, <2>1
  <2>3. CASE inspected = "resonance" /\ k = "resonance" /\ s = inspectFocus
    <3>1. Render(stored', inspected, inspectFocus)
      BY <1>3, <2>3 DEF FrameStored
    <3> QED
      BY <1>0, <2>1, <2>2, <3>1, RenderKeeps DEF InspectInv
  <2>4. CASE ~ (inspected = "resonance" /\ k = "resonance" /\ s = inspectFocus)
    <3>1. UNCHANGED <<signalHistory, depended, modal>>
      BY <1>3, <2>4 DEF FrameStored
    <3> QED
      BY <1>0, <2>1, <2>2, <3>1 DEF InspectInv
  <2> QED
    BY <2>3, <2>4
<1>4. CASE UNCHANGED inspectVars
  BY <1>4 DEF InspectInv, inspectVars
<1> QED
  BY <1>1, <1>2, <1>3, <1>4 DEF InspectNext

\* kernelSparkPaths: a point per reading, two at least, each in the plate and
\* those of the scale at their own height.
LEMMA Fits ==
  ASSUME NEW v \in Int
  PROVE  Fitted(v) \in Plate /\ (v \in Plate => Fitted(v) = v)
<1>1. CASE v < 0
  <2> DEFINE half == (v + 1000) \div 2
  <2>1. half \in Int /\ half <= 1000
    BY <1>1
  <2>2. Fitted(v) = Max({0, half})
    BY <1>1 DEF Fitted
  <2> HIDE DEF half
  <2>3. Max({0, half}) = IF 0 >= half THEN 0 ELSE half
    BY <2>1, MaxPair
  <2> QED
    BY <1>1, <2>1, <2>2, <2>3 DEF Plate
<1>2. CASE ~ (v < 0)
  <2>1. Min({1000, v}) = IF 1000 <= v THEN 1000 ELSE v
    BY MinPair
  <2> QED
    BY <1>2, <2>1 DEF Fitted, Plate
<1> QED
  BY <1>1, <1>2

LEMMA ScaledType ==
  ASSUME NEW s \in Seq(Plate)
  PROVE  s \in Seq(Int) /\ \A i \in DOMAIN s : s[i] \in Plate /\ s[i] \in Int
<1> DEFINE n == Len(s)
           T == Int
<1>1. n \in Nat /\ s \in [1..n -> Plate]
  OBVIOUS
<1> HIDE DEF n
<1>0. \A v \in Plate : v \in T
  BY DEF Plate
<1>2. s \in [1..n -> T]
  BY <1>0, <1>1
<1> HIDE DEF T
<1>3. s \in Seq(T)
  BY <1>1, <1>2, SeqMade
<1> QED
  BY <1>0, <1>1, <1>3 DEF T

\* A reading alone is drawn across.
LEMMA DrawnAcross ==
  ASSUME NEW h, NEW point, point = [x |-> 1 - 1, y |-> h]
  PROVE  [point EXCEPT !.x = 1] = [x |-> 1, y |-> h]
OBVIOUS

\* A line of at least two points.
LineOf(n, h) == [i \in 1..n |-> [x |-> i - 1, y |-> h[i]]]

LEMMA LineIs ==
  ASSUME NEW n \in Nat, n >= 2, NEW h \in [1..n -> Plate], NEW line, line = LineOf(n, h)
  PROVE  /\ Len(line) = n /\ DOMAIN line = 1..n /\ line[1].x = 0 /\ Last(line).x = n - 1
         /\ \A i \in 1..n : line[i].y = h[i] /\ line[i].y \in Plate
<1>0. line = [i \in 1..n |-> [x |-> i - 1, y |-> h[i]]]
  BY DEF LineOf
<1>1. Len(line) = n /\ DOMAIN line = 1..n
  BY <1>0
<1>2. \A i \in 1..n : line[i] = [x |-> i - 1, y |-> h[i]] /\ h[i] \in Plate
  BY <1>0
<1>3. Last(line) = line[n]
  BY <1>1 DEF Last
<1>4. line[1].x = 0 /\ line[n].x = n - 1
  BY <1>0
<1>5. \A i \in 1..n : line[i].y = h[i]
  BY <1>0
<1> QED
  BY <1>1, <1>2, <1>3, <1>4, <1>5

LEMMA SparkDrawn ==
  ASSUME NEW s \in Seq(Int)
  PROVE  LET spark == kernelSparkPaths(s)
         IN  /\ Len(spark) >= 2 /\ spark[1].x = 0 /\ Last(spark).x = Len(spark) - 1
             /\ \A i \in DOMAIN spark : spark[i].y \in Plate
             /\ \A i \in DOMAIN s : spark[i].y = Fitted(s[i])
<1> DEFINE given == IF s = <<>> THEN <<0>> ELSE s
           at(i) == [x |-> i - 1, y |-> Fitted(given[i])]
           one == at(1)
           spark == IF Len(given) = 1 THEN <<one, [one EXCEPT !.x = 1]>>
                    ELSE [i \in DOMAIN given |-> at(i)]
<1>1. kernelSparkPaths(s) = spark
  BY DEF kernelSparkPaths
<1>2. given \in Seq(Int) /\ given # <<>> /\ \A i \in DOMAIN s : given = s
  OBVIOUS
<1>3. DOMAIN s = 1..Len(s) /\ Len(s) \in Nat
  BY SeqIs
<1> HIDE DEF given
<1>4. DOMAIN given = 1..Len(given) /\ Len(given) \in Nat \ {0}
  BY <1>2, SeqIs
<1>5. \A i \in DOMAIN given : Fitted(given[i]) \in Plate
  <2> TAKE i \in DOMAIN given
  <2>1. given[i] \in Int
    BY <1>2
  <2> QED
    BY <2>1, Fits
<1>6. CASE Len(given) = 1
  <2>4. one = [x |-> 1 - 1, y |-> Fitted(given[1])]
    OBVIOUS
  <2>5. spark = <<one, [one EXCEPT !.x = 1]>>
    BY <1>6
  <2> HIDE DEF one, spark
  <2>6. [one EXCEPT !.x = 1] = [x |-> 1, y |-> Fitted(given[1])]
    BY <2>4, DrawnAcross
  <2>1. spark = << [x |-> 0, y |-> Fitted(given[1])], [x |-> 1, y |-> Fitted(given[1])] >>
    BY <2>4, <2>5, <2>6
  <2> DEFINE n == 2
             h == [i \in 1..n |-> Fitted(given[1])]
  <2>2. spark = LineOf(n, h)
    BY <2>1 DEF LineOf
  <2>3. h \in [1..n -> Plate] /\ h[1] = Fitted(given[1])
    BY <1>4, <1>5
  <2>10. n \in Nat /\ n >= 2 /\ 1 \in 1..n
    OBVIOUS
  <2> HIDE DEF spark, h, n
  <2>7. /\ Len(spark) = n /\ DOMAIN spark = 1..n /\ spark[1].x = 0 /\ Last(spark).x = n - 1
        /\ \A i \in 1..n : spark[i].y = h[i] /\ spark[i].y \in Plate
    BY <2>2, <2>3, <2>10, LineIs
  <2>8. \A i \in DOMAIN s : i = 1 /\ s[i] = given[1]
    BY <1>2, <1>4, <1>6
  <2>9. \A i \in DOMAIN s : spark[i].y = Fitted(s[i])
    BY <2>3, <2>10, <2>7, <2>8
  <2> QED
    BY <1>1, <2>10, <2>7, <2>9
<1>7. CASE Len(given) # 1
  <2> DEFINE n == Len(given)
             h == [i \in 1..n |-> Fitted(given[i])]
  <2>1. spark = LineOf(n, h)
    BY <1>4, <1>7 DEF LineOf
  <2>2. n \in Nat /\ n >= 2 /\ DOMAIN given = 1..n
    BY <1>4, <1>7
  <2> HIDE DEF spark, n
  <2>3. h \in [1..n -> Plate]
    BY <1>5, <2>2
  <2>4. \A i \in DOMAIN s : i \in 1..n /\ h[i] = Fitted(s[i])
    BY <1>2, <2>2
  <2> HIDE DEF h
  <2>5. /\ Len(spark) = n /\ DOMAIN spark = 1..n /\ spark[1].x = 0 /\ Last(spark).x = n - 1
        /\ \A i \in 1..n : spark[i].y = h[i] /\ spark[i].y \in Plate
    BY <2>1, <2>2, <2>3, LineIs
  <2> QED
    BY <1>1, <2>2, <2>4, <2>5
<1> QED
  BY <1>6, <1>7

LEMMA SparkOrdered ==
  ASSUME NEW s \in Seq(Int), s # <<>>
  PROVE  LET t == scaleSparklineValues(s)
             spark == kernelSparkPaths(t)
         IN  \A i, j \in DOMAIN s : s[i] <= s[j] => spark[i].y <= spark[j].y
<1> DEFINE t == scaleSparklineValues(s)
           spark == kernelSparkPaths(t)
<1>1. /\ t \in Seq(Plate) /\ DOMAIN t = DOMAIN s
      /\ \A i, j \in DOMAIN s : s[i] <= s[j] => t[i] <= t[j]
  BY ScaledInOrder
<1> HIDE DEF t
<1>2. t \in Seq(Int) /\ \A i \in DOMAIN t : t[i] \in Plate /\ t[i] \in Int
  <2>1. t \in Seq(Plate)
    BY <1>1
  <2> QED
    BY <2>1, ScaledType, Zenon
<1>3. \A i \in DOMAIN t : spark[i].y = Fitted(t[i])
  BY <1>2, SparkDrawn
<1> HIDE DEF spark
<1>4. \A i \in DOMAIN t : spark[i].y = t[i]
  BY <1>2, <1>3, Fits
<1> QED
  BY <1>1, <1>4 DEF t, spark

LEMMA InspectShows == InspectInv => ModalShowsReading /\ SparkKeepsOrder
<1> SUFFICES ASSUME InspectInv PROVE ModalShowsReading /\ SparkKeepsOrder
  OBVIOUS
<1>1. ModalShowsReading
  BY DEF InspectInv, ModalShowsReading, Ends, status
<1>2. ASSUME modal # Shut PROVE modal.points \in Seq(Int)
  BY <1>2 DEF InspectInv
<1>3. ASSUME modal # Shut
      PROVE LET spark == SparkOf(inspected, modal.points)
            IN  /\ Len(spark) >= 2 /\ spark[1].x = 0 /\ Last(spark).x = Len(spark) - 1
                /\ \A i \in DOMAIN spark : spark[i].y \in Plate
                /\ inspected # "resonance" =>
                     \A i, j \in DOMAIN modal.points :
                       modal.points[i] <= modal.points[j] => spark[i].y <= spark[j].y
  <2> DEFINE s == modal.points
  <2>1. s \in Seq(Int)
    BY <1>2, <1>3
  <2> HIDE DEF s
  <2>2. CASE inspected = "resonance" \/ s = <<>>
    <3>1. SparkOf(inspected, s) = kernelSparkPaths(s)
      BY <2>2 DEF SparkOf
    <3>2. inspected # "resonance" => DOMAIN s = {}
      BY <2>2
    <3> QED
      BY <2>1, <3>1, <3>2, SparkDrawn DEF s
  <2>3. CASE ~ (inspected = "resonance" \/ s = <<>>)
    <3>1. SparkOf(inspected, s) = kernelSparkPaths(scaleSparklineValues(s))
      BY <2>3 DEF SparkOf
    <3>2. scaleSparklineValues(s) \in Seq(Int)
      <4>1. scaleSparklineValues(s) \in Seq(Plate)
        BY <2>1, <2>3, ScaledInOrder
      <4> QED
        BY <4>1, ScaledType
    <3>3. \A i, j \in DOMAIN s : s[i] <= s[j] =>
            kernelSparkPaths(scaleSparklineValues(s))[i].y <= kernelSparkPaths(scaleSparklineValues(s))[j].y
      BY <2>1, <2>3, SparkOrdered
    <3> QED
      BY <3>1, <3>2, <3>3, SparkDrawn DEF s
  <2> QED
    BY <2>2, <2>3
<1> QED
  BY <1>1, <1>3 DEF SparkKeepsOrder, Plate

-----------------------------------------------------------------------------
(* The buffers of the frame stores: FrameStore. *)

\* A position past the end is the one as far from the start.
LEMMA Wrapped ==
  ASSUME NEW n \in Nat \ {0}, NEW a \in 0..(n - 1), NEW k \in 0..n
  PROVE  (a + k) % n = IF a + k < n THEN a + k ELSE a + k - n
<1>1. CASE a + k < n
  <2>1. a + k \in Int /\ a + k \in 0..(n - 1) /\ a + k = 0 * n + (a + k)
    BY <1>1
  <2> QED
    BY <1>1, <2>1, Divided
<1>2. CASE ~ (a + k < n)
  <2>1. a + k \in Int /\ a + k - n \in 0..(n - 1) /\ a + k = 1 * n + (a + k - n)
    BY <1>2
  <2> QED
    BY <1>2, <2>1, Divided
<1> QED
  BY <1>1, <1>2

\* The fields of a buffer.
RingIs(ring, b, s, c) == ring = [buffer |-> b, start |-> s, count |-> c]

LEMMA RingFields ==
  ASSUME NEW ring, NEW b, NEW s, NEW c, RingIs(ring, b, s, c)
  PROVE  ring.buffer = b /\ ring.start = s /\ ring.count = c
BY DEF RingIs

LEMMA FieldPut ==
  ASSUME NEW ring, NEW b, NEW s, NEW c, RingIs(ring, b, s, c), NEW new
  PROVE  /\ RingIs([ring EXCEPT !.count = new], b, s, new)
         /\ RingIs([ring EXCEPT !.start = new], b, new, c)
<1>1. RingIs([ring EXCEPT !.count = new], b, s, new)
  BY DEF RingIs
<1>2. RingIs([ring EXCEPT !.start = new], b, new, c)
  BY DEF RingIs
<1> QED
  BY <1>1, <1>2

Rewritten(b, at, row) == [b EXCEPT ![at] = row]
Puts(ring, at, row) == [ring EXCEPT !.buffer[at] = row]
Grows(ring, at, row) == [ring EXCEPT !.buffer[at] = row, !.count = @ + 1]
Turns(ring, at, row) == [ring EXCEPT !.buffer[at] = row, !.start = (@ + 1) % Limit]

LEMMA RingPut ==
  ASSUME NEW ring, NEW b, NEW s, NEW c, RingIs(ring, b, s, c), NEW at, NEW row
  PROVE  /\ RingIs(Puts(ring, at, row), Rewritten(b, at, row), s, c)
         /\ RingIs(Grows(ring, at, row), Rewritten(b, at, row), s, c + 1)
         /\ RingIs(Turns(ring, at, row), Rewritten(b, at, row), (s + 1) % Limit, c)
<1>1. ring.buffer = b /\ ring.start = s /\ ring.count = c
  BY RingFields
<1> DEFINE one == [ring EXCEPT !.buffer[at] = row]
<1>2. RingIs(one, Rewritten(b, at, row), s, c)
  BY DEF RingIs, Rewritten
<1> HIDE DEF one
<1>3. RingIs([one EXCEPT !.count = ring.count + 1], Rewritten(b, at, row), s, c + 1)
  BY <1>1, <1>2, FieldPut
<1>4. RingIs([one EXCEPT !.start = (ring.start + 1) % Limit], Rewritten(b, at, row), (s + 1) % Limit, c)
  BY <1>1, <1>2, FieldPut
<1> USE DEF one
<1>5. RingIs(Puts(ring, at, row), Rewritten(b, at, row), s, c)
  BY <1>2, Zenon DEF Puts
<1>6. RingIs(Grows(ring, at, row), Rewritten(b, at, row), s, c + 1)
  BY <1>3, Zenon DEF Grows
<1>7. RingIs(Turns(ring, at, row), Rewritten(b, at, row), (s + 1) % Limit, c)
  BY <1>4, Zenon DEF Turns
<1> QED
  BY <1>5, <1>6, <1>7, Zenon

LEMMA PlaceAt ==
  ASSUME NEW n \in Nat \ {0}, NEW a \in 0..(n - 1), NEW i \in 1..n
  PROVE  /\ (a + i - 1) % n = IF a + i <= n THEN a + i - 1 ELSE a + i - 1 - n
         /\ (a + i - 1) % n \in 0..(n - 1)
<1>1. i - 1 \in 0..n /\ a + (i - 1) = a + i - 1
  OBVIOUS
<1>2. (a + (i - 1)) % n = IF a + (i - 1) < n THEN a + (i - 1) ELSE a + (i - 1) - n
  BY <1>1, Wrapped
<1>3. (a + i - 1) % n = IF a + i <= n THEN a + i - 1 ELSE a + i - 1 - n
  BY <1>1, <1>2
<1> QED
  BY <1>3

\* A buffer holds the newest rows of those it was given, in their order.
RingFits(b, st, c, s) ==
  /\ c <= Limit /\ c <= Len(s) /\ (c < Limit => c = Len(s)) /\ (Limit > 0 => st < Limit)
  /\ \A i \in 1..c : b[(st + i - 1) % Limit] = s[Len(s) - c + i]

Buffer == [0..(Limit - 1) -> Rows \cup {NoRow}]

RingHolds(ring, s) ==
  \E b \in Buffer, st \in Nat, c \in Nat : RingIs(ring, b, st, c) /\ RingFits(b, st, c, s)

LEMMA EmptyHolds == RingHolds(Circular, <<>>)
<1> DEFINE b == [i \in 0..(Limit - 1) |-> NoRow]
<1>1. b \in Buffer /\ RingIs(Circular, b, 0, 0)
  BY DEF Buffer, RingIs, Circular
<1>2. RingFits(b, 0, 0, <<>>)
  BY StoreAssumption DEF RingFits
<1> QED
  BY <1>1, <1>2 DEF RingHolds

\* One more row: a place is free, or the oldest makes room.
LEMMA PushKeeps ==
  ASSUME NEW s \in Seq(Rows), NEW ring, RingHolds(ring, s), NEW row \in Rows
  PROVE  RingHolds(push(ring, row), Append(s, row))
<1> DEFINE n == Len(s)
           t == Append(s, row)
<1>1. PICK b \in Buffer, st \in Nat, c \in Nat : RingIs(ring, b, st, c) /\ RingFits(b, st, c, s)
  BY DEF RingHolds
<1>2. /\ n \in Nat /\ Len(t) = n + 1 /\ t[n + 1] = row
      /\ \A i \in 1..n : t[i] = s[i]
  OBVIOUS
<1>3. Limit \in Nat
  BY StoreAssumption
<1> HIDE DEF n, t
<1>4. /\ c <= Limit /\ c <= n /\ (c < Limit => c = n) /\ (Limit > 0 => st < Limit)
      /\ \A i \in 1..c : b[(st + i - 1) % Limit] = s[n - c + i]
  BY <1>1 DEF RingFits, n
<1>5. ring.buffer = b /\ ring.start = st /\ ring.count = c
  BY <1>1, RingFields
<1>6. CASE Limit = 0
  <2>1. push(ring, row) = ring
    BY <1>6 DEF push
  <2>2. c = 0
    BY <1>4, <1>6
  <2>3. RingFits(b, st, c, t)
    BY <1>2, <1>3, <1>6, <2>2 DEF RingFits
  <2> QED
    BY <1>1, <2>1, <2>3 DEF RingHolds, t
<1> DEFINE at == (st + c) % Limit
           b1 == [b EXCEPT ![at] = row]
           b2 == [b EXCEPT ![st] = row]
<1>7. CASE Limit > 0 /\ c < Limit
  <2>1. Limit \in Nat \ {0} /\ st \in 0..(Limit - 1) /\ c \in 0..Limit /\ n = c
    BY <1>3, <1>4, <1>7
  <2>2. push(ring, row) = Grows(ring, at, row)
    BY <1>5, <1>7 DEF push, Grows
  <2>10. b1 = Rewritten(b, at, row)
    BY DEF Rewritten
  <2>3. RingIs(push(ring, row), b1, st, c + 1)
    <3> HIDE DEF b1, at
    <3> QED
      BY <1>1, <2>2, <2>10, RingPut
  <2>4. at = IF st + c < Limit THEN st + c ELSE st + c - Limit
    BY <2>1, Wrapped
  <2> HIDE DEF at
  <2>5. at \in 0..(Limit - 1)
    BY <1>7, <2>1, <2>4
  <2>6. b1 \in Buffer /\ \A j \in 0..(Limit - 1) : b1[j] = IF j = at THEN row ELSE b[j]
    BY <2>5 DEF Buffer
  <2> HIDE DEF b1
  <2>7. ASSUME NEW i \in 1..(c + 1) PROVE b1[(st + i - 1) % Limit] = t[Len(t) - (c + 1) + i]
    <3>1. i \in 1..Limit
      BY <1>7, <2>1
    <3>2. /\ (st + i - 1) % Limit = IF st + i <= Limit THEN st + i - 1 ELSE st + i - 1 - Limit
          /\ (st + i - 1) % Limit \in 0..(Limit - 1)
      BY <2>1, <3>1, PlaceAt
    <3> DEFINE p == (st + i - 1) % Limit
    <3>3. p \in 0..(Limit - 1) /\ (p = at <=> i = c + 1)
      BY <1>7, <2>1, <2>4, <3>1, <3>2
    <3> HIDE DEF p
    <3>4. CASE i = c + 1
      <4>1. Len(t) - (c + 1) + i = n + 1
        BY <1>2, <2>1, <3>4
      <4> QED
        BY <1>2, <2>6, <3>3, <3>4, <4>1 DEF p
    <3>5. CASE i # c + 1
      <4>1. i \in 1..c /\ i \in 1..n /\ Len(t) - (c + 1) + i = i /\ n - c + i = i
        BY <1>2, <2>1, <3>5
      <4>2. b[p] = s[i]
        BY <1>4, <4>1 DEF p
      <4> QED
        BY <1>2, <2>6, <3>3, <3>5, <4>1, <4>2 DEF p
    <3> QED
      BY <3>4, <3>5
  <2>8. RingFits(b1, st, c + 1, t)
    BY <1>2, <1>7, <2>1, <2>7 DEF RingFits
  <2>9. c + 1 \in Nat
    OBVIOUS
  <2> QED
    BY <2>3, <2>6, <2>8, <2>9 DEF RingHolds, t
<1>8. CASE Limit > 0 /\ ~ (c < Limit)
  <2> DEFINE st2 == (st + 1) % Limit
  <2>1. Limit \in Nat \ {0} /\ st \in 0..(Limit - 1) /\ c = Limit /\ 1 \in 0..Limit
    BY <1>3, <1>4, <1>8
  <2>2. push(ring, row) = Turns(ring, st, row)
    BY <1>5, <1>8 DEF push, Turns
  <2>10. b2 = Rewritten(b, st, row)
    BY DEF Rewritten
  <2>3. RingIs(push(ring, row), b2, st2, c)
    <3> HIDE DEF b2
    <3> QED
      BY <1>1, <2>2, <2>10, RingPut
  <2>4. st2 = IF st + 1 < Limit THEN st + 1 ELSE st + 1 - Limit
    BY <2>1, Wrapped
  <2> HIDE DEF st2
  <2>5. st2 \in 0..(Limit - 1) /\ st2 \in Nat
    BY <2>1, <2>4
  <2>6. b2 \in Buffer /\ \A j \in 0..(Limit - 1) : b2[j] = IF j = st THEN row ELSE b[j]
    BY <2>1 DEF Buffer
  <2> HIDE DEF b2
  <2>7. ASSUME NEW i \in 1..c PROVE b2[(st2 + i - 1) % Limit] = t[Len(t) - c + i]
    <3>1. i \in 1..Limit
      BY <2>1
    <3>2. /\ (st2 + i - 1) % Limit = IF st2 + i <= Limit THEN st2 + i - 1 ELSE st2 + i - 1 - Limit
          /\ (st2 + i - 1) % Limit \in 0..(Limit - 1)
      BY <2>1, <2>5, <3>1, PlaceAt
    <3> DEFINE p == (st2 + i - 1) % Limit
    <3>3. p \in 0..(Limit - 1) /\ (p = st <=> i = c)
      BY <2>1, <2>4, <2>5, <3>1, <3>2
    <3>4. CASE i = c
      <4>1. Len(t) - c + i = n + 1
        BY <1>2, <2>1, <3>4
      <4> HIDE DEF p
      <4> QED
        BY <1>2, <2>6, <3>3, <3>4, <4>1 DEF p
    <3>5. CASE i # c
      <4>5. n \in Nat /\ Len(t) = n + 1 /\ c <= n
        BY <1>2, <1>4
      <4>1. i + 1 \in 1..c /\ i + 1 \in 1..Limit /\ n - c + (i + 1) \in 1..n /\ Len(t) - c + i = n - c + (i + 1)
        BY <2>1, <3>5, <4>5
      <4>2. (st + (i + 1) - 1) % Limit = IF st + (i + 1) <= Limit THEN st + (i + 1) - 1 ELSE st + (i + 1) - 1 - Limit
        BY <2>1, <4>1, PlaceAt
      <4>3. p = (st + (i + 1) - 1) % Limit
        BY <2>1, <2>4, <2>5, <3>1, <3>2, <3>5, <4>1, <4>2
      <4> HIDE DEF p
      <4>4. b[p] = s[n - c + (i + 1)]
        BY <1>4, <4>1, <4>3
      <4> QED
        BY <1>2, <2>6, <3>3, <3>5, <4>1, <4>4 DEF p
    <3> QED
      BY <3>4, <3>5
  <2>8. RingFits(b2, st2, c, t)
    BY <1>2, <1>4, <2>1, <2>5, <2>7 DEF RingFits
  <2> QED
    BY <2>3, <2>5, <2>6, <2>8 DEF RingHolds, t
<1> QED
  BY <1>3, <1>6, <1>7, <1>8

\* Another row at the end.
LEMMA ReplaceKeeps ==
  ASSUME NEW s \in Seq(Rows), NEW ring, RingHolds(ring, s), ring.count > 0, NEW row \in Rows
  PROVE  /\ [s EXCEPT ![Len(s)] = row] \in Seq(Rows)
         /\ RingHolds(replaceTail(ring, row), [s EXCEPT ![Len(s)] = row])
<1> DEFINE n == Len(s)
           t == [s EXCEPT ![n] = row]
<1>1. PICK b \in Buffer, st \in Nat, c \in Nat : RingIs(ring, b, st, c) /\ RingFits(b, st, c, s)
  BY DEF RingHolds
<1>2. ring.buffer = b /\ ring.start = st /\ ring.count = c
  BY <1>1, RingFields
<1>3. /\ c <= Limit /\ c <= n /\ (c < Limit => c = n) /\ (Limit > 0 => st < Limit)
      /\ \A i \in 1..c : b[(st + i - 1) % Limit] = s[n - c + i]
  BY <1>1 DEF RingFits
<1>4. n \in Nat /\ Limit \in Nat /\ c \in 1..Limit /\ n >= 1 /\ n >= c
  BY <1>2, <1>3, StoreAssumption
<1>5. t \in Seq(Rows) /\ Len(t) = n /\ t[n] = row /\ \A i \in 1..n : i # n => t[i] = s[i]
  BY <1>4
<1> HIDE DEF n, t
<1> DEFINE at == (st + c - 1) % Limit
           b1 == [b EXCEPT ![at] = row]
<1>6. Limit \in Nat \ {0} /\ st \in 0..(Limit - 1)
  BY <1>3, <1>4
<1>7. replaceTail(ring, row) = Puts(ring, at, row)
  BY <1>2, <1>4 DEF replaceTail, Puts
<1>8. b1 = Rewritten(b, at, row)
  BY DEF Rewritten
<1>9. at \in 0..(Limit - 1) /\ at = IF st + c <= Limit THEN st + c - 1 ELSE st + c - 1 - Limit
  BY <1>4, <1>6, PlaceAt
<1> HIDE DEF at
<1>10. b1 \in Buffer /\ \A j \in 0..(Limit - 1) : b1[j] = IF j = at THEN row ELSE b[j]
  BY <1>9 DEF Buffer
<1> HIDE DEF b1
<1>11. RingIs(replaceTail(ring, row), b1, st, c)
  BY <1>1, <1>7, <1>8, RingPut
<1>12. ASSUME NEW i \in 1..c PROVE b1[(st + i - 1) % Limit] = t[n - c + i]
  <2>1. i \in 1..Limit
    BY <1>4
  <2>2. /\ (st + i - 1) % Limit = IF st + i <= Limit THEN st + i - 1 ELSE st + i - 1 - Limit
        /\ (st + i - 1) % Limit \in 0..(Limit - 1)
    BY <1>6, <2>1, PlaceAt
  <2> DEFINE p == (st + i - 1) % Limit
  <2>3. p \in 0..(Limit - 1) /\ (p = at <=> i = c)
    BY <1>4, <1>6, <1>9, <2>1, <2>2
  <2> HIDE DEF p
  <2>4. CASE i = c
    <3>1. n - c + i = n
      BY <1>4, <2>4
    <3> QED
      BY <1>5, <1>10, <2>3, <2>4, <3>1 DEF p
  <2>5. CASE i # c
    <3>1. n - c + i \in 1..n /\ n - c + i # n
      BY <1>4, <2>5
    <3>2. b[p] = s[n - c + i]
      BY <1>3 DEF p
    <3> QED
      BY <1>5, <1>10, <2>3, <2>5, <3>1, <3>2 DEF p
  <2> QED
    BY <2>4, <2>5
<1>13. RingFits(b1, st, c, t)
  BY <1>3, <1>5, <1>12 DEF RingFits
<1> QED
  BY <1>5, <1>10, <1>11, <1>13 DEF RingHolds, t, n

\* What a buffer shows.
LEMMA RingShows ==
  ASSUME NEW s \in Seq(Rows), NEW ring, RingHolds(ring, s)
  PROVE  LET last == SubSeq(s, Len(s) - Min({Limit, Len(s)}) + 1, Len(s))
         IN  values(ring) = last /\ (last # <<>> => latest(ring) = s[Len(s)])
<1> DEFINE n == Len(s)
           last == SubSeq(s, n - Min({Limit, n}) + 1, n)
<1>1. PICK b \in Buffer, st \in Nat, c \in Nat : RingIs(ring, b, st, c) /\ RingFits(b, st, c, s)
  BY DEF RingHolds
<1>2. ring.buffer = b /\ ring.start = st /\ ring.count = c
  BY <1>1, RingFields
<1>3. /\ c <= Limit /\ c <= n /\ (c < Limit => c = n) /\ (Limit > 0 => st < Limit)
      /\ \A i \in 1..c : b[(st + i - 1) % Limit] = s[n - c + i]
  BY <1>1 DEF RingFits
<1>4. n \in Nat /\ Limit \in Nat
  BY StoreAssumption
<1>5. Min({Limit, n}) = c
  <2>1. Min({Limit, n}) = IF Limit <= n THEN Limit ELSE n
    BY <1>4, MinPair
  <2> QED
    BY <1>3, <1>4, <2>1
<1>6. last = SubSeq(s, n - c + 1, n)
  BY <1>5
<1>7. SubSeq(s, n - c + 1, n) \in Seq(Rows) /\ Len(SubSeq(s, n - c + 1, n)) = c
      /\ \A i \in 1..c : SubSeq(s, n - c + 1, n)[i] = s[n - c + i]
  <2> DEFINE a == n - c + 1
             cut == SubSeq(s, a, n)
  <2>1. a \in 1..(n + 1) /\ n - a + 1 = c
    BY <1>3, <1>4
  <2>2. cut \in Seq(Rows) /\ Len(cut) = n - a + 1 /\ \A i \in 1..(n - a + 1) : cut[i] = s[a + i - 1]
    <3> HIDE DEF a
    <3> QED
      BY <1>4, <2>1, SubSeqProperties
  <2>3. \A i \in 1..c : a + i - 1 = n - c + i
    BY <1>4
  <2> HIDE DEF cut
  <2>4. cut \in Seq(Rows) /\ Len(cut) = c /\ \A i \in 1..c : cut[i] = s[n - c + i]
    <3> HIDE DEF a
    <3> QED
      BY <2>1, <2>2, <2>3
  <2> QED
    BY <2>4 DEF cut
<1> HIDE DEF last
<1>8. last = [i \in 1..c |-> s[n - c + i]]
  BY <1>6, <1>7
<1>9. values(ring) = [i \in 1..c |-> b[(st + i - 1) % Limit]]
  BY <1>2 DEF values
<1>10. values(ring) = last
  BY <1>3, <1>8, <1>9
<1>11. ASSUME last # <<>> PROVE latest(ring) = s[n]
  <2>1. c \in 1..c /\ n - c + c = n
    <3>1. c # 0
      BY <1>6, <1>7, <1>11
    <3> QED
      BY <1>4, <3>1
  <2>2. b[(st + c - 1) % Limit] = s[n - c + c]
    BY <1>3, <2>1, Zenon
  <2> QED
    BY <1>2, <2>1, <2>2, Zenon DEF latest
<1> QED
  BY <1>10, <1>11 DEF last

\* The tree and the history agree leaf by leaf.
RingType == [buffer : Buffer, start : Nat, count : Nat]
Trees == [Leaves -> RingType]
Histories == [Leaves -> Seq(Rows)]
Agree(t, given) ==
  t \in Trees /\ given \in Histories /\ \A path \in Leaves : RingHolds(t[path], given[path])

LEMMA RingTyped ==
  ASSUME NEW ring, NEW s, RingHolds(ring, s)
  PROVE  ring \in RingType
BY DEF RingHolds, RingIs, RingType

LEMMA RowPushed ==
  ASSUME NEW t, NEW given, Agree(t, given), NEW row \in Rows
  PROVE  Agree(pushRow(t, row), note(given, row))
<1> DEFINE path == <<row.a, row.b>>
<1>1. CASE ~ Placed(row)
  BY <1>1 DEF pushRow, note
<1>2. CASE Placed(row)
  <2>1. path \in Leaves
    BY <1>2 DEF Placed, Rows, Leaves
  <2>2. /\ pushRow(t, row) = [t EXCEPT ![path] = push(t[path], row)]
        /\ note(given, row) = [given EXCEPT ![path] = Append(given[path], row)]
    BY <1>2 DEF pushRow, note
  <2> HIDE DEF path
  <2>3. given[path] \in Seq(Rows) /\ RingHolds(t[path], given[path])
    BY <2>1 DEF Agree, Histories
  <2>4. Append(given[path], row) \in Seq(Rows)
    BY <2>3
  <2>5. RingHolds(push(t[path], row), Append(given[path], row))
    BY <2>3, PushKeeps
  <2>6. push(t[path], row) \in RingType
    BY <2>5, RingTyped
  <2> QED
    BY <2>1, <2>2, <2>4, <2>5, <2>6 DEF Agree, Trees, Histories
<1> QED
  BY <1>1, <1>2

\* The two folds of a frame, row by row.
Pushed(t, batch) == FoldLeft(pushRow, t, batch)
Remembered(given, batch) == FoldLeft(note, given, batch)

LEMMA PushesWalk ==
  ASSUME NEW n \in Nat, NEW batch \in [1..n -> Rows], NEW t, NEW given, Agree(t, given)
  PROVE  \E w : /\ w[0] = t /\ Pushed(t, batch) = w[n]
                /\ \A k \in 0..(n - 1) : w[k + 1] = pushRow(w[k], batch[k + 1])
<1> DEFINE C == {u \in Trees : \E past \in Histories : Agree(u, past)}
           step(T, h) == IF T = {} THEN t ELSE pushRow(h[T \ {Greatest(T)}], batch[Greatest(T)])
           Carries(h) == h = [T \in SUBSET (1..n) |-> step(T, h)]
           run == CHOOSE h : Carries(h)
           g == [c \in (1..n) \X C |-> pushRow(c[2], batch[c[1]])]
           w == [k \in 0..n |-> run[1..k]]
<1>1. DOMAIN batch = 1..n
  OBVIOUS
<1>2. Pushed(t, batch) = run[1..n]
  BY <1>1 DEF Pushed, Remembered, FoldLeft, MapThenFoldSet, Max, Greatest
<1>3. t \in C
  BY DEF Agree
<1>4. ASSUME NEW k \in 1..n, NEW u \in C PROVE pushRow(u, batch[k]) \in C
  <2>1. PICK past \in Histories : Agree(u, past)
    OBVIOUS
  <2>2. Agree(pushRow(u, batch[k]), note(past, batch[k]))
    BY <2>1, RowPushed
  <2> QED
    BY <2>2 DEF Agree
<1> HIDE DEF C
<1>5. \E h : Carries(h)
  <2>1. g \in [(1..n) \X C -> C] /\ \A k \in 1..n, u \in C : g[<<k, u>>] = pushRow(u, batch[k])
    BY <1>4
  <2> HIDE DEF g
  <2>2. PICK h \in [SUBSET (1..n) -> C] : Folds(n, t, g, h)
    BY <1>3, <2>1, FoldExists
  <2>3. ASSUME NEW T \in SUBSET (1..n), T # {}
        PROVE  g[<<Greatest(T), h[T \ {Greatest(T)}]>>] = pushRow(h[T \ {Greatest(T)}], batch[Greatest(T)])
    <3>1. \E j \in T : \A i \in T : j >= i
      BY <2>3, GreatestNumber
    <3>2. Greatest(T) \in 1..n
      BY <2>3, <3>1 DEF Greatest
    <3>3. h[T \ {Greatest(T)}] \in C
      OBVIOUS
    <3> QED
      BY <2>1, <3>2, <3>3
  <2>4. Carries(h)
    BY <2>2, <2>3 DEF Folds
  <2> QED
    BY <2>4
<1>6. Carries(run)
  BY <1>5
<1> HIDE DEF run
<1>7. w[0] = t /\ w[n] = run[1..n]
  <2>1. 1..0 = {} /\ 1..0 \in SUBSET (1..n) /\ 0 \in 0..n /\ n \in 0..n
    OBVIOUS
  <2> QED
    BY <1>6, <2>1
<1>8. ASSUME NEW k \in 0..(n - 1) PROVE w[k + 1] = pushRow(w[k], batch[k + 1])
  <2>1. /\ k \in Nat /\ k \in 0..n /\ k + 1 \in 0..n /\ k + 1 \in 1..n /\ 1..(k + 1) \in SUBSET (1..n)
    OBVIOUS
  <2>2. /\ 1..(k + 1) # {} /\ Greatest(1..(k + 1)) = k + 1
        /\ 1..(k + 1) \ {Greatest(1..(k + 1))} = 1..k
    BY <2>1, GreatestOfAll
  <2>3. run[1..(k + 1)] = pushRow(run[1..k], batch[k + 1])
    BY <1>6, <2>1, <2>2
  <2> QED
    BY <2>1, <2>3
<1> HIDE DEF w
<1> QED
  BY <1>2, <1>7, <1>8

LEMMA NotesWalk ==
  ASSUME NEW n \in Nat, NEW batch \in [1..n -> Rows], NEW given \in Histories
  PROVE  \E w : /\ w[0] = given /\ Remembered(given, batch) = w[n]
                /\ \A k \in 0..(n - 1) : w[k + 1] = note(w[k], batch[k + 1])
<1> DEFINE C == Histories
           step(T, h) == IF T = {} THEN given ELSE note(h[T \ {Greatest(T)}], batch[Greatest(T)])
           Carries(h) == h = [T \in SUBSET (1..n) |-> step(T, h)]
           run == CHOOSE h : Carries(h)
           g == [c \in (1..n) \X C |-> note(c[2], batch[c[1]])]
           w == [k \in 0..n |-> run[1..k]]
<1>1. DOMAIN batch = 1..n
  OBVIOUS
<1>2. Remembered(given, batch) = run[1..n]
  BY <1>1 DEF Pushed, Remembered, FoldLeft, MapThenFoldSet, Max, Greatest
<1>3. given \in C
  OBVIOUS
<1>4. ASSUME NEW k \in 1..n, NEW u \in C PROVE note(u, batch[k]) \in C
  <2> DEFINE row == batch[k]
             path == <<row.a, row.b>>
  <2>1. row \in Rows
    OBVIOUS
  <2> HIDE DEF row
  <2>2. CASE Placed(row)
    <3>1. path \in Leaves
      BY <2>1, <2>2 DEF Placed, Rows, Leaves
    <3>2. note(u, row) = [u EXCEPT ![path] = Append(u[path], row)]
      BY <2>2 DEF note
    <3> HIDE DEF path
    <3>3. Append(u[path], row) \in Seq(Rows)
      BY <2>1, <3>1 DEF Histories
    <3> QED
      BY <3>1, <3>2, <3>3 DEF Histories, row
  <2>3. CASE ~ Placed(row)
    BY <2>3 DEF note, row
  <2> QED
    BY <2>2, <2>3
<1> HIDE DEF C
<1>5. \E h : Carries(h)
  <2>1. g \in [(1..n) \X C -> C] /\ \A k \in 1..n, u \in C : g[<<k, u>>] = note(u, batch[k])
    BY <1>4
  <2> HIDE DEF g
  <2>2. PICK h \in [SUBSET (1..n) -> C] : Folds(n, given, g, h)
    BY <1>3, <2>1, FoldExists
  <2>3. ASSUME NEW T \in SUBSET (1..n), T # {}
        PROVE  g[<<Greatest(T), h[T \ {Greatest(T)}]>>] = note(h[T \ {Greatest(T)}], batch[Greatest(T)])
    <3>1. \E j \in T : \A i \in T : j >= i
      BY <2>3, GreatestNumber
    <3>2. Greatest(T) \in 1..n
      BY <2>3, <3>1 DEF Greatest
    <3>3. h[T \ {Greatest(T)}] \in C
      OBVIOUS
    <3> QED
      BY <2>1, <3>2, <3>3
  <2>4. Carries(h)
    BY <2>2, <2>3 DEF Folds
  <2> QED
    BY <2>4
<1>6. Carries(run)
  BY <1>5
<1> HIDE DEF run
<1>7. w[0] = given /\ w[n] = run[1..n]
  <2>1. 1..0 = {} /\ 1..0 \in SUBSET (1..n) /\ 0 \in 0..n /\ n \in 0..n
    OBVIOUS
  <2> QED
    BY <1>6, <2>1
<1>8. ASSUME NEW k \in 0..(n - 1) PROVE w[k + 1] = note(w[k], batch[k + 1])
  <2>1. /\ k \in Nat /\ k \in 0..n /\ k + 1 \in 0..n /\ k + 1 \in 1..n /\ 1..(k + 1) \in SUBSET (1..n)
    OBVIOUS
  <2>2. /\ 1..(k + 1) # {} /\ Greatest(1..(k + 1)) = k + 1
        /\ 1..(k + 1) \ {Greatest(1..(k + 1))} = 1..k
    BY <2>1, GreatestOfAll
  <2>3. run[1..(k + 1)] = note(run[1..k], batch[k + 1])
    BY <1>6, <2>1, <2>2
  <2> QED
    BY <2>1, <2>3
<1> HIDE DEF w
<1> QED
  BY <1>2, <1>7, <1>8

\* updateFrame: a frame of any number of batch.
LEMMA FrameFolded ==
  ASSUME NEW n \in Nat, NEW batch \in [1..n -> Rows], NEW t, NEW given, Agree(t, given)
  PROVE  Agree(Pushed(t, batch), Remembered(given, batch))
<1>1. PICK w : /\ w[0] = t /\ Pushed(t, batch) = w[n]
               /\ \A k \in 0..(n - 1) : w[k + 1] = pushRow(w[k], batch[k + 1])
  BY PushesWalk
<1>2. given \in Histories
  BY DEF Agree
<1>3. PICK v : /\ v[0] = given /\ Remembered(given, batch) = v[n]
               /\ \A k \in 0..(n - 1) : v[k + 1] = note(v[k], batch[k + 1])
  BY <1>2, NotesWalk
<1> DEFINE Up == {k \in 0..n : Agree(w[k], v[k])}
<1>4. 0 \in Up
  BY <1>1, <1>3
<1>5. ASSUME NEW k \in 0..(n - 1), k \in Up PROVE k + 1 \in Up
  <2>1. Agree(pushRow(w[k], batch[k + 1]), note(v[k], batch[k + 1]))
    BY <1>5, RowPushed
  <2> QED
    BY <1>1, <1>3, <2>1
<1> HIDE DEF Up
<1>6. n \in Up
  BY <1>4, <1>5, UpTo
<1> QED
  BY <1>1, <1>3, <1>6 DEF Up

StoreInv == Agree(tree, accepted) /\ held \in Values \cup {NoValue}

LEMMA EmptyAgrees == Agree(empty, nothing)
<1>1. Circular \in RingType
  BY EmptyHolds, RingTyped
<1>2. empty \in Trees /\ nothing \in Histories
  BY <1>1 DEF empty, nothing, Trees, Histories
<1>3. \A path \in Leaves : RingHolds(empty[path], nothing[path])
  BY EmptyHolds DEF empty, nothing
<1> QED
  BY <1>2, <1>3 DEF Agree

LEMMA StoreStart == StoreInit => StoreInv
BY EmptyAgrees DEF StoreInit, StoreInv

LEMMA RowsStep == StoreInv /\ RowsArrive => StoreInv'
<1> SUFFICES ASSUME StoreInv, RowsArrive PROVE StoreInv'
  OBVIOUS
<1>0. Agree(tree, accepted) /\ held \in Values \cup {NoValue}
  BY DEF StoreInv
<1>1. ASSUME NEW n \in 0..1, NEW batch \in [1..n -> Rows], updateFrame(batch) PROVE StoreInv'
  <2>1. tree' = Pushed(tree, batch) /\ accepted' = Remembered(accepted, batch) /\ held' = held
    BY <1>1 DEF updateFrame, Pushed, Remembered
  <2>2. Agree(Pushed(tree, batch), Remembered(accepted, batch))
    BY <1>0, FrameFolded
  <2> QED
    BY <1>0, <2>1, <2>2 DEF StoreInv
<1>2. ASSUME NEW path \in Leaves, NEW row \in Rows, Amend(path, row) PROVE StoreInv'
  <2> DEFINE new == replaceTail(tree[path], row)
             last == Len(accepted[path])
             past == [accepted[path] EXCEPT ![last] = row]
  <2>1. /\ tree[path].count > 0 /\ tree' = [tree EXCEPT ![path] = new] /\ held' = held
        /\ accepted' = [accepted EXCEPT ![path] = past]
    BY <1>2 DEF Amend
  <2>2. accepted[path] \in Seq(Rows) /\ RingHolds(tree[path], accepted[path])
    BY <1>0 DEF Agree, Histories
  <2>3. past \in Seq(Rows) /\ RingHolds(new, past)
    BY <2>1, <2>2, ReplaceKeeps
  <2>4. new \in RingType
    BY <2>3, RingTyped
  <2> HIDE DEF new, past
  <2>5. Agree(tree', accepted')
    BY <1>0, <2>1, <2>3, <2>4 DEF Agree, Trees, Histories
  <2> QED
    BY <1>0, <2>1, <2>5 DEF StoreInv
<1>3. CASE reset
  BY <1>0, <1>3, EmptyAgrees DEF reset, StoreInv
<1> QED
  BY <1>1, <1>2, <1>3 DEF RowsArrive

LEMMA NewestShown == StoreInv => NewestKept
<1> SUFFICES ASSUME StoreInv, NEW path \in Leaves
             PROVE  LET given == accepted[path]
                        last == SubSeq(given, Len(given) - Min({Limit, Len(given)}) + 1, Len(given))
                    IN  values(tree[path]) = last /\ (last # <<>> => latest(tree[path]) = given[Len(given)])
  BY DEF NewestKept
<1>1. accepted[path] \in Seq(Rows) /\ RingHolds(tree[path], accepted[path])
  BY DEF StoreInv, Agree, Histories
<1> QED
  BY <1>1, RingShows

\* A frame's layers under the prefix, and two of them laid over each other.
Shapes == UNION {[ps -> Payloads \cup {Blank}] : ps \in SUBSET Paths}

LEMMA OverlayIs ==
  ASSUME NEW ls \in Shapes, NEW ms \in Shapes
  PROVE  /\ Overlay(ls, ms) \in Shapes
         /\ DOMAIN Overlay(ls, ms) = DOMAIN ls \cup DOMAIN ms
         /\ \A p \in DOMAIN ls \cup DOMAIN ms :
              Overlay(ls, ms)[p] = IF p \in DOMAIN ms THEN ms[p] ELSE ls[p]
<1> DEFINE ps == DOMAIN ls \cup DOMAIN ms
           all == [p \in ps |-> IF p \in DOMAIN ms THEN ms[p] ELSE ls[p]]
<1>1. Overlay(ls, ms) = all
  BY DEF Overlay
<1>2. /\ DOMAIN ls \subseteq Paths /\ DOMAIN ms \subseteq Paths
      /\ \A p \in DOMAIN ls : ls[p] \in Payloads \cup {Blank}
      /\ \A p \in DOMAIN ms : ms[p] \in Payloads \cup {Blank}
  BY DEF Shapes
<1>3. ps \in SUBSET Paths /\ all \in [ps -> Payloads \cup {Blank}]
  BY <1>2
<1>4. all \in Shapes
  BY <1>3 DEF Shapes
<1> QED
  BY <1>1, <1>4

LEMMA RelativeIs ==
  ASSUME NEW v \in Values
  PROVE  layerRelativeToPrefix(v) \in Shapes
<1> DEFINE ps == DOMAIN v.layers \cap Paths
           new == [p \in ps |-> v.layers[p]]
<1>1. v.layers \in Layers
  BY DEF Values
<1>2. PICK qs \in SUBSET Paths \cup {{Foreign}} : v.layers \in [qs -> Payloads \cup {Blank}]
  BY <1>1 DEF Layers
<1>3. ps \in SUBSET Paths /\ new \in [ps -> Payloads \cup {Blank}]
  BY <1>2
<1> QED
  BY <1>3 DEF Shapes, layerRelativeToPrefix

\* A frame with other layers.
Relayered(v, ls) == [v EXCEPT !.layers = ls]

LEMMA RelayeredIs ==
  ASSUME NEW v \in Values, NEW ls \in Shapes
  PROVE  /\ Relayered(v, ls) \in Values /\ Relayered(v, ls).tick = v.tick
         /\ layerRelativeToPrefix(Relayered(v, ls)) = ls
<1> DEFINE w == [tick |-> v.tick, origin |-> v.origin, layers |-> ls]
<1>1. PICK ps \in SUBSET Paths : ls \in [ps -> Payloads \cup {Blank}]
  BY DEF Shapes
<1>2. ls \in Layers
  <2>1. ps \in SUBSET Paths \cup {{Foreign}}
    OBVIOUS
  <2> QED
    BY <1>1, <2>1 DEF Layers
<1>3. w \in Values
  BY <1>2 DEF Values
<1>4. Relayered(v, ls) = w
  BY DEF Relayered, Values
<1>5. w.tick = v.tick /\ w.layers = ls
  OBVIOUS
<1> HIDE DEF w
<1>6. layerRelativeToPrefix(w) = [p \in DOMAIN ls \cap Paths |-> ls[p]]
  BY <1>5 DEF layerRelativeToPrefix
<1>7. DOMAIN ls \cap Paths = DOMAIN ls /\ ls = [p \in DOMAIN ls |-> ls[p]]
  BY <1>1
<1> QED
  BY <1>3, <1>4, <1>5, <1>6, <1>7

\* mergeWorkspaceAggregate: a frame of the same tick is laid over, one of
\* another tick is taken as it is.
LEMMA MergeIs ==
  ASSUME NEW a \in Values, NEW v \in Values
  PROVE  LET m == mergeWorkspaceAggregate(a, v)
         IN  /\ m \in Values /\ m.tick = v.tick
             /\ layerRelativeToPrefix(m) =
                  IF a.tick = v.tick THEN Overlay(layerRelativeToPrefix(a), layerRelativeToPrefix(v))
                  ELSE layerRelativeToPrefix(v)
<1> DEFINE was == layerRelativeToPrefix(a)
           now == layerRelativeToPrefix(v)
           all == Overlay(was, now)
<1>1. a # NoValue
  BY ValueAssumption
<1>2. mergeWorkspaceAggregate(a, v)
        = IF a.tick # v.tick \/ DOMAIN all = {} THEN v ELSE Relayered(v, all)
  BY <1>1 DEF mergeWorkspaceAggregate, Relayered
<1>3. was \in Shapes /\ now \in Shapes
  BY RelativeIs
<1> HIDE DEF was, now
<1>4. all \in Shapes /\ DOMAIN all = DOMAIN was \cup DOMAIN now
  BY <1>3, OverlayIs
<1>5. ASSUME DOMAIN all = {} PROVE now = all
  <2>1. DOMAIN now = {} /\ now = [p \in DOMAIN now |-> now[p]] /\ all = [p \in DOMAIN all |-> all[p]]
    BY <1>3, <1>4, <1>5 DEF Shapes
  <2> HIDE DEF all
  <2> QED
    BY <1>5, <2>1
<1> HIDE DEF all
<1>6. /\ Relayered(v, all) \in Values /\ Relayered(v, all).tick = v.tick
      /\ layerRelativeToPrefix(Relayered(v, all)) = all
  BY <1>4, RelayeredIs
<1>7. CASE a.tick # v.tick
  BY <1>2, <1>7 DEF now
<1>8. CASE a.tick = v.tick /\ DOMAIN all = {}
  BY <1>2, <1>5, <1>8 DEF now, was, all
<1>9. CASE a.tick = v.tick /\ DOMAIN all # {}
  BY <1>2, <1>6, <1>9 DEF now, was, all
<1> QED
  BY <1>7, <1>8, <1>9

LEMMA OverlaysAgree ==
  ASSUME NEW h \in Shapes, NEW ls \in Shapes, NEW ms \in Shapes,
         \A p \in DOMAIN ls \cap DOMAIN ms : ls[p] = ms[p]
  PROVE  /\ Overlay(ls, ms) = Overlay(ms, ls)
         /\ Overlay(Overlay(h, ls), ms) = Overlay(Overlay(h, ms), ls)
         /\ Overlay(ls, ls) = ls
         /\ Overlay(Overlay(h, ls), ls) = Overlay(h, ls)
<1>1. Overlay(ls, ms) = Overlay(ms, ls)
  BY DEF Overlay
<1>2. Overlay(Overlay(h, ls), ms) = Overlay(Overlay(h, ms), ls)
  BY DEF Overlay
<1>3. Overlay(ls, ls) = ls
  BY DEF Overlay, Shapes
<1>4. Overlay(Overlay(h, ls), ls) = Overlay(h, ls)
  BY DEF Overlay
<1> QED
  BY <1>1, <1>2, <1>3, <1>4

LEMMA FramesOfATick == StoreInv => PartialFramesCommute
<1> SUFFICES ASSUME StoreInv, held # NoValue, NEW f \in Values, NEW g \in Values, f.tick = g.tick,
                    \A p \in DOMAIN f.layers \cap DOMAIN g.layers : f.layers[p] = g.layers[p]
             PROVE  /\ layerRelativeToPrefix(mergeWorkspaceAggregate(Folded(f), g))
                         = layerRelativeToPrefix(mergeWorkspaceAggregate(Folded(g), f))
                    /\ layerRelativeToPrefix(mergeWorkspaceAggregate(Folded(f), f))
                         = layerRelativeToPrefix(Folded(f))
  BY DEF PartialFramesCommute
<1> DEFINE h == layerRelativeToPrefix(held)
           ls == layerRelativeToPrefix(f)
           ms == layerRelativeToPrefix(g)
           hasF == Folded(f)
           hasG == Folded(g)
<1>1. held \in Values
  BY DEF StoreInv
<1>2. h \in Shapes /\ ls \in Shapes /\ ms \in Shapes
  BY <1>1, RelativeIs
<1>3. \A p \in DOMAIN ls \cap DOMAIN ms : ls[p] = ms[p]
  BY DEF layerRelativeToPrefix
<1>4. hasF \in Values /\ hasF.tick = f.tick
      /\ layerRelativeToPrefix(hasF) = IF held.tick = f.tick THEN Overlay(h, ls) ELSE ls
  BY <1>1, MergeIs DEF Folded
<1>5. hasG \in Values /\ hasG.tick = g.tick
      /\ layerRelativeToPrefix(hasG) = IF held.tick = g.tick THEN Overlay(h, ms) ELSE ms
  BY <1>1, MergeIs DEF Folded
<1> HIDE DEF h, hasF, hasG
<1>6. /\ layerRelativeToPrefix(mergeWorkspaceAggregate(hasF, g)) = Overlay(layerRelativeToPrefix(hasF), ms)
      /\ layerRelativeToPrefix(mergeWorkspaceAggregate(hasG, f)) = Overlay(layerRelativeToPrefix(hasG), ls)
      /\ layerRelativeToPrefix(mergeWorkspaceAggregate(hasF, f)) = Overlay(layerRelativeToPrefix(hasF), ls)
  BY <1>4, <1>5, MergeIs
<1>9. /\ layerRelativeToPrefix(hasF) = IF held.tick = f.tick THEN Overlay(h, ls) ELSE ls
      /\ layerRelativeToPrefix(hasG) = IF held.tick = f.tick THEN Overlay(h, ms) ELSE ms
  BY <1>4, <1>5
<1> HIDE DEF ls, ms
<1>7. /\ Overlay(ls, ms) = Overlay(ms, ls)
      /\ Overlay(Overlay(h, ls), ms) = Overlay(Overlay(h, ms), ls)
      /\ Overlay(ls, ls) = ls
      /\ Overlay(Overlay(h, ls), ls) = Overlay(h, ls)
  BY <1>2, <1>3, OverlaysAgree
<1>8. /\ layerRelativeToPrefix(mergeWorkspaceAggregate(hasF, g))
           = layerRelativeToPrefix(mergeWorkspaceAggregate(hasG, f))
      /\ layerRelativeToPrefix(mergeWorkspaceAggregate(hasF, f)) = layerRelativeToPrefix(hasF)
  BY <1>6, <1>7, <1>9
<1> QED
  BY <1>8 DEF hasF, hasG

LEMMA ValuesStep == StoreInv /\ ValuesArrive => StoreInv'
<1> SUFFICES ASSUME StoreInv, ValuesArrive PROVE StoreInv'
  OBVIOUS
<1>1. PICK v \in Values : ValueArrives(v)
  BY DEF ValuesArrive
<1>2. held' = mergeWorkspaceAggregate(held, v) /\ UNCHANGED <<tree, accepted>>
  BY <1>1 DEF ValueArrives
<1>3. held' \in Values
  <2>1. CASE held = NoValue
    BY <1>2, <2>1 DEF mergeWorkspaceAggregate
  <2>2. CASE held # NoValue
    BY <1>2, <2>2, MergeIs DEF StoreInv
  <2> QED
    BY <2>1, <2>2
<1> QED
  BY <1>2, <1>3 DEF StoreInv

-----------------------------------------------------------------------------
(* What is traced: Xray. *)

LEMMA CarrierFound == RetainedInv => CarrierHasLayers
<1> SUFFICES ASSUME RetainedInv, NEW j \in DOMAIN retained, hasLayers(retained[j].row)
             PROVE  hasLayers(resolveXrayCarrier(retained, focus))
  BY DEF CarrierHasLayers
<1> DEFINE mine == {i \in DOMAIN retained : retained[i].symbol \in symbolScopeAliases(focus)}
           layered == {i \in DOMAIN retained : hasLayers(retained[i].row)}
<1>1. retained \in Seq(Entries)
  BY DEF RetainedInv, RetainedOK
<1>2. DOMAIN retained = 1..Len(retained) /\ Len(retained) \in Nat
  BY <1>1, SeqIs
<1>3. layered # {} /\ layered \subseteq Nat
  BY <1>2
<1>4. \E i \in layered : \A k \in layered : i <= k
  BY <1>3, LeastNumber
<1>5. Min(layered) \in layered
  BY <1>4 DEF Min
<1>6. hasLayers(retained[Min(layered)].row)
  BY <1>5
<1>7. resolveXrayCarrier(retained, focus)
        = IF mine # {} /\ hasLayers(retained[Min(mine)].row) THEN retained[Min(mine)].row
          ELSE IF layered # {} THEN retained[Min(layered)].row
          ELSE retained[IF mine # {} THEN Min(mine) ELSE 1].row
  BY DEF resolveXrayCarrier
<1> HIDE DEF mine, layered
<1> QED
  BY <1>3, <1>6, <1>7

HistoryInv == history \in Seq(FrameOf)

LEMMA HistoryStart == SeriesInit => HistoryInv
BY DEF SeriesInit, HistoryInv

LEMMA HistoryStep == HistoryInv /\ [SeriesNext]_seriesVars => HistoryInv'
<1> SUFFICES ASSUME HistoryInv, [SeriesNext]_seriesVars PROVE HistoryInv'
  OBVIOUS
<1>1. ASSUME NEW f \in FrameOf, FrameArrives(f) PROVE HistoryInv'
  BY <1>1 DEF FrameArrives, HistoryInv
<1>2. CASE UNCHANGED seriesVars
  BY <1>2 DEF seriesVars, HistoryInv
<1> QED
  BY <1>1, <1>2 DEF SeriesNext

\* layerCount: the layers of a frame up to the last that has a state.
LEMMA LayersCounted ==
  ASSUME NEW f \in FrameOf
  PROVE  /\ layerCount(f) \in Nat
         /\ layerCount(f) > 0 => /\ layerCount(f) - 1 \in DOMAIN f
                                 /\ f[layerCount(f) - 1].state # {}
<1> DEFINE with == {j \in DOMAIN f : f[j].state # {}}
           counts == {0} \cup {i + 1 : i \in with}
<1>1. DOMAIN f \in {{}, {0}, {0, 1}}
  BY DEF FrameOf
<1>2. layerCount(f) = Max(counts)
  BY DEF layerCount
<1>3. with \subseteq {0, 1}
  BY <1>1
<1> HIDE DEF with
<1>4. counts \subseteq {0, 1, 2} /\ 0 \in counts
  BY <1>3
<1>5. \A m \in counts : m > 0 => m - 1 \in with
  BY <1>3
<1> HIDE DEF counts
<1>6. \E m \in counts : \A x \in counts : m >= x
  <2>1. CASE 2 \in counts
    BY <1>4, <2>1
  <2>2. CASE 2 \notin counts /\ 1 \in counts
    BY <1>4, <2>2
  <2>3. CASE 2 \notin counts /\ 1 \notin counts
    BY <1>4, <2>3
  <2> QED
    BY <2>1, <2>2, <2>3
<1>7. Max(counts) \in counts
  BY <1>6 DEF Max
<1>8. PICK m \in counts : layerCount(f) = m
  BY <1>2, <1>7
<1>9. m \in Nat
  BY <1>4
<1>10. m > 0 => m - 1 \in with
  BY <1>5
<1> QED
  BY <1>8, <1>9, <1>10 DEF with

LEMMA SeriesAligned == HistoryInv => TracesAligned
<1> SUFFICES ASSUME HistoryInv PROVE TracesAligned
  OBVIOUS
<1> DEFINE n == Len(history)
           count == IF history = <<>> THEN 0 ELSE layerCount(Last(history))
           lines == predictiveCodingSeries(history)
<1>1. history \in Seq(FrameOf) /\ DOMAIN history = 1..n /\ n \in Nat /\ (history # <<>> => n \in 1..n)
  <2>1. history \in Seq(FrameOf)
    BY DEF HistoryInv
  <2> QED
    BY <2>1, SeqIs
<1>2. lines = [i \in 0..(count - 1) |-> hierarchyTrace(history, i, count)]
  BY DEF predictiveCodingSeries
<1>3. count \in Nat
  BY <1>1, LayersCounted DEF Last
<1>4. ASSUME history # <<>>, count > 0
      PROVE  count - 1 \in DOMAIN history[n] /\ history[n][count - 1].state # {}
  BY <1>1, <1>4, LayersCounted DEF Last
<1> HIDE DEF count, n
<1>5. DOMAIN lines = 0..(count - 1) /\ Cardinality(DOMAIN lines) = count
  <2>1. DOMAIN lines = 0..(count - 1)
    BY <1>2
  <2>2. Cardinality(0..(count - 1)) = count
    BY <1>3, FS_Interval
  <2> QED
    BY <2>1, <2>2
<1>6. ASSUME NEW i \in 0..(count - 1)
      PROVE  /\ Len(lines[i]) = n
             /\ \A k \in 1..n : layerProfile(history[k], i, "state") = {} => lines[i][k] = "null"
             /\ Last(lines[i]) = "null" => i < count - 1
  <2> DEFINE line == [k \in 1..n |-> Reading(history[k], i, count)]
  <2>1. lines[i] = line
    BY <1>1, <1>2 DEF hierarchyTrace
  <2> HIDE DEF lines
  <2>2. Len(line) = n /\ \A k \in 1..n : line[k] = Reading(history[k], i, count)
    BY <1>1
  <2>3. \A k \in 1..n : layerProfile(history[k], i, "state") = {} => line[k] = "null"
    BY <2>2 DEF Reading
  <2>4. Last(line) = line[n]
    BY <2>2 DEF Last
  <2> HIDE DEF line
  <2>5. ASSUME i = count - 1 PROVE Last(line) # "null"
    <3>1. count > 0 /\ history # <<>>
      BY <1>3 DEF count
    <3>2. n \in 1..n /\ layerProfile(history[n], i, "state") # {}
      BY <1>1, <1>4, <2>5, <3>1 DEF layerProfile
    <3>3. line[n] \in {"value", "NaN"}
      BY <2>2, <2>5, <3>2 DEF Reading
    <3> QED
      BY <2>4, <3>3
  <2> QED
    BY <1>3, <2>1, <2>2, <2>3, <2>5
<1> QED
  BY <1>1, <1>5, <1>6 DEF TracesAligned, n

\* The Hawkes trace.
HawkesInv == samples \in Seq(Nat) /\ marketAt \in Nat

LEMMA HawkesStart == HawkesInit => HawkesInv
BY DEF HawkesInit, HawkesInv

LEMMA HawkesStep == HawkesInv /\ [HawkesNext]_hawkesVars => HawkesInv'
<1> SUFFICES ASSUME HawkesInv, [HawkesNext]_hawkesVars PROVE HawkesInv'
  OBVIOUS
<1>1. ASSUME NEW at \in 0..MaxAt, Arrival(at) PROVE HawkesInv'
  <2>1. at \in Nat
    BY XrayAssumption
  <2> QED
    BY <1>1, <2>1 DEF Arrival, HawkesInv
<1>2. CASE Clock
  BY <1>2 DEF Clock, HawkesInv
<1>3. CASE UNCHANGED hawkesVars
  BY <1>3 DEF hawkesVars, HawkesInv
<1> QED
  BY <1>1, <1>2, <1>3 DEF HawkesNext

\* Times that never go back, at least one of them.
Rising(ss) ==
  ss \in Seq(Nat) /\ ss # <<>> /\ \A i, j \in DOMAIN ss : i < j => ss[i] <= ss[j]

LEMMA SortedRises ==
  ASSUME NEW s \in Seq(Nat), s # <<>>
  PROVE  Rising(Sorted(s)) /\ Len(Sorted(s)) = Len(s)
<1> DEFINE n == Len(s)
           at == SortedPlaces(n, s)
           t == [k \in 1..n |-> s[at[k]]]
<1>1. n \in Nat \ {0} /\ DOMAIN s = 1..n /\ s \in [1..n -> Nat]
  BY SeqIs
<1>2. Sorted(s) = t
  BY <1>1 DEF Sorted
<1>3. at \in [1..n -> 1..n] /\ \A j, k \in 1..n : j < k => s[at[j]] <= s[at[k]]
  BY <1>1, PlacesSorted
<1> HIDE DEF n, at
<1>4. t \in [1..n -> Nat]
  BY <1>1, <1>3
<1>5. \A j, k \in 1..n : j < k => t[j] <= t[k]
  BY <1>3
<1> HIDE DEF t
<1>6. t \in Seq(Nat) /\ Len(t) = n /\ DOMAIN t = 1..n
  BY <1>1, <1>4, SeqMade
<1> QED
  BY <1>1, <1>2, <1>5, <1>6 DEF Rising, n

\* The last of each run of equal times.
LEMMA DedupeRises ==
  ASSUME NEW s, Rising(s)
  PROVE  Rising(Dedupe(s))
<1> DEFINE places == {i \in DOMAIN s : i < Len(s) => s[i] # s[i + 1]}
           t == Only(s, places)
<1>1. s \in Seq(Nat) /\ DOMAIN s = 1..Len(s) /\ Len(s) \in Nat \ {0}
  BY SeqIs DEF Rising
<1>2. Dedupe(s) = t
  BY DEF Dedupe
<1>3. places \subseteq DOMAIN s /\ Len(s) \in places
  BY <1>1
<1> HIDE DEF places
<1>4. /\ t \in Seq(Nat) /\ \A i \in places : \E k \in DOMAIN t : t[k] = s[i]
      /\ DOMAIN t = 1..Len(t)
  BY <1>1, <1>3, OnlyKeeps
<1>5. /\ InOrder(places) \in [DOMAIN t -> places]
      /\ \A k \in DOMAIN t : t[k] = s[InOrder(places)[k]]
      /\ \A j, k \in DOMAIN t : j < k => InOrder(places)[j] < InOrder(places)[k]
  BY <1>1, <1>3, OnlyPlaces
<1> HIDE DEF t
<1>6. t # <<>>
  BY <1>3, <1>4
<1>7. \A i, j \in DOMAIN s : i < j => s[i] <= s[j]
  BY DEF Rising
<1>8. \A j, k \in DOMAIN t : j < k => t[j] <= t[k]
  BY <1>3, <1>5, <1>7
<1> QED
  BY <1>2, <1>4, <1>6, <1>8 DEF Rising

\* samplesForTrace: whatever the order and the bunching of the arrivals.
LEMMA TracedRises ==
  ASSUME NEW s \in Seq(Nat), s # <<>>
  PROVE  Rising(samplesForTrace(s))
<1> DEFINE t == Sorted(s)
<1>1. Rising(t) /\ Len(t) = Len(s) /\ Len(s) \in Nat \ {0} /\ DOMAIN s = 1..Len(s)
  BY SortedRises, SeqIs
<1>2. samplesForTrace(s) = IF Len(s) <= 1 THEN s
                           ELSE IF Last(t) - Head(t) < MinGap THEN <<Last(t)>> ELSE Dedupe(t)
  BY DEF samplesForTrace
<1> HIDE DEF t
<1>3. CASE Len(s) <= 1
  <2>1. \A i, j \in DOMAIN s : ~ (i < j)
    BY <1>1, <1>3
  <2> QED
    BY <1>2, <1>3, <2>1 DEF Rising
<1>4. Rising(<<Last(t)>>)
  <2>1. t \in Seq(Nat) /\ DOMAIN t = 1..Len(t) /\ Len(t) \in 1..Len(t)
    BY <1>1, SeqIs DEF Rising
  <2>2. Last(t) \in Nat
    BY <2>1 DEF Last
  <2> QED
    BY <2>2 DEF Rising
<1>5. Rising(Dedupe(t))
  BY <1>1, DedupeRises
<1> QED
  BY <1>2, <1>3, <1>4, <1>5

\* Math.round of a part of a gap stays in it and the whole of it is reached.
LEMMA RoundIn ==
  ASSUME NEW gap \in Nat, NEW steps \in Nat \ {0}, NEW k \in 0..steps
  PROVE  /\ Round(gap * k, steps) \in 0..gap
         /\ k = steps => Round(gap * k, steps) = gap
<1> DEFINE r == 2 * steps
           x == 2 * (gap * k) + steps
<1>1. r \in Nat \ {0} /\ x \in Int /\ Round(gap * k, steps) = x \div r
  BY DEF Round
<1>2. 0 * r <= x
  <2>1. gap * k \in Nat
    OBVIOUS
  <2> QED
    BY <2>1
<1>3. x < (gap + 1) * r
  <2>1. PICK d \in Nat : steps = k + d
    <3>1. steps - k \in Nat /\ steps = k + (steps - k)
      OBVIOUS
    <3> QED
      BY <3>1
  <2>2. gap * steps = gap * k + gap * d /\ gap * d \in Nat /\ gap * k \in Nat
    BY <2>1
  <2>3. (gap + 1) * r = 2 * (gap * steps) + 2 * steps
    OBVIOUS
  <2> QED
    BY <2>2, <2>3
<1>4. k = steps => gap * r <= x
  OBVIOUS
<1> HIDE DEF r, x
<1>5. x \div r \in Int /\ 0 <= x \div r /\ x \div r <= gap /\ (k = steps => gap <= x \div r)
  BY <1>1, <1>2, <1>3, <1>4, QuotientIs
<1> QED
  BY <1>1, <1>5

\* What is drawn between one arrival and the next, or the viewport's edge.
SegmentOf(at, edge, from, wide) ==
  LET start == Max({at, from})
      gap == edge - start
      steps == Max({1, Ceil(gap * Pixels, wide)})
  IN  IF edge < from THEN {}
      ELSE {p \in {at} : p >= from}
           \cup (IF gap <= 0 THEN {} ELSE {start + Round(gap * k, steps) : k \in 0..steps})

LEMMA SegmentIn ==
  ASSUME NEW at \in Nat, NEW edge \in Int, NEW from \in Int, NEW through \in Int,
         from < through, at <= through, edge <= through
  PROVE  /\ SegmentOf(at, edge, from, through - from) \subseteq from..through
         /\ edge = through => through \in SegmentOf(at, edge, from, through - from)
<1> DEFINE wide == through - from
           start == Max({at, from})
           gap == edge - start
           least == Ceil(gap * Pixels, wide)
           steps == Max({1, least})
           drawn == {start + Round(gap * k, steps) : k \in 0..steps}
<1>1. SegmentOf(at, edge, from, wide)
        = IF edge < from THEN {} ELSE {p \in {at} : p >= from} \cup (IF gap <= 0 THEN {} ELSE drawn)
  BY DEF SegmentOf
<1>2. start = (IF at >= from THEN at ELSE from) /\ start \in Int /\ gap \in Int
  BY MaxPair
<1>3. wide \in Nat \ {0} /\ Pixels \in Nat
  BY XrayAssumption
<1> HIDE DEF start
<1>4. steps \in Nat \ {0}
  <2>1. gap * Pixels \in Int
    BY <1>2, <1>3
  <2> HIDE DEF gap, wide
  <2>2. (gap * Pixels + wide - 1) \div wide \in Int
    BY <1>3, <2>1
  <2>3. least \in Int
    BY <2>2 DEF Ceil
  <2> HIDE DEF least
  <2>4. steps = IF 1 >= least THEN 1 ELSE least
    BY <2>3, MaxPair
  <2> HIDE DEF steps
  <2> QED
    BY <2>3, <2>4
<1> HIDE DEF steps
<1>5. start + gap = edge
  BY <1>2
<1>6. ASSUME gap > 0 PROVE drawn \subseteq from..through /\ edge \in drawn
  <2>1. gap \in Nat
    BY <1>2, <1>6
  <2> HIDE DEF gap
  <2>2. ASSUME NEW k \in 0..steps
        PROVE  Round(gap * k, steps) \in 0..gap /\ (k = steps => Round(gap * k, steps) = gap)
    BY <1>4, <2>1, RoundIn
  <2>3. ASSUME NEW k \in 0..steps PROVE start + Round(gap * k, steps) \in from..through
    <3>1. Round(gap * k, steps) \in 0..gap
      BY <2>2
    <3> QED
      BY <1>2, <1>5, <2>1, <3>1
  <2>4. steps \in 0..steps /\ start + Round(gap * steps, steps) = edge
    BY <1>4, <1>5, <2>2
  <2> QED
    BY <2>3, <2>4
<1> HIDE DEF drawn
<1>7. SegmentOf(at, edge, from, wide) \subseteq from..through
  BY <1>1, <1>2, <1>6
<1>8. ASSUME edge = through PROVE through \in SegmentOf(at, edge, from, wide)
  <2>1. CASE gap > 0
    BY <1>1, <1>2, <1>6, <1>8, <2>1
  <2>2. CASE ~ (gap > 0)
    <3>1. at = through /\ at >= from /\ ~ (edge < from)
      BY <1>2, <1>8, <2>2
    <3> QED
      BY <1>1, <3>1
  <2> QED
    BY <2>1, <2>2
<1> QED
  BY <1>7, <1>8

\* A set of numbers up to one that it has, in order.
LEMMA CurveRuns ==
  ASSUME NEW from \in Int, NEW through \in Int, NEW S, S \subseteq from..through, through \in S
  PROVE  LET curve == orderTracePoints(S)
         IN  /\ \A i \in DOMAIN curve : from <= curve[i] /\ curve[i] <= through
             /\ \A i, j \in DOMAIN curve : i < j => curve[i] < curve[j]
             /\ Last(curve) = through
<1> DEFINE n == Cardinality(S)
           curve == InOrder(S)
<1>1. IsFiniteSet(S) /\ S \subseteq Int
  <2>1. IsFiniteSet(from..through)
    BY FS_Interval
  <2>2. IsFiniteSet(S)
    <3> DEFINE T == from..through
    <3>1. IsFiniteSet(T) /\ S \subseteq T
      BY <2>1
    <3> HIDE DEF T
    <3> QED
      BY <3>1, FS_Subset
  <2>3. S \subseteq Int
    OBVIOUS
  <2> QED
    BY <2>2, <2>3
<1>2. n \in Nat
  BY <1>1, FS_CardinalityType
<1>3. /\ curve \in [1..n -> S]
      /\ \A x \in S : \E k \in 1..n : curve[k] = x
      /\ \A j, k \in 1..n : j < k => curve[j] < curve[k]
  BY <1>1, InOrderSorts
<1> HIDE DEF n, curve
<1>4. DOMAIN curve = 1..n /\ Len(curve) = n
  BY <1>2, <1>3, SeqMade
<1>5. PICK k \in 1..n : curve[k] = through
  BY <1>3
<1>6. n \in 1..n /\ curve[n] \in from..through
  <2>1. n \in 1..n
    BY <1>2
  <2>2. curve[n] \in S
    BY <1>3, <2>1
  <2> QED
    BY <2>1, <2>2
<1>7. curve[n] = through
  <2>1. CASE k = n
    BY <1>5, <2>1
  <2>2. CASE k # n
    <3>1. k < n
      BY <1>2, <2>2
    <3>2. curve[k] < curve[n]
      BY <1>3, <1>6, <3>1
    <3> QED
      BY <1>5, <1>6, <3>2
  <2> QED
    BY <2>1, <2>2
<1>8. Last(curve) = through
  BY <1>4, <1>7 DEF Last
<1>9. \A i \in DOMAIN curve : from <= curve[i] /\ curve[i] <= through
  <2> TAKE i \in DOMAIN curve
  <2>1. curve[i] \in from..through
    BY <1>3, <1>4
  <2> QED
    BY <2>1
<1> QED
  BY <1>3, <1>4, <1>8, <1>9 DEF orderTracePoints, curve

LEMMA TraceFills == HawkesInv => TraceFillsViewport
<1> SUFFICES ASSUME HawkesInv, samples # <<>>
             PROVE  LET plot == hawkesTrace(samplesForTrace(samples), marketAt)
                        curve == orderTracePoints(plot.points)
                    IN  /\ \A i \in DOMAIN curve : plot.from <= curve[i] /\ curve[i] <= plot.through
                        /\ \A i, j \in DOMAIN curve : i < j => curve[i] < curve[j]
                        /\ Last(curve) = plot.through
                        /\ plot.through >= marketAt
  BY DEF TraceFillsViewport
<1> DEFINE ss == samplesForTrace(samples)
           n == Len(ss)
           through == Max({marketAt, Last(ss)})
           spread == Max({Last(ss) - Head(ss), Span})
           from == through - spread
           edge(i) == IF i < n THEN ss[i + 1] ELSE through
           drawn == UNION {SegmentOf(ss[i], edge(i), from, through - from) : i \in DOMAIN ss}
           plot == hawkesTrace(ss, marketAt)
<1>1. Rising(ss)
  BY TracedRises DEF HawkesInv
<1>2. plot = [points |-> drawn, from |-> from, through |-> through]
  BY DEF hawkesTrace, SegmentOf
<1> HIDE DEF ss
<1>3. /\ ss \in Seq(Nat) /\ DOMAIN ss = 1..n /\ n \in Nat \ {0}
      /\ \A i, j \in 1..n : i < j => ss[i] <= ss[j]
  BY <1>1, SeqIs DEF Rising
<1>4. Last(ss) = ss[n] /\ Head(ss) = ss[1]
  BY <1>3 DEF Last
<1>5. marketAt \in Nat /\ Span \in Nat \ {0}
  BY XrayAssumption DEF HawkesInv
<1>6. \A i \in 1..n : ss[i] \in Nat /\ ss[i] <= ss[n]
  <2> TAKE i \in 1..n
  <2>1. ss[i] \in Nat /\ ss[n] \in Nat /\ n \in 1..n
    BY <1>3
  <2> QED
    BY <1>3, <2>1
<1>7. n \in 1..n /\ 1 \in 1..n
  BY <1>3
<1>8. through \in Nat /\ through >= marketAt /\ through >= ss[n]
  BY <1>4, <1>5, <1>6, <1>7, MaxPair
<1>9. spread \in Int /\ spread >= Span
  BY <1>4, <1>5, <1>6, <1>7, MaxPair
<1> HIDE DEF through, spread, n
<1>10. from \in Int /\ from < through
  BY <1>5, <1>8, <1>9
<1> HIDE DEF from
<1>11. \A i \in 1..n : edge(i) \in Int /\ edge(i) <= through
  <2> TAKE i \in 1..n
  <2>1. CASE i < n
    <3>1. i + 1 \in 1..n
      BY <1>3, <2>1
    <3> QED
      BY <1>6, <1>7, <1>8, <2>1, <3>1
  <2>2. CASE ~ (i < n)
    BY <1>8, <2>2
  <2> QED
    BY <2>1, <2>2
<1>12. \A i \in 1..n : /\ SegmentOf(ss[i], edge(i), from, through - from) \subseteq from..through
                       /\ edge(i) = through => through \in SegmentOf(ss[i], edge(i), from, through - from)
  <2> TAKE i \in 1..n
  <2> DEFINE e == edge(i)
  <2>1. ss[i] \in Nat /\ ss[i] <= through
    BY <1>6, <1>7, <1>8
  <2>2. e \in Int /\ e <= through
    BY <1>11
  <2> HIDE DEF e
  <2>3. /\ SegmentOf(ss[i], e, from, through - from) \subseteq from..through
        /\ e = through => through \in SegmentOf(ss[i], e, from, through - from)
    BY <1>8, <1>10, <2>1, <2>2, SegmentIn
  <2> QED
    BY <2>3 DEF e
<1>13. edge(n) = through
  BY <1>3
<1> HIDE DEF edge
<1>14. drawn \subseteq from..through /\ through \in drawn
  BY <1>3, <1>7, <1>12, <1>13
<1> HIDE DEF drawn
<1>15. plot.points = drawn /\ plot.from = from /\ plot.through = through
  BY <1>2
<1> HIDE DEF plot
<1>18. through \in Int
  BY <1>8
<1>16. /\ \A i \in DOMAIN orderTracePoints(drawn) :
            from <= orderTracePoints(drawn)[i] /\ orderTracePoints(drawn)[i] <= through
       /\ \A i, j \in DOMAIN orderTracePoints(drawn) :
            i < j => orderTracePoints(drawn)[i] < orderTracePoints(drawn)[j]
       /\ Last(orderTracePoints(drawn)) = through
  BY <1>10, <1>14, <1>18, CurveRuns, Zenon
<1>17. plot = hawkesTrace(samplesForTrace(samples), marketAt)
  BY DEF plot, ss
<1> QED
  BY <1>8, <1>15, <1>16, <1>17

LEMMA TracesSound == RetainedInv /\ HawkesInv /\ HistoryInv => TracesAreSound
BY CarrierFound, TraceFills, SeriesAligned DEF TracesAreSound

-----------------------------------------------------------------------------
(* The specification that runs any part. *)

\* A step of the dashboard is a step of each part or leaves it alone.
LEMMA PartsStep ==
  [Next]_partVars => /\ [GridNext]_gridVars /\ [MemoNext]_memoVars /\ [BenchNext]_benchVars
                     /\ [SceneNext]_sceneVars /\ [ChoiceNext]_choiceVars /\ [ImpulseNext]_impulseVars
                     /\ [StopNext]_stopVars /\ [LotNext]_lotVars
                     /\ [ResonanceNext]_resonanceVars /\ [RegionNext]_regionVars
                     /\ [LabNext]_labVars /\ [PaletteNext]_paletteVars /\ [BoardNext]_boardVars
                     /\ [BookNext]_bookVars /\ [TreeNext]_treeVars
                     /\ [ReadingNext]_readingVars /\ [BindingNext]_bindingVars
                     /\ [InspectNext]_inspectVars /\ [HawkesNext]_hawkesVars
                     /\ [SeriesNext]_seriesVars /\ [RowsArrive \/ ValuesArrive]_storeVars
BY DEF Next, partVars

\* viewGetData, remember, warehouseClient and connect: whoever asks the
\* warehouse is answered, once and with what was asked for, for any number of
\* callers, windows, names and boots.
THEOREM Answers == Spec => []WarehouseAnswers
<1>1. Init => GridInv /\ MemoInv /\ BenchInv
  BY GridStart, MemoStart, BenchStart DEF Init
<1>2. GridInv /\ MemoInv /\ BenchInv /\ [Next]_partVars => (GridInv /\ MemoInv /\ BenchInv)'
  BY PartsStep, GridStep, MemoStep, BenchStep
<1>3. GridInv /\ MemoInv /\ BenchInv => WarehouseAnswers
  BY GridAnswers, MemoAnswers, BenchAnswers DEF WarehouseAnswers
<1> QED
  BY <1>1, <1>2, <1>3, PTL DEF Spec

\* use-impulse-data.ts, impulse-map-viz.tsx, open-choice-draw.ts and
\* open-choice-grid-layout.ts: what paints itself outside React shows the
\* present state once it is at rest, for any symbols, lots and layouts,
\* whatever frames, effects, timeouts and fades were still to run.
THEOREM ChartsRestCurrent == Spec => []ChartsAreCurrent
<1> DEFINE Inv == MapInv /\ ChoiceInv /\ SceneInv
<1>1. Init => Inv
  BY MapStart, ChoiceStart, SceneStart DEF Init
<1>2. Inv /\ [Next]_partVars => Inv'
  BY PartsStep, MapStep, ChoiceStep, SceneStep
<1>3. Inv => ChartsAreCurrent
  BY MapAnswers, ChoiceAnswers, SceneAnswers DEF ChartsAreCurrent
<1> QED
  BY <1>1, <1>2, <1>3, PTL DEF Spec

\* book-readout.ts, lib/stoploss.ts, stop-telemetry.ts, exit-policy-panel.tsx and
\* position-health.tsx: a lot reads the same on every screen, for any executions,
\* stops of the broker, close times and marks.
THEOREM LotsReadTrue == Spec => []LotReadsTrue
<1>1. Init => LotInv
  BY DEF Init, StopInit, LotInv
<1>2. LotInv /\ [Next]_partVars => LotInv'
  BY PartsStep, StopStep
<1> QED
  BY <1>1, <1>2, LotReads, PTL DEF Spec

\* The lit layers change with a value only.
LEMMA LitStep == [Next]_partVars => LitNeverDark
<1> SUFFICES ASSUME [Next]_partVars PROVE LitNeverDark
  OBVIOUS
<1>1. ASSUME lit' = lit PROVE LitNeverDark
  BY <1>1 DEF LitNeverDark
<1>2. CASE RowsArrive
  BY <1>1, <1>2 DEF RowsArrive, updateFrame, Amend, reset
<1>3. CASE ValuesArrive
  BY <1>3, LitStays DEF ValuesArrive, ValueArrives
<1>4. CASE UNCHANGED storeVars
  BY <1>1, <1>4 DEF storeVars
<1> QED
  BY <1>2, <1>3, <1>4 DEF Next, partVars

LEMMA LanesStep == [ResonanceNext]_resonanceVars => LanesNeverBlank
<1>1. CASE UNCHANGED resonanceVars
  BY <1>1 DEF resonanceVars, LanesNeverBlank
<1> QED
  BY <1>1, LanesStay

\* preserveLitLayers, retainResonanceRow, mergeResonanceData, cognition.ts,
\* book-readout.ts and lifecycle-view.tsx: nothing the page holds is lost to a
\* sparse, repeated or late frame, for any layers, metrics, sentences,
\* executions and round trips.
THEOREM NothingLost == Spec => NothingShownIsLost
<1> DEFINE Inv == RetainedInv /\ RegionInv /\ FillsInv
<1>1. Init => Inv
  BY RetainedStart, RegionStart, FillsStart DEF Init
<1>2. Inv /\ [Next]_partVars => Inv'
  BY PartsStep, RetainedStep, RegionStep, FillsStep
<1>3. Inv /\ [Next]_partVars => /\ LitNeverDark /\ RetainedNeverLoses /\ LanesNeverBlank
                               /\ RefusedKept /\ ReplayedFillIgnored /\ ChosenStaysShown
  BY PartsStep, LitStep, LanesStep, ChosenStays, RetainedStep, RegionStep, FillsStep
<1> QED
  BY <1>1, <1>2, <1>3, PTL DEF Spec, NothingShownIsLost

\* gate-lab.ts, terminal.ts and decisions.tsx: the engine has the draft that was
\* pushed, a book shows its own decisions only and one row per symbol, and the
\* highlight is where the arrows took it, for any commands, searches, clicks,
\* drafts, symbols and envelopes.
THEOREM ShellTrue == Spec => []ShellIsTrue
<1>1. Init => ShellInv
  BY LabStart, PaletteStart, BoardStart DEF Init, ShellInv
<1>2. ShellInv /\ [Next]_partVars => ShellInv'
  BY PartsStep, LabStep, PaletteStep, BoardStep DEF ShellInv
<1> QED
  BY <1>1, <1>2, ShellAnswers, PTL DEF Spec

\* explore-path.ts, cognition.ts and radix-tree-viz.tsx: the book holds nothing
\* that is pruned and depends on neither the order nor the cut of the frames, a
\* region once lit stays lit, and the tree drawn is the keys that are shown, for
\* any keys, thresholds, listings, ring, walks and clicks.
THEOREM PathsWhole == Spec => []PathsAreWhole
<1> DEFINE Inv == BookOK /\ RingsInv /\ TreeInv
<1>1. Init => Inv
  BY BookStart, RingsStart, TreeStart DEF Init
<1>2. Inv /\ [Next]_partVars => Inv'
  BY PartsStep, BookStep, RingsStep, TreeStep
<1>3. Inv => PathsAreWhole
  BY ShownKept, OrderFree, RingsCarry, TreeWhole DEF PathsAreWhole, BookIsOrderFree
<1> QED
  BY <1>1, <1>2, <1>3, PTL DEF Spec

\* circular.ts, store.ts, value.ts, xray-view.ts, xray-hawkes-trace.ts,
\* component.tsx, dom.ts, inspector.tsx and sparkline.tsx: what is read off
\* frames is true from the store to the readout, for any rows, layers, symbols,
\* arrivals, metrics and histories.
THEOREM ReadingsTrue == Spec => []ReadingsAreTrue
<1> DEFINE Inv == /\ StoreInv /\ ReadingInv /\ RetainedInv /\ HawkesInv /\ HistoryInv
                  /\ BindInv /\ InspectInv
<1>1. Init => Inv
  BY StoreStart, ReadingStart, RetainedStart, HawkesStart, HistoryStart, BindStart, InspectStart
     DEF Init
<1>2. StoreInv /\ [RowsArrive \/ ValuesArrive]_storeVars => StoreInv'
  <2>1. StoreInv /\ UNCHANGED storeVars => StoreInv'
    BY DEF StoreInv, storeVars
  <2> QED
    BY <2>1, RowsStep, ValuesStep
<1>3. Inv /\ [Next]_partVars => Inv'
  BY <1>2, PartsStep, ReadingStep, RetainedStep, HawkesStep, HistoryStep, BindStep, InspectStep
<1>4. Inv => FramesAreReadWhole
  BY NewestShown, FramesOfATick, MetricsRead, SampleTraced DEF FramesAreReadWhole, ReadingInv
<1>5. Inv => TracesAreSound
  BY TracesSound
<1>6. Inv => ReadoutsAgree
  BY BindAnswers, InspectShows DEF ReadoutsAgree
<1>7. Inv => ReadingsAreTrue
  BY <1>4, <1>5, <1>6 DEF ReadingsAreTrue
<1> QED
  BY <1>1, <1>3, <1>7, PTL DEF Spec
=============================================================================
