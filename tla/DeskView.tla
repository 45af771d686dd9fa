------------------------------- MODULE DeskView -------------------------------
(***************************************************************************)
(* What the dashboard makes of the desk's lots: the positions store that   *)
(* envelopes merge into (providers/websocket.tsx), the life-cycle store    *)
(* with its published report (lib/lifecycle.ts, lib/desk-closed-lifecycle, *)
(* lib/open-position-count) and the longtail recorder with its chart       *)
(* window (collections/longtail.ts).  Three sources feed it: the desk's    *)
(* Hello on every connect, the hub's listings of closed lots, and two      *)
(* timers.  The desk itself is external.  A row is what positionReadout    *)
(* makes of it (module Readings); its book and symbol never change.        *)
(***************************************************************************)
EXTENDS Orders, SequencesExt, FiniteSetsExt

CONSTANTS
  N,             \* lots are 1..N, in the order comparePositionRows gives them
  Books,
  BookOf,        \* the book of each lot
  Bids, Pcts,    \* marks and settled returns
  Stamps,        \* stamps of stored frames, triples epoch, tick, timestamp
  PctOf,         \* the return a stored frame carries
  SessionLimit,  \* SESSION_LIFECYCLE_LIMIT
  HistoryCap,    \* HISTORY_LIFECYCLE_CAP
  MarkCap,       \* the 400 of slice(-400)
  ChartSamples,  \* CHART_SAMPLES
  MaxTime,       \* bound on the clock, in sampling periods
  None           \* undefined

Lots == 1..N

VARIABLES
  desk,       \* external: [st, bid, pct, at] of each lot
  positions,  \* signals.positions: a row or None for each lot
  lives,      \* the Map of lib/lifecycle.ts, in insertion order
  stamps,     \* historyStamp
  report,     \* the published snapshot
  book,       \* bookAtom
  count,      \* atoms.positionCount
  window,     \* the samples of the chart window, oldest first
  lastAt,     \* longtailStore.lastSampleAt
  now

vars == <<desk, positions, lives, stamps, report, book, count, window, lastAt, now>>

-----------------------------------------------------------------------------
(* Rows and lives. *)

Row(l, closed, bid, pct, at) ==
  [id |-> l, closed |-> closed, bid |-> bid, pct |-> pct, at |-> at]

Life(row, marks, hist) ==
  [id |-> row.id, status |-> IF row.closed THEN "closed" ELSE "holding",
   bid |-> IF row.closed THEN None ELSE row.bid,
   marks |-> marks, pct |-> IF row.closed THEN row.pct ELSE None,
   at |-> row.at, hist |-> hist]

\* lifecycleFromDeskOpen carries one mark, lifecycleFromDeskClosed none.
RowMarks(row) ==
  IF row.closed \/ row.bid = None THEN <<>> ELSE <<row.bid>>

LifeOf(ls, l) == LET i == CHOOSE i \in DOMAIN ls : ls[i].id = l IN ls[i]
Known(ls, l) == \E i \in DOMAIN ls : ls[i].id = l
Without(ls, l) == Only(ls, {i \in DOMAIN ls : ls[i].id # l})

LastN(s, n) == IF Len(s) <= n THEN s ELSE SubSeq(s, Len(s) - n + 1, Len(s))

positionRows(ps) == Only(ps, {l \in Lots : ps[l] # None})

\* summarize: only a closed life with an outcome counts.
summarize(ls) ==
  LET settled == {i \in DOMAIN ls : ls[i].status = "closed" /\ ls[i].pct # None}
  IN  [rows |-> ToSet(ls),
       closed |-> Cardinality(settled),
       wins |-> Cardinality({i \in settled : ls[i].pct > 0}),
       pnl |-> MapThenSumSet(LAMBDA i : ls[i].pct, settled),
       open |-> Cardinality({i \in DOMAIN ls : ls[i].status # "closed"})]

openLots(ps, b) ==
  {l \in Lots : ps[l] # None /\ ~ps[l].closed /\ BookOf[l] = b}

-----------------------------------------------------------------------------
(* The life-cycle store.  Ingesting runs over [lives, stamps, changed].    *)

deskLifeChanged(prev, next) ==
  \/ prev.status # next.status \/ prev.at # next.at
  \/ prev.bid # next.bid \/ prev.pct # next.pct
  \/ Len(prev.marks) # Len(next.marks)

\* evictClosed, repeated: the oldest closed rows of the class go until the
\* class is within its limit or has no closed row left.
Evict(ls, limit, hist) ==
  LET class == {i \in DOMAIN ls : ls[i].hist = hist}
      done == {i \in class : ls[i].status = "closed"}
  IN  {ls[i].id : i \in {j \in done :
         Cardinality({k \in done : k <= j}) <= Cardinality(class) - limit}}

\* Mutant of storeLife: only a lot the store did not know is announced.
storeLifeQuietly(st, life) ==
  IF Known(st.lives, life.id) /\ ~deskLifeChanged(LifeOf(st.lives, life.id), life)
  THEN st
  ELSE LET ls == Append(Without(st.lives, life.id), life)
           gone == Evict(ls, IF life.hist THEN HistoryCap ELSE SessionLimit, life.hist)
       IN  [lives |-> Only(ls, {i \in DOMAIN ls : ls[i].id \notin gone}),
            stamps |-> [l \in Lots |-> IF l \in gone THEN None ELSE st.stamps[l]],
            changed |-> st.changed \/ ~Known(st.lives, life.id)]

storeLife(st, life) ==
  IF Known(st.lives, life.id) /\ ~deskLifeChanged(LifeOf(st.lives, life.id), life)
  THEN st
  ELSE LET ls == Append(Without(st.lives, life.id), life)
           gone == Evict(ls, IF life.hist THEN HistoryCap ELSE SessionLimit, life.hist)
       IN  [lives |-> Only(ls, {i \in DOMAIN ls : ls[i].id \notin gone}),
            stamps |-> [l \in Lots |-> IF l \in gone THEN None ELSE st.stamps[l]],
            changed |-> TRUE]

\* One row of ingestDeskClosedLots; a close already recorded stays.  A closed
\* row keeps what the store knew where it brings nothing itself.
IngestRow(st, row) ==
  IF Known(st.lives, row.id)
  THEN LET old == LifeOf(st.lives, row.id)
           marks == LastN(old.marks \o RowMarks(row), MarkCap)
           new == Life(row, marks, FALSE)
       IN  IF old.status = "closed" /\ ~row.closed THEN st
           ELSE storeLife(st, [new EXCEPT !.pct = IF @ = None THEN old.pct ELSE @,
                                          !.bid = IF @ = None THEN old.bid ELSE @])
  ELSE storeLife(st, Life(row, RowMarks(row), FALSE))

\* First loop of ingestDeskClosedLots: a life that is not closed leaves when
\* the rows no longer hold it open.
DropStale(st, rows) ==
  LET open == {r.id : r \in {x \in ToSet(rows) : ~x.closed}}
      kept == Only(st.lives, {i \in DOMAIN st.lives :
                                st.lives[i].status = "closed" \/ st.lives[i].id \in open})
  IN  [st EXCEPT !.lives = kept,
                 !.changed = @ \/ Len(kept) < Len(st.lives)]

\* Mutant of ingestDeskClosedLots: an open row replaces a recorded close.
ingestReopening(st, rows) ==
  FoldLeft(LAMBDA s, row : storeLife(s, Life(row, RowMarks(row), FALSE)),
           DropStale(st, rows), rows)

ingestDeskClosedLots(st, rows) == FoldLeft(IngestRow, DropStale(st, rows), rows)

\* historyFrameIsNewerStamp: epoch, then tick, then timestamp.
Newer(a, b) ==
  \/ a[1] > b[1]
  \/ a[1] = b[1] /\ a[2] > b[2]
  \/ a[1] = b[1] /\ a[2] = b[2] /\ a[3] > b[3]

\* One stored frame: a session row wins over it, and so does a newer frame.
ingestHistoryClosedEntry(st, entry) ==
  LET old == LifeOf(st.lives, entry.id)
      row == Row(entry.id, TRUE, None, PctOf[entry.stamp], entry.at)
      known == Known(st.lives, entry.id)
  IN  IF \/ known /\ ~old.hist
         \/ st.stamps[entry.id] # None /\ ~Newer(entry.stamp, st.stamps[entry.id])
      THEN st
      ELSE storeLife([st EXCEPT !.stamps[entry.id] = entry.stamp],
                     Life(row, IF known THEN old.marks ELSE <<>>, TRUE))

Store == [lives |-> lives, stamps |-> stamps, changed |-> FALSE]

\* publish, when something changed: the report and the header's count.
Publish(st, ps) ==
  /\ lives' = st.lives
  /\ stamps' = st.stamps
  /\ report' = IF st.changed THEN summarize(st.lives) ELSE report
  /\ count' = IF st.changed THEN Cardinality(openLots(ps, book)) ELSE count

deskRowFromClosedLife(life) == Row(life.id, TRUE, None, life.pct, life.at)

\* The rows of the store, then the closed lives it no longer has.
deskRowsForStats(ps, ls) ==
  LET held == Only(ls, {i \in DOMAIN ls : ls[i].status = "closed" /\ ls[i].pct # None
                                           /\ ps[ls[i].id] = None})
  IN  positionRows(ps) \o [i \in DOMAIN held |-> deskRowFromClosedLife(held[i])]

-----------------------------------------------------------------------------
(* The longtail window. *)

summarizeBook(rows, b) ==
  LET mine == {i \in DOMAIN rows : BookOf[rows[i].id] = b}
      scored == {i \in mine : rows[i].closed /\ rows[i].pct # None}
  IN  [closed |-> Cardinality(scored),
       open |-> Cardinality({i \in mine : ~rows[i].closed}),
       wins |-> Cardinality({i \in scored : rows[i].pct > 0})]

Sample(at, rows) == [at |-> at, books |-> [b \in Books |-> summarizeBook(rows, b)]]

windowIsWarmupOnly(w) ==
  /\ Len(w) <= 2
  /\ \A i \in DOMAIN w, b \in Books : w[i].books[b].closed = 0

\* The samples of seedFromClosedLots: the closed rows by closing time, and
\* one cumulative sample after every step rows and after the last.
Trajectory(rows) ==
  LET n == Len(rows)
      places == SortedPlaces(n, [i \in 1..n |-> rows[i].at])
      dated == [k \in 1..n |-> rows[places[k]]]
      step == Max({1, (n + ChartSamples - 1) \div ChartSamples})
      ends == {i \in 1..n : i % step = 0 \/ i = n}
  IN  [k \in 1..Cardinality(ends) |->
         LET i == InOrder(ends)[k] IN Sample(dated[i].at, SubSeq(dated, 1, i))]

\* seedFromClosedLots: the window and lastSampleAt after it.
seedFromClosedLots(w, at, ps, ls) ==
  LET all == deskRowsForStats(ps, ls)
      rows == Only(all, {i \in DOMAIN all : all[i].closed})
      made == Trajectory(rows)
  IN  IF windowIsWarmupOnly(w) /\ Len(rows) >= 2 /\ Len(made) >= 2
      THEN [w |-> LastN(made, ChartSamples), at |-> made[Len(made)].at]
      ELSE [w |-> w, at |-> at]

\* Recording at time t: captureSample counts the rows and then ingests them.
RecordAt(t, w) ==
  LET rows == deskRowsForStats(positions, lives)
  IN  /\ Publish(ingestDeskClosedLots(Store, rows), positions)
      /\ window' = LastN(Append(w, Sample(t, rows)), ChartSamples)
      /\ lastAt' = t

-----------------------------------------------------------------------------
Init ==
  /\ desk = [l \in Lots |-> [st |-> "unborn", bid |-> None, pct |-> None, at |-> 0]]
  /\ positions = [l \in Lots |-> None]
  /\ lives = <<>> /\ stamps = [l \in Lots |-> None]
  /\ report = summarize(<<>>)
  /\ book \in Books /\ count = 0
  /\ window = <<>> /\ lastAt = 0 /\ now = 0

\* The desk (external): a lot opens, reprices, closes, and may leave the
\* closed cache, which keeps one lot per symbol, for the stored history.
DeskSteps(l) ==
  /\ \/ /\ desk[l].st = "unborn"
        /\ \E b \in Bids \cup {None} :
             desk' = [desk EXCEPT ![l].st = "open", ![l].bid = b]
     \/ /\ desk[l].st = "open"
        /\ \E b \in Bids : desk' = [desk EXCEPT ![l].bid = b]
     \/ /\ desk[l].st = "open"
        /\ \E pct \in Pcts :
             desk' = [desk EXCEPT ![l] = [st |-> "closed", bid |-> None,
                                          pct |-> pct, at |-> now]]
     \/ /\ desk[l].st = "closed"
        /\ desk' = [desk EXCEPT ![l].st = "gone"]
  /\ UNCHANGED <<positions, lives, stamps, report, book, count, window, lastAt, now>>

\* Hello of the desk on connect reaches ingestEnvelope, which merges the lots
\* into the store: positions_mode is never sent.
Hello ==
  /\ positions' = [l \in Lots |->
       IF desk[l].st \in {"open", "closed"}
       THEN Row(l, desk[l].st = "closed", desk[l].bid, desk[l].pct, desk[l].at)
       ELSE positions[l]]
  /\ UNCHANGED <<desk, lives, stamps, report, book, count, window, lastAt, now>>

\* A frame of the closed listing, then the seeding.  The hub lists what is
\* stored: lots the desk has closed, each frame with its stamp.
ClosedListing(ids, s) ==
  /\ ids # {}
  /\ \A l \in ids : desk[l].st \in {"closed", "gone"}
  /\ LET entries == [i \in 1..Cardinality(ids) |->
                       LET l == InOrder(ids)[i]
                       IN  [id |-> l, stamp |-> s, at |-> desk[l].at]]
         st == FoldLeft(ingestHistoryClosedEntry, Store, entries)
         seeded == seedFromClosedLots(window, lastAt, positions, st.lives)
     IN  /\ Publish(st, positions)
         /\ window' = seeded.w /\ lastAt' = seeded.at
  /\ UNCHANGED <<desk, positions, book, now>>

\* The timer of ensureDeskLifecycleFeed.
FeedTick ==
  /\ Publish(ingestDeskClosedLots(Store, positionRows(positions)), positions)
  /\ UNCHANGED <<desk, positions, book, window, lastAt, now>>

\* The timer of ensureLongtailRecorder, dt periods after the previous event:
\* seed, then record unless the last sample is younger than a period.
RecorderTick(dt) ==
  /\ now + dt <= MaxTime
  /\ now' = now + dt
  /\ LET seeded == seedFromClosedLots(window, lastAt, positions, lives)
     IN  IF seeded.w # <<>> /\ now' - seeded.at < 1
         THEN /\ window' = seeded.w /\ lastAt' = seeded.at
              /\ UNCHANGED <<lives, stamps, report, count>>
         ELSE RecordAt(now', seeded.w)
  /\ UNCHANGED <<desk, positions, book>>

\* The top bar's choice of a ledger.
ChooseBook(b) ==
  /\ b # book
  /\ book' = b
  /\ UNCHANGED <<desk, positions, lives, stamps, report, count, window, lastAt, now>>

Next ==
  \/ \E l \in Lots : DeskSteps(l)
  \/ Hello \/ FeedTick
  \/ \E ids \in SUBSET Lots, s \in Stamps : ClosedListing(ids, s)
  \/ \E dt \in 0..1 : RecorderTick(dt)
  \/ \E b \in Books : ChooseBook(b)

Spec == Init /\ [][Next]_vars

-----------------------------------------------------------------------------
(* Properties. *)

\* What the views read is what the store holds: every change of a life, a
\* removal and an eviction included, was published (storeLife, publish).
ReportIsCurrent == report = summarize(lives)

\* A settled trade is never shown as open again, whatever order the desk's
\* rows, the stored history and the timers come in: it keeps its close or is
\* evicted ("a close already recorded stays").
ClosedStaysClosed ==
  \A i \in DOMAIN lives : lives[i].status = "closed" =>
    \A j \in DOMAIN lives' : lives'[j].id = lives[i].id => lives'[j].status = "closed"

\* The session rows stay within their limit as long as there is a closed one
\* to evict, and so do the rows of the stored history.
Closed(hist) == {i \in DOMAIN lives : lives[i].hist = hist /\ lives[i].status = "closed"}
Class(hist) == {i \in DOMAIN lives : lives[i].hist = hist}
LivesBounded ==
  /\ Cardinality(Class(FALSE)) > SessionLimit => Closed(FALSE) = {}
  /\ Cardinality(Class(TRUE)) > HistoryCap => Closed(TRUE) = {}

\* A row restored from history shows the newest stored frame received for
\* it, although chunks and repeated listings arrive in any order.
HistoryIsNewest ==
  \A i \in DOMAIN lives : lives[i].hist =>
    /\ stamps[lives[i].id] # None
    /\ lives[i].pct = PctOf[stamps[lives[i].id]]

\* Win rate and edge count every settled lot the dashboard knows once, in the
\* store or in the life-cycles (deskRowsForStats).
CountedOnce ==
  LET rows == deskRowsForStats(positions, lives)
  IN  /\ \A i, j \in DOMAIN rows : rows[i].id = rows[j].id => i = j
      /\ \A i \in DOMAIN lives : (lives[i].status = "closed" /\ lives[i].pct # None) =>
           \E j \in DOMAIN rows : rows[j].id = lives[i].id

\* Recording a sample feeds the reconstructed rows of settled lots back into
\* the store they came from; that leaves those lots as they were, still
\* marked as history and with the same return.
SamplingKeepsSettled ==
  \A i \in DOMAIN lives :
    (/\ (now' # now \/ lastAt' # lastAt)
     /\ lives[i].status = "closed" /\ positions[lives[i].id] = None
     /\ positions' = positions /\ stamps' = stamps)
    => \E j \in DOMAIN lives' : lives'[j] = lives[i]

\* The chart's time axis runs forward through seeded and recorded samples.
WindowRunsForward ==
  \A i, j \in DOMAIN window : i < j => window[i].at <= window[j].at

\* No step undoes a settled trade: neither a late row, a listing or a timer,
\* nor the recorder that reads it and feeds it back (ingestDeskClosedLots,
\* deskRowFromClosedLife).
SettledStays == [][ClosedStaysClosed /\ SamplingKeepsSettled]_vars

\* What the charts and the readouts are given is sound: the report is the
\* store's, the store is within its two bounds, a restored row is the newest
\* of its frames, each settled lot is counted once and the window runs forward
\* (publish, ingestHistoryClosedEntry, deskRowsForStats).
ReportIsSound ==
  /\ ReportIsCurrent /\ LivesBounded /\ WindowRunsForward
  /\ HistoryIsNewest /\ CountedOnce
=============================================================================
