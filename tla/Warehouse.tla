------------------------------- MODULE Warehouse -------------------------------
(***************************************************************************)
(* The analytical workbench: the rows a grid asks for and the buffer they  *)
(* are answered from, the answers kept per name (warehouse-handler.ts),    *)
(* and the connection screen (workbench.tsx, perspective.ts).  The code    *)
(* between two awaits is one step; a promise is the number of its request. *)
(***************************************************************************)
EXTENDS Integers, FiniteSets, FiniteSetsExt

CONSTANTS
  None,         \* undefined
  Grids,        \* concurrent callers of viewGetData
  Windows,      \* what they ask for: [from, to, cols]
  TableRows,    \* rows of the view
  BufferRows,   \* BUFFER_ROWS (2000)
  Overscan,     \* OVERSCAN_ROWS (400)
  MaxFetches,   \* bound on the requests of a behaviour
  Questions,    \* names whose schema, size or width is asked
  MaxAsked,     \* bound on the questions asked
  Hosted,       \* the tables a listing may return: sets of names
  MaxBoots      \* bound on the connections tried

ASSUME WarehouseAssumption ==
  /\ TableRows \in Nat /\ BufferRows \in Nat \ {0} /\ Overscan \in Nat
  /\ Windows \subseteq [from : Nat, to : Nat, cols : {w.cols : w \in Windows}]
  /\ \A w \in Windows : w.from < w.to
  /\ None \notin Nat

VARIABLES
  calls,     \* grid -> None or [win, attempt, state, on, rows]
  viewport,  \* viewportBuffers: None or [from, to, cols]
  inFlight,  \* inFlightFetches: None or a fetch
  fetches,   \* the running requests: fetch -> [asked, gone]
  fetched,   \* requests so far
  deleted,   \* whether viewDelete ran
  memo,      \* schemas, sizes, widths: name -> None or a question
  questions, \* question -> [name, state]
  dropped,   \* name -> how often it was dropped
  booted,    \* the boot every caller shares, or None
  boots,     \* boot -> "pending", "ok", "failed"
  attempts,  \* connects under way: [boot, stage, mount]
  bench      \* the workbench: [mount, shown, client, table, error, connecting]

gridVars == <<calls, viewport, inFlight, fetches, fetched, deleted>>
memoVars == <<memo, questions, dropped>>
benchVars == <<booted, boots, attempts, bench>>

-----------------------------------------------------------------------------
(* Rows. *)

covers(b, w) == b.cols = w.cols /\ w.from >= b.from /\ w.to <= b.to

\* The rows of the buffer that fill a window, as [from, to, cols].
fillSlice(b, w) ==
  LET size == b.to - b.from
      start == Min({size, Max({0, w.from - b.from})})
      end == Min({size, Max({start, w.to - b.from})})
  IN  [from |-> b.from + start, to |-> b.from + end, cols |-> b.cols]

\* What a direct request for a window returns.
Direct(w) == [w EXCEPT !.to = Max({w.from, Min({w.to, TableRows})})]

fetchViewportBuffer(w) ==
  LET start == Max({0, w.from - Overscan})
  IN  [from |-> start, cols |-> w.cols,
       to |-> start + Max({BufferRows, w.to - w.from + Overscan})]

\* on is the request waited for; its answer comes from the dropped view's
\* table only if it was sent before the drop.
WaitFor(c, w, attempt, f) ==
  calls' = [calls EXCEPT ![c] = [win |-> w, attempt |-> attempt, state |-> "waiting",
                                 on |-> f, rows |-> None]]
EndWith(c, w, state, rows) ==
  calls' = [calls EXCEPT ![c] = [win |-> w, attempt |-> 0, state |-> state,
                                 on |-> 0, rows |-> rows]]

\* The running requests and one more for a window.
Requested(f, w) ==
  [g \in DOMAIN fetches \cup {f} |->
     IF g = f THEN [asked |-> fetchViewportBuffer(w), gone |-> deleted] ELSE fetches[g]]

\* Mutant of Await: a caller never joins the request of another.
AwaitAlone(c, w, attempt) ==
  /\ fetched < MaxFetches
  /\ fetched' = fetched + 1
  /\ fetches' = Requested(fetched', w)
  /\ inFlight' = fetched'
  /\ WaitFor(c, w, attempt, fetched')

\* The caller waits for the request under way, or for one of its own.
Await(c, w, attempt) ==
  \/ /\ inFlight # None
     /\ WaitFor(c, w, attempt, inFlight)
     /\ UNCHANGED <<inFlight, fetches, fetched>>
  \/ /\ inFlight = None /\ fetched < MaxFetches
     /\ fetched' = fetched + 1
     /\ fetches' = Requested(fetched', w)
     /\ inFlight' = fetched'
     /\ WaitFor(c, w, attempt, fetched')

\* One turn of the loop: from the buffer, after four turns directly, or wait.
Turn(c, w, attempt) ==
  LET hit == viewport # None /\ covers(viewport, w)
  IN  /\ \/ hit /\ EndWith(c, w, "done", fillSlice(viewport, w))
            /\ UNCHANGED <<inFlight, fetches, fetched>>
         \/ ~hit /\ attempt = 4 /\ ~deleted /\ EndWith(c, w, "done", Direct(w))
            /\ UNCHANGED <<inFlight, fetches, fetched>>
         \/ ~hit /\ attempt = 4 /\ EndWith(c, w, "failed", None)
            /\ UNCHANGED <<inFlight, fetches, fetched>>
         \/ ~hit /\ attempt < 4 /\ Await(c, w, attempt)
      /\ UNCHANGED <<viewport, deleted>>

viewGetData(c) == \E w \in Windows :
  /\ ~deleted
  /\ calls[c] # None => calls[c].state \in {"done", "failed"}
  /\ Turn(c, w, 0)

Resume(c) ==
  /\ calls[c] # None /\ calls[c].state = "ready"
  /\ Turn(c, calls[c].win, calls[c].attempt + 1)

\* A request ends: its rows become the buffer (of a dropped view as well, if
\* they were read before the drop), and whoever waited goes on.
FetchEnds(f, ok) ==
  LET asked == fetches[f].asked
      to == Max({asked.from, Min({asked.to, TableRows})})
  IN  /\ fetches[f].gone => ~ok
      /\ fetches' = [g \in DOMAIN fetches \ {f} |-> fetches[g]]
      /\ inFlight' = IF inFlight = f THEN None ELSE inFlight
      /\ \/ ok /\ viewport' = [asked EXCEPT !.to = to]
         \/ ok /\ to = asked.from /\ UNCHANGED viewport  \* an empty body
         \/ ~ok /\ UNCHANGED viewport
      /\ calls' = [c \in Grids |->
                     IF calls[c] = None \/ calls[c].on # f THEN calls[c]
                     ELSE [calls[c] EXCEPT !.state = IF ok THEN "ready" ELSE "failed",
                                           !.on = 0]]
      /\ UNCHANGED <<fetched, deleted>>

viewDelete ==
  /\ ~deleted
  /\ deleted' = TRUE /\ viewport' = None /\ inFlight' = None
  /\ UNCHANGED <<calls, fetches, fetched>>

GridInit ==
  /\ calls = [c \in Grids |-> None]
  /\ viewport = None /\ inFlight = None /\ fetches = <<>> /\ fetched = 0 /\ deleted = FALSE
GridNext ==
  \/ \E c \in Grids : viewGetData(c) \/ Resume(c)
  \/ \E f \in DOMAIN fetches, ok \in BOOLEAN : FetchEnds(f, ok)
  \/ viewDelete

(* A grid is given exactly the rows and columns it asked for, cut at the   *)
(* end of the table, however its requests were shared with another grid    *)
(* that scrolled elsewhere meanwhile (viewGetData, fillSlice).             *)
SliceIsAsked ==
  \A c \in Grids : calls[c] # None /\ calls[c].state = "done" => calls[c].rows = Direct(calls[c].win)

(* "Concurrent callers share a single in-flight fetch": while the view     *)
(* lives at most one buffered request of it is running.                    *)
OneFetch == deleted \/ Cardinality(DOMAIN fetches) <= 1

(* No caller waits for a request that already ended or was forgotten, also *)
(* when the view is dropped under it: each ends with rows or an error.     *)
NoCallStranded ==
  \A c \in Grids : calls[c] # None /\ calls[c].state = "waiting"
    => calls[c].on \in DOMAIN fetches

-----------------------------------------------------------------------------
(* Answers kept per name. *)

\* remember: the promise is kept while it is pending and when it resolves.
Ask(n) ==
  LET q == Cardinality(DOMAIN questions) + 1
  IN  /\ memo[n] = None /\ q <= MaxAsked
      /\ questions' = [p \in 1..q |-> IF p = q THEN [name |-> n, state |-> "pending"]
                                      ELSE questions[p]]
      /\ memo' = [memo EXCEPT ![n] = q]
      /\ UNCHANGED dropped

\* A failure deletes whatever is kept under the name.
Answered(q, ok) ==
  /\ questions[q].state = "pending"
  /\ questions' = [questions EXCEPT ![q].state = IF ok THEN "ok" ELSE "failed"]
  /\ memo' = IF ok THEN memo ELSE [memo EXCEPT ![questions[q].name] = None]
  /\ UNCHANGED dropped

Drop(n) ==
  /\ memo[n] # None
  /\ memo' = [memo EXCEPT ![n] = None]
  /\ dropped' = [dropped EXCEPT ![n] = @ + 1]
  /\ UNCHANGED questions

MemoInit ==
  memo = [n \in Questions |-> None] /\ questions = <<>> /\ dropped = [n \in Questions |-> 0]
MemoNext ==
  \/ \E n \in Questions : Ask(n) \/ Drop(n)
  \/ \E q \in DOMAIN questions, ok \in BOOLEAN : Answered(q, ok)

(* "A failure is not kept": no later caller is answered with a rejection   *)
(* the warehouse has since recovered from (remember).                      *)
FailureNotKept == \A n \in Questions : memo[n] # None => questions[memo[n]].state # "failed"

(* A name is asked once while it is kept: the questions pending on it are  *)
(* never more than one, and one more for each time it was dropped.         *)
AskedOnce ==
  \A n \in Questions :
    Cardinality({q \in DOMAIN questions : questions[q] = [name |-> n, state |-> "pending"]})
      <= 1 + dropped[n]

-----------------------------------------------------------------------------
(* The connection screen. *)

\* warehouseClient: the boot every caller shares, started when there is none.
warehouseClient ==
  LET b == Cardinality(DOMAIN boots) + 1
  IN  IF booted # None THEN /\ UNCHANGED <<booted, boots>>
      ELSE /\ b <= MaxBoots
           /\ booted' = b
           /\ boots' = [c \in 1..b |-> IF c = b THEN "pending" ELSE boots[c]]

Attempt(b, m) == [boot |-> b, stage |-> IF boots'[b] = "ok" THEN "tables" ELSE "boot",
                  mount |-> m]

\* opening: the table shown first, if the warehouse has one.
opening(tables) ==
  IF tables = {} THEN None
  ELSE IF "closed_" \in tables THEN "closed_"
  ELSE IF "level3_events" \in tables THEN "level3_events" ELSE CHOOSE t \in tables : TRUE

Fresh(m) == [mount |-> m, shown |-> TRUE, client |-> FALSE, table |-> None,
             error |-> FALSE, connecting |-> TRUE]

MountBench ==
  /\ ~bench.shown
  /\ warehouseClient
  /\ bench' = Fresh(bench.mount + 1)
  /\ attempts' = attempts \cup {Attempt(booted', bench'.mount)}

UnmountBench ==
  /\ bench.shown
  /\ bench' = [bench EXCEPT !.shown = FALSE]
  /\ UNCHANGED <<booted, boots, attempts>>

Screen ==
  IF bench.error /\ ~bench.client THEN "unavailable"
  ELSE IF bench.connecting /\ ~bench.client THEN "connecting"
  ELSE IF bench.client /\ bench.table = None THEN "no tables"
  ELSE IF ~bench.client THEN "blank" ELSE "viewer"

Retry ==
  /\ bench.shown /\ Screen = "unavailable"
  /\ warehouseClient
  /\ bench' = [bench EXCEPT !.connecting = TRUE, !.error = FALSE]
  /\ attempts' = attempts \cup {Attempt(booted', bench.mount)}

\* What an attempt that ends sets, if it is still the page's.
Told(ended, s) ==
  IF \E a \in ended : bench.shown /\ a.mount = bench.mount THEN s ELSE bench
\* The error is its message, which may be empty.
Failed(message) == [bench EXCEPT !.error = message, !.connecting = FALSE]

BootFails(b, message) ==
  LET ended == {a \in attempts : a.boot = b /\ a.stage = "boot"}
  IN  /\ boots[b] = "pending"
      /\ boots' = [boots EXCEPT ![b] = "failed"]
      /\ booted' = None
      /\ attempts' = attempts \ ended
      /\ bench' = Told(ended, Failed(message))

BootSucceeds(b) ==
  /\ boots[b] = "pending"
  /\ boots' = [boots EXCEPT ![b] = "ok"]
  /\ attempts' = {IF a.boot = b THEN [a EXCEPT !.stage = "tables"] ELSE a : a \in attempts}
  /\ UNCHANGED <<booted, bench>>

TablesArrive(a) == \E tables \in Hosted :
  /\ a.stage = "tables"
  /\ attempts' = attempts \ {a}
  /\ bench' = Told({a}, [bench EXCEPT !.client = TRUE, !.table = opening(tables),
                                      !.error = FALSE, !.connecting = FALSE])
  /\ UNCHANGED <<booted, boots>>

TablesFail(a, message) ==
  /\ a.stage = "tables"
  /\ attempts' = attempts \ {a}
  /\ bench' = Told({a}, Failed(message))
  /\ UNCHANGED <<booted, boots>>

ChooseTable == \E t \in UNION Hosted :
  /\ bench.shown /\ Screen = "viewer"
  /\ bench' = [bench EXCEPT !.table = t]
  /\ UNCHANGED <<booted, boots, attempts>>

BenchInit ==
  booted = None /\ boots = <<>> /\ attempts = {} /\ bench = [Fresh(0) EXCEPT !.shown = FALSE]
BenchNext ==
  \/ bench.mount < MaxBoots /\ MountBench
  \/ UnmountBench \/ Retry \/ ChooseTable
  \/ \E b \in DOMAIN boots : BootSucceeds(b) \/ \E message \in BOOLEAN : BootFails(b, message)
  \/ \E a \in attempts : TablesArrive(a) \/ \E message \in BOOLEAN : TablesFail(a, message)

(* The page never stays on "connecting" with nothing under way: while it   *)
(* says so a connect of this very mount is pending, whatever was mounted,  *)
(* left and retried before (Workbench, connect).                           *)
ConnectingIsUnderWay ==
  bench.shown /\ Screen = "connecting" => \E a \in attempts : a.mount = bench.mount

(* "A failed boot is not retained": no connect waits on a boot that has    *)
(* already failed, so a retry always starts or joins a live one.           *)
RetryBoots ==
  /\ \A a \in attempts : a.stage = "boot" => boots[a.boot] = "pending"
  /\ booted # None => boots[booted] # "failed"

\* Whoever asks the warehouse is answered, once and with what was asked for,
\* through shared, failing and dropped requests, failed boots and retries.
WarehouseAnswers ==
  /\ SliceIsAsked /\ OneFetch /\ NoCallStranded
  /\ FailureNotKept /\ AskedOnce
  /\ ConnectingIsUnderWay /\ RetryBoots
=============================================================================
