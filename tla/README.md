# Formal verification of S.Y.M.M.

S.Y.M.M. is a Go trading system for the Kraken spot venue with a React/TypeScript
dashboard. This directory holds TLA+ models of its core logic, the TLC
configurations that check them on small instances, and TLAPS proofs of the
properties that matter most.

## 1. The system and its parts

| Part | Source | State | Operations | Interacts with |
|---|---|---|---|---|
| Booter | `cmd/booter.go` | transports, ingress goroutines | boot order, seed books, pump private feeds, level3 and trade ingress | everything |
| Desk | `broker/desk.go` | three tiers | `Update`, `Refresh`, `Apply`, `Enter`, `Exit`, `Pending`, `ClearPending` | Tier, Price, Model |
| Tier | `broker/tier.go` | win rate, edge, pending map, `unlocked` | `Update`, `Unlocked`, `Enter`, `Send`, `Recalculate` | Cache, Position, Transport |
| Cache | `broker/cache.go` | open and closed map keyed by symbol | `Add`, `Remove`, `Drop`, `Has`, `list`, `Restore` | Tier |
| Position | `broker/position.go` | fills, mark, PnL, stop, `ClosedAt` | `Update`, `Apply`, `Enter`, `Exit` | Stoploss, Price, Tier callback |
| Stoploss | `broker/stoploss.go` | state, floor, peak, pace | `Update`, `breathe`, `health` | Position |
| Book | `broker/book.go`, `broker/diagnostic.go` | books, pending, stale and invalid sets | `Expect`, `Wait`, `Update`, `Stale`, `Book`, resubscribe | Instrument, level3 socket, Price |
| Instrument | `broker/instrument.go` | pair cache, fees, subscriptions | `SubscribeBooks`, `ResubscribeLevel3`, `SubscribeTrades` | WebsocketClient, Book |
| Price | `broker/price.go`, `broker/entry_guard.go` | fees, tickers | sizing, round trip, physical gate | Book, Position, Tier |
| Paper, Live | `broker/paper.go`, `broker/live.go` | paper CLI process, open-fill watches, execution queue | `Write`, `Read`, `execute`, poll fills | Tier, pumpPrivate |
| WebsocketClient, Pinger | `network/*.go` | connection, hooks | `Open`, `Read`, `Write`, `ensureReady`, `SoftDown`, ping | Instrument, Booter |
| AuthNonce, Auth | `kraken/nonce.go`, `kraken/auth.go` | last nonce, file on disk, token | `Next`, `persistValue`, `Token` | REST, sockets |
| Model | `strategy/model.go` | policy tree pointer | `Step`, `flushSettled`, `enterTiers`, `Exit`, `Hold` | Desk, Tree |
| Tree | `strategy/tree.go` | path to decision map | `Predict`, `Update`, `Ensure`, `Insert`, `Delete` | Model, object store |
| Training, tokenizer | `strategy/training.go`, `strategy/tokenizer/*` | grammar, MDL, sequencer | `Step`, `stepCut`, Sequitur | Model |
| Signals, resonance | `signal/*`, `logic/resonance/*` | numeric estimators | `Step` | Training, Model |
| Hub | `ui/*.go` | one connection, frame queue, streams | `wsHandler`, `Write`, `pump`, commands | dashboard |
| Feed | `frontend/src/providers/*`, `hub/*` | page, web worker, socket, one-shot request guards | mount, connect, reconnect timer, route, focus, listing requests | Hub, every store |
| Desk view | `lib/lifecycle.ts`, `collections/longtail.ts` | lives of lots, published report, sample window | desk rows, stored listings, feed tick, recorder | Feed, longtail report |
| Frame stores | `collections/circular.ts`, `store.ts`, `types/value.ts` | ring buffers per key, layers of a value | append, replace the tail, merge a partial value | Feed, panels |
| Learning panels | `components/learning/*`, `collections/cognition.ts` | path book, tree, impulse map, open-choice chart, health, round trips | ingest, paint on frames and timers, choose, collapse | stores |
| X-ray, prediction | `components/terminal/xray-*`, `components/charts/*` | retained rows, traces, lanes | retain, choose a carrier, trace | stores |
| Longtail report | `collections/longtail.ts`, `components/longtail/*` | verdict, charts, exit mix, churn | derived from each sample | desk view, path book |
| Terminal shell | `collections/terminal.ts`, `gate-lab.ts`, `routes/__root.tsx` | palette, focus, drafts of the gate lab, decisions | keys, clicks, apply | Feed |
| Bound components, inspector | `components/ui/*`, `components/kernel/*` | elements found, series, modal history | reset, update, render | stores |
| Workbench page | `components/workbench/*` | viewport buffer, remembered answers, boot | ask, fetch, fail, retry, delete | a warehouse worker |
| Workbench engine, audit, tools, scripts | `workbench/*`, `audit/*`, `tools/*`, `scripts/*` | offline analysis | | object store |

### How they interact

Boot subscribes the Level3 books (one socket per batch of symbols), waits until
every book has a snapshot, and only then subscribes the trades ("the firehose").
From then on these goroutines run side by side:

- one reader per Level3 socket: it applies a frame to the books and then reprices
  the lots of the symbols the frame touched (`Desk.Refresh`);
- the trade goroutine: it reprices lots on every trade (`Desk.Update`) and runs the
  signals, the training and `Model.Step` on the tick, the latter with one
  concurrent task per symbol;
- one pump per private transport (paper, and real when armed): it applies
  executions to lots (`Desk.Apply`);
- a recovery goroutine per symbol whose book failed its checksum; the pinger of
  each socket; the watchers of open paper orders; the hub's pump.

They share the lots (a lock per lot, a lock per cache, none on a tier's win rate
and edge), the books (one lock, concurrent maps for pending, stale and invalid
symbols), the policy tree (one lock) and the nonce generator (atomics and a file).

The dashboard is one event loop and a web worker that owns the socket. Messages are
in flight between page and worker in both directions and between worker and hub.
The page merges each envelope into keyed stores; panels read the stores on store
events, animation frames, timers and awaited answers, so what one callback saw may be
gone when the next runs. The panels share the stores and hardly anything else.

### What is hard here, and what makes each part correct

| Part | Hard behaviour | Correct when |
|---|---|---|
| Lots | the settle callback runs unlocked while others reprice, enter and drop; maps go by symbol | a lot settles once; what is queued is closed; a live, sent lot can be found; real money follows proven paper profit only |
| Stop | the floor moves in the very update that judges the lot | what is kept is above floor and rail; a falling mark never widens; a triggered stop stays triggered |
| Books | drops, bad checksums, refusals and boot overlap; recovery races reconnect | a reader sees verified books only; a lost book is hidden; trades wait for seeded books; streams come back |
| Nonces | concurrent signers, unordered throttled writes, crashes, clock set back | nonces increase over goroutines and processes |
| Policy tree | check and insert under two lock acquisitions; prunes by prefix in the store | learned resistance is not lost; a restart brings back nothing pruned or outdated |
| Socket | several callers notice a failure and redial; a failure is noticed late | what is in use is subscribed; the stream comes back; consumers hear of every drop |
| Paper | polling of two commands, deadline of a watch | every fill is published once |
| Hub | attach and teardown race step by step with each other, the pump and publishers; bounded queue; a write without deadline | an open dashboard is fed and reported; no frame of its predecessor reaches it; the pump never stays stuck; streams can be cancelled |
| Repricing | two locks taken in both orders, one of them read twice | every repricing ends |
| Feed | the worker outlives nothing: unmounts, drops and requests cross each other; guards fire once | the hub serves the page's surface when quiet; the badge is the socket's; a lost socket is dialled again; listings come back |
| Desk view | live rows, stale stored rows, evictions and samples of the reconstructed rows in any order | a settled lot stays settled and is counted once; the report is what the store holds |
| Stores, values | wrapped rings whose tail is replaced; partial frames; cached decodings | newest rows in order; partial frames of one tick commute; a reading is that of the layers now |
| Painting panels | animation frames and fades of an earlier round, effects that run again, a timeout that outlives its view | what is drawn is the present symbol, size, layout |
| Path book and tree | five ingests with different merge rules; filters, collapses and hovers over a tree rebuilt meanwhile | nothing above the prune level is held; frames of a listing commute; the tree holds exactly the keys |
| Longtail report | several panels state the same fact from the same samples | they agree; no green on a losing book; gaps are gaps |
| Workbench page | concurrent callers share one request that may fail, or whose view is dropped | each is given what it asked; no caller is stranded; a failure is retried |
| Shell | drafts against what was sent; decisions per tier against cards per book | the engine has what the button pushed; books do not mix |
| Sequitur | incremental grammar | digrams unique, every rule used twice, expansion equals the input |
| Price | sizing against book, cash and venue minima | size within every cap or refused |

## 2. Modules

| Module | Models | Extended by |
|---|---|---|
| `Lots` | position, cache, tier, desk, and the part of the model that opens and settles lots | `MCLots`, `LotsProofs` |
| `Stoploss` | the breathing stop of one lot | `MCLive`, `StoplossProofs` |
| `StopContract` | abstract: what a position may rely on; `Stoploss` implements it | |
| `Books` | books, Level3 subscription and recovery, sockets and boot as they concern books | `MCBooks`, `BooksProofs` |
| `AuthNonce` | nonce generator with its file, crashes and clock | `Edges` |
| `PolicyTree` | the tree with its store, and `Model.Exit` | `MCPolicyTree`, `PolicyTreeProofs` |
| `Hub` | the hub's handlers, queue, pump and streams | `Edges`, `MCLive` |
| `Socket` | the reconnecting client with its callers, hooks and pinger | `Edges`, `MCLive` |
| `Edges` | nonces, hub, client and desk view side by side, with their constants open | `MCEdges`, `EdgeProofs` |
| `RepriceLocks` | the book lock and the lots' locks while lots are repriced | `MCRepriceLocks`, `MCLive` |
| `HubFeed` | page, worker, socket and hub of the dashboard's feed | `HubFeedProofs` |
| `DeskView` | the dashboard's lives of lots, their report, and the longtail recorder | `Edges` |
| `Orders` | filtering and sorting by what the result is: the runtime's `filter` and `sort`, for modules that are proved about | `DeskView`, `LotViews`, `PathTree`, `Shell`, `Readings`, `Xray`, `OrderProofs` |
| `FrameStore`, `Readings` | ring buffers, keyed stores, partial values; what is read off a value | `MCPanels`, `PanelsProofs` |
| `LiveCharts`, `ImpulseScene` | animation rounds of the impulse map and the open-choice chart; the drawn scene | `MCPanels`, `PanelsProofs` |
| `Xray` | retained rows, lanes, Hawkes trace, hierarchy series | `MCPanels`, `PanelsProofs` |
| `LotViews` | one lot's executions, stop, health, and the list of round trips | `MCPanels`, `PanelsProofs` |
| `PathBook`, `PathTree` | path keys and thresholds, training regions; the tree drawn of them | `MCPanels`, `PanelsProofs` |
| `Longtail`, `Plots` | verdict, exits, churn; the six charts (`Plots` extends `Longtail`) | `MCPanels` |
| `Bindings`, `Inspector` | components bound to stores; the kernel inspector and its sparkline | `MCPanels`, `PanelsProofs` |
| `Warehouse` | the workbench page | `MCPanels`, `PanelsProofs` |
| `Shell` | palette, focus by click, gate lab, decisions board | `MCPanels`, `PanelsProofs` |

A definition whose comment starts with "Mutant of" stands right before the action it
is named after and is a plausible mistake in it; put in its place, it must break the
property `PROJECT.json` names for it.

### Lots

State: a lot is its slot (tier and symbol) and a number. Go maps keyed by symbol
(`open`, `closed`, `pending`) are sets of lots; a pointer that is nil or set
(`ClosedAt`, `ExitPath`, a fill) is membership of a set.

Actions: `Reach`, `Receive`, `ReachFill` are how a goroutine comes to hold a lot;
`Reprice` and `Trigger` are the two outcomes of `Position.Update` under the lot's
lock; `Remove`, `Recount`, `WriteWinRate`, `WriteEdge`, `StorePending` are the
unlocked callback, one shared access each; `BeginStep` to `EndStep` are
`Model.Step` with `flushSettled`, and `Look` to `SendFails` the task of a symbol.

Abstractions:

- the stop gives up a lot at any repricing that has a return, which is all
  `StopContract` allows `Lots` to know;
- the gates of a model step, the physical guard and sizing are one choice each
  (`Skip`, `Deny`); holding a path changes no lot and is part of `Skip`;
- an order is filled in any number of executions, read late or never;
- `WinRate` is kept as zero, at most half, or more than half, and `Edge` as its
  sign, which is all the gate reads;
- a lot that `Cache.Restore` brings back, and the exit methods of desk, tier and
  position, which no code calls, are left out.

### Stoploss and StopContract

`Update` is `Stoploss.Update`: breathe, clamp at the hard rail, trigger, protect,
or judge the health. Returns are whole units; the pace of the marks depends on
arrival times, so every whole amount that some pace within the bounds gives is
possible. `StopContract` has two variables, whether the lot is kept and its last
return; `ImplementsContract` instantiates it with `state # "triggered"` and
`current`.

### Books

Actions per goroutine: boot (`Open`, `BootSubscribe`, `Register`, `BeginWait`,
`OpenFirehose`, `BootFails`), reader (`ReadSnapshot`, `ReadUpdate`, the five
outcomes of `apply`, then `ClearPending` and `Announce` after the book lock is
gone), recovery (`RecUnsub`, `RecSub`, `RecFails`, `RecDone`), socket (`Drop`,
`MarkStale`, `Redial`, `HookSubscribe`, `HookFails`, `HookClose`).

A book is reduced to whether it equals the venue's (`good`), failed its checksum
(`bad`) or was left in the middle of an entry (`part`). A frame carries one
symbol, and so does a subscribe frame of boot or hook. A redial waits at least a
second, so the disconnect hook has marked its symbols by then. After a failed
boot the goroutines run on until the process ends. The venue answers a
subscription with a snapshot and then deltas, in order, per connection.
The sets `fed`, `dead`, `late`, `early`, `cut` and `seeded` are history, read by
properties only.

### AuthNonce

`Load`, `Swap`, `SwapFails` are the compare-and-swap loop of `Next`; `Throttle`,
`Claim`, `Write` (or `WriteFails`), `Release` are `persistValue`. `Crash` ends the
process between any two steps and `Start` is `NewAuthNonce`. `Start` assumes that,
unless the clock was set back, a new process reads a clock beyond the nonces its
predecessor took: nonces run ahead of a nanosecond clock only by as many calls as
fall into one tick, and a process takes far longer to come up.

### PolicyTree

A path is an atom and `Under` gives the paths it is a prefix of. `Check` and
`Insert` are the two critical sections of `Ensure`; `Update` and `Predict` hold the
lock throughout, the store calls included. `Exit` is `Model.Exit`: check and seed
the entry path, the exit path, then move both.

Resistance is counted in steps of 0.05 (seed 0.5 is 10, the limit 0.8 is 16). In
floating point six losses add up to slightly more than 0.8, so the code prunes one
loss earlier than exact arithmetic; no property depends on the level, and the run
sets the limit equal to the seed so that prunes happen after one loss. A prune
deletes by prefix in the store but by key in memory: leaves that extend a pruned
path live on until the next restart loses them. `StoredIsLive` is the direction
that does hold.

### Hub

`Pause` to `Announce` are the lines of `wsHandler` up to the callbacks, one shared access
each; `Teardown` and `Unset` its deferred function; `Take` to `PumpUnsets` the pump with
`retireConnection`; `Produce` to `GiveUp` one call of `Write`, by a publisher or by a
handler (its Hello, its listings); `Command` to `StreamEnds` the s3 command with
`cancelStream` and `startStream`. Frames are counted, their content is left out.
`Together` says whether a second socket may be accepted while one attaches. Commands
that set a configuration value, and what a listing holds, are left out. `HubFeed` keeps
its own hub, which answers commands in order; what it assumes of delivery is what `Hub`
is about.

### Socket

`call` is where each goroutine is in `Read`, `Write`, `ensureReady`, `dialLocked`,
`runHook` and `SoftDown`; `nest` counts the redials inside a hook's own `Write`. A
connection is a number; `Break` ends it so that every operation fails, or quietly, so
that only the ping and, later, TCP keepalive find out. `WaitEnds` uses that a wait lasts a
second at least, by which time a goroutine that had closed its connection before has also
set the status. The pinger is one goroutine; its stop channel is
left out.

### RepriceLocks

Only who waits for whom: `Frame` announces the writer of the book lock and `ApplyFrame`
holds it; `Refresh` is the read that stays open while the lots are repriced; `LockLot`,
`ReadBook`, `LeaveBook`, `UnlockLot` are `Position.Update`, whether a refresh or a trade
called it.

### HubFeed

`page`, `worker` and `hub` are records; `toWorker`, `toPage`, `up` and `down` are the
four channels, first in first out as `postMessage` and a socket are. `Mount` and
`Unmount` are the effect of the provider, `PageReceives` and `WorkerReceives` the two
message handlers, `SocketOpens`, `SocketCloses` and `TimerFires` the worker's own
callbacks. `SocketCloses(TRUE)` is a hub that restarts and forgets route and focus. What
an envelope carries is the concern of `DeskView`, `PathBook` and `Shell`.

### DeskView

A lot is a number in the order the page sorts rows. `Hello` is an envelope of desk
rows, `ClosedListing` a page of stored closed lots with any of the stamps, `FeedTick` the
interval that republishes, `RecorderTick` the recorder with its seed on the first listing,
`ChooseBook` the switch of the ledger; `DeskSteps` is the desk, which is external. A stamp is a triple of epoch, tick and
time and `Newer` compares it as the code does. Prices, path walks and the fields
nothing here tells apart are left out.

### The panels

Each module models components that keep state of their own, with their inputs (a frame, a
click, a timer, an answer) as actions: `StoreInit`/`RowsArrive`/`ValuesArrive` and so on.
No two of them share a variable, so `MCPanels` checks them in one run: `part` is chosen at
the start and only that part's actions run. The reachable states are the sum of the
parts' and not their product.

- `FrameStore`: a buffer is a write position and rows; `ValueArrives` is the merge of a
  partial value by origin and tick, with lit layers that a blank does not overwrite.
- `Readings`: layers grow, `readings()` keeps its answer until they do, metrics and the
  Hawkes sample are made of it. An index entry is the list of its names.
- `LiveCharts`: `FrameRuns` is one callback of `requestAnimationFrame` holding the job it was
  asked with; `SetLayout` and `FadeEnds` are the change between one chart and a grid.
- `ImpulseScene`: a commit with its three effects is a step; the simulation ticks and its
  timeouts fire by themselves. A place is the container size whose grid the nodes stand on.
- `Xray`: rows are partial functions from metrics to values, with 0 for all zeros; the Hawkes
  trace is computed in whole nanosecond units of one fitted decay.
- `LotViews`: executions arrive again and in any order; the verdict on a stop is named after
  its sentence.
- `PathBook`: a key is home, path and action, a sorted list is its set; thresholds are tenths.
- `PathTree`: nodes are prefixes of paths; which are shown, bright and refused follows the code.
- `Longtail`, `Plots`: rates per mille; a chart's point is kept as numerators, so no rounding
  is lost. Insights keep their tone and not their text.
- `Bindings`, `Inspector`: elements are looked up once; an effect depends on a frame's
  identity; a kernel's frame is read without subscribing.
- `Warehouse`: the code between two awaits is one step and a promise is the number of its request.
- `Shell`: a search text is the set of commands it finds, a click the names in the texts around it.

## 3. Runs

| Run | Checks | Shows |
|---|---|---|
| `lots_tiers` | `TypeOK`, `PendingIsSettled`, `SettlesOnce`, `StopNeedsVenueFill`, `LiveLotsTracked` | one symbol, virtual and paper route, two repricing goroutines, failing Writes: the callback of a stopped lot runs once, what it queues is closed, a live lot can be found unless a Write of its slot failed |
| `lots_gate` | `RealFollowsPaperProfit` | the real tier armed, gains and losses: torn statistics never unlock it before a paper lot closed at a profit |
| `lots_sold` | `StoppedLotIsSold` (violated) | see finding 1 |
| `books` | `TypeOK`, `TradingAfterSeeding`, `LostIsHidden` | two sockets and every kind of fault |
| `books_streams` | `ReadableIsVerified`, `StreamsReturn` | two symbols on one socket, under fairness: books are verified and come back |
| `policy_tree` | `TypeOK`, `ResistanceKept`, `StoredIsLive` | two tasks, three paths of which one extends another, a restart |
| `edges`: nonces | `TypeOK`, `IncreasingUnlessRewound`, `MarkCoversDisk` | two signers, two crashes, one step back of the clock, failing writes |
| `edges`: hub | `OpenSocketIsFed` | two dashboards, one accepted at a time, three frames through a queue of one |
| `edges`: streams | `StreamsAreReachable` | two handlers, attaching at once or not, and three streams |
| `edges`: client | `LiveIsSubscribed` | a reader, a writer and the pinger, two faults, three connections, a hook within a hook |
| `live`: stop | `TypeOK`, `SurvivorAboveFloor`, `ProtectedFloor`, `FallTightens`, `ImplementsContract` | returns from below the rail to above the target, any pace of 0 to 3 |
| `live`: locks | `RepricingEnds` | one Level3 socket, two trade goroutines, two lots, under fairness |
| `live`: pump | `ReconnectFreesPump` | under fairness: a browser that stops reading blocks the pump until it is replaced |
| `live`: client | `StreamComesBack` | a reader and the pinger, three faults, under fairness |
| `reprice_two` | `RepricingEnds` (violated) | two Level3 sockets; see finding 2 |
| `hub_active` | `AttachedIsActive` (violated) | two dashboards, one attaching at a time; see finding 3 |
| `hub_feed` | `FeedAgrees` (`RouteFollowsPage` and `StatusFollowsSocket`), `FeedRecovers` (`Reconnects` and `ListingsReturn`) | messages in flight on every leg, two drops or hub restarts, a page that unmounts and mounts again, under fairness |
| `edges`: view | `SettledStays` (`ClosedStaysClosed` and `SamplingKeepsSettled`), `ReportIsSound` (`ReportIsCurrent`, `LivesBounded`, `WindowRunsForward`, `HistoryIsNewest`, `CountedOnce`) | live rows, listings with stale stamps, timers and the ledger switch in any order |
| `panels` | the properties of the table below | each part of the dashboard alone, from its first state |

Each property of `panels` is the conjunction of named parts, about the components in its row:

| Property | Parts | Shows |
|---|---|---|
| `ReadingsAreTrue`: `FramesAreReadWhole` (`rows`, `values`, `reading`) | `NewestKept`, `PartialFramesCommute`, `ReadIsCurrent`, `MetricsAgree`, `SampleCanBeTraced` | every leaf shows the newest rows in order through wraps and replaced tails; partial frames of a tick may be merged in any order; a kept reading is that of the layers now; both ways to a number agree; a sample fades in finite time |
| `ChartsAreCurrent` (`impulse`, `scene`, `choice`) | `MapShowsOneGrid`, `SceneIsCurrent`, `GridIsPlaced`, `ForcesAreStopped`, `SingleIsRestored`, `TrailsAligned` | overtaken and paused rounds end on one symbol's grid; the drawing is of the present nodes and size; no simulation outlives its view; after any toggling the single chart is whole; lots share one x axis |
| `ReadingsAreTrue`: `TracesAreSound` (`resonance`, `hawkes`, `series`) | `CarrierHasLayers`, `TraceFillsViewport`, `TracesAligned` | a carrier is found in either spelling; traces fill the viewport and stay aligned |
| `LotReadsTrue` (`lot`, `stop`) | `CardsFollowLives`, `NormalizedTwice`, `FloorIsAlarming`, `HealthFollowsMark` | card and life agree; a breached floor is alarming; the gauge follows the mark |
| `PathsAreWhole`: `BookIsOrderFree` (`paths`, `regions`) | `ShownIsKept`, `FramesCommute`, `RingCarries` | five ingests in any order hold no path that is pruned; lit regions stay lit |
| `PathsAreWhole`: `TreeIsWhole` (`tree`) | `TreeHoldsKeys`, `EmptyOnlyByAction`, `LitReachesRoot` | the tree is exactly the shown keys; what is bright hangs on the root |
| `ReportTellsOneStory` (`trend`, `exits`, `churn`) | `VerdictIsHonest`, `TileAgreesWithVerdict`, `PanelsAgreeWithVerdict`, `MixMatchesRail`, `BucketAgreesWithTone`, `AlarmIsCounted`, `ChurnAddsUp`, `LinesStopAtGaps`, `DotIsHeadline`, `BaselineInPlate` | badge, tile, headline, chart, mix and alarms agree; churn explains the change of keys |
| `WarehouseAnswers` (`grid`, `memo`, `bench`) | `SliceIsAsked`, `OneFetch`, `NoCallStranded`, `FailureNotKept`, `AskedOnce`, `ConnectingIsUnderWay`, `RetryBoots` | shared, failing and dropped requests give every caller its rows or an error; failures are not kept |
| `ReadingsAreTrue`: `ReadoutsAgree` (`binding`, `inspect`) | `ReadingsAreOfSymbol`, `SparkAgreesWithText`, `ModalShowsReading`, `SparkKeepsOrder` | no reading of another symbol is shown; sparkline, text and badge agree |
| `ShellIsTrue` (`palette`, `lab`, `board`) | `PushedIsTold`, `BooksDoNotMix`, `HighlightWalks` | the engine has the pushed draft; books do not mix; the highlight walks around both ends |
| `NothingShownIsLost` (steps of `values`, `resonance`, `regions`, `lot`, `trips`) | `LitNeverDark`, `RetainedNeverLoses`, `LanesNeverBlank`, `RefusedKept`, `ReplayedFillIgnored`, `ChosenStaysShown` | a sparse, repeated or late frame takes nothing away |

### Findings

Each is a sentence of the repository that the code does not keep; the run of that
name is TLC's counterexample.

1. `lots_sold`: "Hit the active floor; exit." (`broker/stoploss.go:19`). A triggered
   stop closes the lot in memory; no caller sends its exit order.
2. `reprice_two`: "Reprice open positions whose book just changed so the stoploss sees the
   new exit VWAP and depth without waiting for a trade." (`cmd/booter.go:494`).
   `Desk.Refresh` reprices inside the books' read lock and pricing takes it again; a
   frame on another Level3 socket that asks for the lock in between stops both, and with
   them every repricing of the process.
3. `hub_active`: "Active reports whether a dashboard is attached." (`ui/hub.go:313`). A
   teardown clears `conn` and then `connected`; an attach in between is taken for none,
   and when the five seconds of grace are over the dashboard gets nothing more.

Other disagreements are visible in the exceptions of properties that hold:

- `IncreasingUnlessRewound`: nonces are "strictly increasing" (`kraken/nonce.go:24`)
  except after a crash with a lagging file and a clock set back. The file itself may
  fall, since a goroutine writes the nonce it took and not the mark;
  `MarkCoversDisk` is what remains true.
- `LostIsHidden`: a socket lost before its hooks are registered (`early`) marks
  nothing stale, and a snapshot in the reader's hand when the socket is lost is
  applied after the marking (`late`).
- `StreamsReturn`: after `early` nothing resubscribes; after `cut`, a recovery that
  unsubscribed and was refused to subscribe, no delta arrives to trigger the retry.
- `TradingAfterSeeding` is about having been seeded: READY ignores invalid books and
  is never withdrawn, so trades may start while a book is invalid or stale again.
- `ReadableIsVerified` assumes that no value is malformed: one that does not fit its pair
  ends `apply` in the middle of an entry without invalidating the book
  (`broker/book.go:149`, "must not observe a half-applied frame").
- `ResistanceKept` excepts `raced`: two tasks may both find a path missing, and the second
  seed wipes what the first has learned (`strategy/tree.go:217`).
- `PendingIsSettled` says no more than that: `flushSettled` clears a symbol in all tiers
  after it recorded one lot's exit path (`strategy/model.go:477`), so other tiers' lots leave
  the queue with none.
- `ProtectedFloor` is about the update that protects: a later up-move below the target
  widens the floor below zero again (`broker/stoploss.go:36` says it never does).
- `LiveLotsTracked`: `Remove` and `Drop` go by symbol, so in a slot whose Write
  failed once a delayed settle may take the next lot out of the open map.
- `OpenSocketIsFed` assumes one attach at a time: of two, the one whose connection is
  overwritten stays open and is sent nothing (`ui/hub.go:156`), although "the browser's own
  connection lifetime — not the server's — decides when frames stop" (`ui/hub.go:128`).
- A frame of the previous dashboard may reach the next one: a publisher past its check of
  `active`, or the pump with a frame in hand, passes the drain (`ui/hub.go:141`,
  "Pause delivery so the drain below cannot forward leftovers").
- `LiveIsSubscribed` does not say that consumers hear of every drop: the dial of a second
  caller closes the live connection of the first without the hook that is "invoked when
  a live connection drops" (`network/websocket.go:70`, `network/websocket.go:138`).
- `PushedIsTold` leaves out Apply rez, whose handler is given the click event for its draft
  (`components/dashboard/gate-lab.tsx:202`, below `frontend/src/`), so that the engine is told nothing.

The dashboard's, from the code as modelled; paths are below `frontend/src/`:

- Feed: a focus chosen while the socket is not open is dropped and never sent again
  (`providers/ws-worker.ts:48`), so only the route follows the page. The hub's queue drops
  its oldest frames (`ui/hub.go:217`), and after a reconnect the path book keeps keys
  the engine has since pruned.
- Desk view: a row that left the desk between two connects stays open (the comment at
  `lib/lifecycle.ts:338` says it is removed); the marks of a hold chart are lost when the lot
  closes; the open count is not taken again when the book is switched; a stored
  stamp is remembered before its row parses, so a row that fails hides its repetition;
  the chart is seeded from the first listing only. `CountedOnce` is about a row being there:
  a settled lot whose stale open row is still in the positions store is listed as that
  open row, and so not among the settled ones.
- Panels that paint: pausing the Impulse Map empties it
  (`components/learning/use-impulse-data.ts:158`); its half-second timeout is never cancelled
  and may stop a later simulation early; the lanes keep the artifact of the last focus until
  the new one has a signal; an element mounted after the first lookup is never bound; the
  inspector's history is not reset on a change of source or symbol.
- Path book: a path whose resistance rises above the limit stays until the tree is opened
  again; tree nodes are numbered in build order, so a collapse moves to another node
  when the book grows.
- Longtail and lots: exits on today's stop reasons are counted as "other"; a sold lot whose
  sells carry no date is closed without a closing time; the health score falls
  from 93 to 85 when the return crosses one percent, which is why `HealthFollowsMark` compares
  scores within a status; `normalizeStoploss` ignores `has_floor`.
- Workbench: past the end of a table one call makes four buffered requests and a
  direct one (the comment at `warehouse-handler.ts:271` says at most one); an answer that
  arrives after `viewDelete` brings the buffer back; a late failure of a dropped question
  deletes its successor; the screen for no tables never asks again.
- Shell: Reset restores drafts without sending them; the candidates are not recounted when
  the book changes; the palette knows the default symbol only.

### Bounds, and why they are enough

- `Lots`: one symbol in three tiers, because tiers share a lot's symbol while
  symbols share nothing but the flush (which visits them one by one); two lots per
  slot, the smallest number at which a delayed settle meets a successor. Returns are
  a loss, or a loss and a gain. `MaxOpened` cuts the number of lots over all slots.
  `lots_gate` leaves out the repricing goroutines: with the two feeds and the model
  the race of two recounts is already there.
- `Stoploss`: a loss limit of 3 and returns from -5 to 5 cover both sides of the
  rail, of zero and of the target.
- `Books`: two symbols, on one socket and on two; two faults, so that a fault hits the
  recovery from another; `ResubEvery` is 2 for 100, so that retries happen.
- `AuthNonce`: two signers, clock and nonces up to 4, two crashes: enough for a write
  that is overtaken, a crash, a step back and a restart in one behaviour.
- `PolicyTree`: two tasks, three settled lots, one restart; tasks are interchangeable
  (symmetry), paths are not.

- `Hub`: two dashboards, so that each race of an attach with a teardown or another attach
  happens once; a queue of one and three frames, so that it is full, evicted from and
  refilled by another writer; three streams, so that one ends after its successor started.
- `Socket`: two callers and three connections: one is lost, one replaced, one overwritten;
  two faults, so that a redial meets a fault of its own. The liveness part of `live` has room for
  more dials and nested hooks than three faults can cause.
- `RepriceLocks`: one writer and two, which is the difference that matters.
- `HubFeed`: two symbols and two surfaces, one click, two drops, two mounts: a drop meets a
  reconnect, and a click meets either, with the old worker's messages still in flight.
- `DeskView`: two lots in two ledgers, one life per bound and one clock period: each eviction
  has a survivor and a victim, each listing a newer and an older stamp.
- `MCPanels`: per part two or three of everything that is compared (rows, symbols, lots, keys,
  requests, samples), buffers and rings of two rows so that they wrap, three toggles of the
  layout so that one interrupts the fade of another, four requests so that a shared one
  fails and is asked again. `MCSamples`, `MCDeskRows` and `MCReturns` hold values on both sides of each
  threshold of the code. No symmetry: the orders of symbols and keys matter.

Deadlock checking is off where the bounds (faults, exits, nonces) or a final state
(a triggered stop, a failed boot, a panel whose inputs are used up) let the system stop; the `Lots` runs check it.

`Edges`, `MCLive` and `MCPanels` put parts that share no state into one run: the part is a
variable fixed at the start, and the other parts' variables stay as they begin. The state
space is the sum of the parts' spaces, not the product. `MCLive` states each part's fairness
for the steps of that part only, since a part that does not run must not be obliged to.

### Fairness

- `lots_sold`: weak fairness of the settle callback only; it waits for no lock. The
  counterexample does not depend on anything else stopping.
- `books_streams`: goroutines keep running (weak fairness of each), a dial succeeds in
  the end (`Redial`; the code retries with backoff for ever), and the venue answers a
  subscription and keeps sending deltas (strong fairness of `ReadSnapshot` and
  `ReadUpdate`: the reader serves the symbols of its socket in the order frames
  come, so a symbol's frame is interrupted by others but reached in the end).
  Faults, refusals and drops are bounded by `MaxFaults` and get no fairness.

- `live`, pump: handlers, writers and the pump keep running (weak fairness of each);
  browsers, commands and faults get none.
- `live`, client: the ingress calls `Read` again after every answer, the pinger ticks, waits
  end (they are capped at 30 s) and keepalive reports a dead peer; faults get none.
- `live`, locks, and `reprice_two`: a goroutine that waits for a lock which is free again and
  again gets it (strong fairness; Go's mutexes have a starvation mode); frames and trades get
  none.
- `hub_feed`: event loops run what is queued, a timer that was set fires, a dial ends and the
  hub reads its socket (weak fairness of each), and the page is mounted. Clicks, drops,
  restarts and unmounts get none.
- `edges` and `panels` state safety only and assume no fairness; what `hub_active` violates is
  safety too.

## 4. Proofs

TLAPS proves for every value of the constants what the runs show on an instance.
Each proof module states an inductive invariant (`IInv`, or one for each part), one lemma that
every action keeps it (for `Lots` one per conjunct), `Invariance`, and the listed
properties as corollaries. Assumptions are those named in the modules: types of
constants, `Under` is reflexive, `Markers` and `Routes` are the code's, `NoLot` is no
lot, `NoSocket` no dashboard.

| Theorem | States | Needs, beyond the property |
|---|---|---|
| `LotsProofs!SettlementIsOnce`, `PendingSettled` | `SettlesOnce`, `PendingIsSettled` | whatever is referred to was opened (`Refs`); past `Remove` the lot is out of the open map (`Removed`): a lot once taken out cannot come back, since only fresh lots are added |
| `LotsProofs!LotsAreTracked` | `LiveLotsTracked` | one open lot per slot; in a slot never dropped, a live lot, or one about to be removed, is the open one (`Tracked`) |
| `LotsProofs!RealGated` | `RealFollowsPaperProfit` | every majority, in a goroutine's hand, in the tier or in the flag, goes back to a paper lot seen closed at a profit (`Profit`) |
| `LotsProofs!StopsNeedFills` | `StopNeedsVenueFill` | every return has a fill, every fill an execution of the symbol (`Fills`) |
| `StoplossProofs!*` | the four stop properties | inductive together; of `breathe` only the direction is used |
| `StoplossProofs!Refinement` | `ImplementsContract` | the invariant, and that `Next` feeds returns only |
| `BooksProofs!ReadersSeeVerifiedBooks` | `ReadableIsVerified`, assuming no value is malformed | a bad book is invalid; a half-applied one needs `Malformed`; deltas follow snapshots |
| `BooksProofs!FirehoseAfterSeeding` | `TradingAfterSeeding` | what is not pending, or accepted and about to leave, was seeded (`Seeding`) |
| `BooksProofs!LostBooksHidden` | `LostIsHidden` | the same for symbols still pending (`Hidden`), and that nothing comes for unsubscribed symbols (`Written`) |
| `EdgeProofs!NoncesIncrease`, `MarkAboveFile` | the two nonce properties | a nonce in hand is above the mark it was computed from and, once taken, covered by the mark (`Held`); the mark covers all nonces (`Covered`) |
| `PolicyTreeProofs!ResistanceIsKept`, `StoreIsLive` | the two tree properties | a task about to seed a leaf that is there is in a known race (`RaceKnown`) |
| `EdgeProofs!LiveSubscribed` | `LiveIsSubscribed` | a goroutine is inside of hooks only while it redials (`NestIsRedial`); the connection of the moment that lacks the frame is in the hands of a goroutine that will write it or close the connection (`Attended`) |
| `EdgeProofs!Reachable` | `StreamsAreReachable` | a stream's own deregistration compares identities, so a successor stays in the map |
| `EdgeProofs!Feeds` | `OpenSocketIsFed`: in the part where dashboards attach one at a time, assuming that `NoSocket` is none of them (`EdgesAssumption`) | where each handler is between its swap and its teardown, and whose connection is stored then |
| `EdgeProofs!ReportSound` | `ReportIsSound`, given the types of the dashboard's limits (`ViewAssumption`) | `ViewInv`: below |
| `EdgeProofs!SettledStay` | `SettledStays` | the same, and that a desk row is closed only when the desk's lot is, so a closed life is never met by an open row |
| `HubFeedProofs!Agreement` | `FeedAgrees` | the status frames and posted commands still on their way, in order: the last one of each is what its receiver will believe |
| `PanelsProofs!Answers` | `WarehouseAnswers` | requests, waiters and remembered calls refer to each other (`GridInv`, `MemoInv`, `BenchInv`) |
| `PanelsProofs!ChartsRestCurrent` | `ChartsAreCurrent` | a callback of the present round has the rows of the store and the last symbol still before it (`RoundsOK`); a lot whose series left the parent has a sub-chart or a fade that will bring them back (`Covered`); a band is the end of its line (`EndsWith`); the scene is settled after each commit's effects (`SceneInv`) |
| `PanelsProofs!LotsReadTrue` | `LotReadsTrue`, given the types of what a lot carries (`LotAssumption`) | a stop on the page is a normalised one (`LotInv`): normalising it again finds every field in place; the gauge is monotone over each quotient of it |
| `PanelsProofs!NothingLost` | `NothingShownIsLost` | a retained row has only numbers that were read (`RetainedInv`); a sentence's refusals are of its own tick (`RegionInv`); no two executions read have one id (`FillsInv`) |
| `PanelsProofs!ShellTrue` | `ShellIsTrue`, given the types of entries, drafts and decisions (`ShellAssumption`) | what the engine has is the last draft pushed (`LabInv`); the highlight is a place of the list that is found (`PaletteInv`); every card rests under its own book and symbol (`BoardInv`) |
| `PanelsProofs!PathsWhole` | `PathsAreWhole`, given that keys are typed and a ring has room (`TreeAssumption`, `PathAssumption`) | a threshold that stays in the book is never above the prune level, held key or not (`BookOK`); every ring is a typed, lit sequence (`RingsInv`); after each key planted the tree has exactly the nodes of the keys so far, one for each path and action (`TreeOK`, `NodesTo`) |
| `PanelsProofs!ReadingsTrue` | `ReadingsAreTrue`, given what a frame is (`ReadingAssumption`, `BindingAssumption`, `InspectorAssumption`, `ValueAssumption`) | a leaf's positions, counted from its start, are the last rows of its history (`RingFits`, `StoreInv`); readings that are kept were made of a prefix of the layers of that length (`ReadingInv`); a lookup that was answered with an element is of an element that is there, and a spark's headline is the last of its window (`BindInv`); an inspected history ends on the reading it depends on (`InspectInv`) |

`EdgeProofs` is about `EdgesSpec` with every constant left open: `EdgesStep` splits a step into
one of each part, so that every part's invariant is proved for that part's own `Next`.
`PanelsProofs` does the same for the panels (`PartsStep`).

A set of places has a first and a last one (`LeastPlace`, `LastExists`), although induction
over data is out of reach: `NatLessThanWellFounded` with `WFMin` speaks of sets, not of
operators. `OrderProofs` carries that further. For every length, a filtered sequence has exactly the
chosen elements, each once and no more of them than there were (`OnlyOf`, `OnlyAll`,
`OnlyCounts`), sorted places are all the places in the order of their keys (`PlacesSorted`), and
a fold whose steps all keep a predicate ends in it (`FoldStays`; `Folds` names the function
that the library's fold chooses, `FoldExists` gives it). With a set for each length in place of
one predicate (`UpTo`) it even says what a fold has made after each element: the nodes of the path
tree are those of the keys planted so far (`GrownHolds`, `TreeBuilt`). `DeskView`, `LotViews`,
`PathTree`, `Shell`, `Readings` and `Xray` filter and sort with `Orders` for that reason: `SelectSeq` and `SortSeq`
give a prover nothing to use. Two facts of the code came out as assumptions or cases on the way:
a key with no region token has no leaf in the tree (`radix-tree-viz.tsx:128`), and the tree's
keys are all of one shape, without which two of them could not be told to be equal.

What the assumptions of `ReadingsTrue` say is what the code is built on. `ReadingAssumption`: a
layer's key has a segment; a scalar has just one (a scalar under several, whose metric would go by
the whole suffix, `value.ts:167`, is left out); and the numbers of a Hawkes frame, rates and
amplitudes, are not negative: with a negative level, `level * 0.85` (`xray-hawkes.tsx:74`) would
rest above it.
`BindingAssumption`: the model values for no frame, no element and no reading are none of the
real ones, and the series window (`SERIES_WINDOW`) is not empty. `InspectorAssumption`: there
is a symbol to inspect and a reading is a name with a number. `ValueAssumption`: no value is the
absence of one. A ring of no positions is not excluded: there, nothing is kept.

A binding keeps the answer of a lookup that found nothing. The proof shows what that can cost: a
headline that is not yet on the page at the first frame is never written for that component,
and `ReadoutsAgree` speaks of the elements that were found.

The invariant of the desk view (`ViewInv`) needs more than the property says. A position is
kept under its own id and is closed only if the desk's lot is closed or gone (`PositionsOK`):
otherwise a late row could open a settled life again. The store holds one life per lot, and what
a life may look like depends on where it comes from (`LifeOK`): a restored one is closed, carries
no marks and has the return of the newest stamp seen for it; one of the session has a position,
a closed position if it is closed itself. Each class is within its limit or holds no closed life
that could be evicted (`Within`), and a lot with a stamp has a closed life (`Stamped`), so that a
stale listing finds the life it has to lose against. An ingest of many rows is a fold, and every
row in between keeps all of it (`StoreOK`). No sample of the window is newer than the clock
(`Forward`), so the sample recorded next keeps it in order.

Only model-checked: liveness (`StreamsReturn`, `FeedRecovers`, `ReconnectFreesPump`,
`StreamComesBack`, `RepricingEnds`), which needs fairness and is out of the prover's reach; the
violated properties; and of the dashboard `ReportTellsOneStory`, whose ten parts compare sums,
quotients, minima and sorted samples of a whole window.

## 5. Not modelled

Pricing and sizing, the paper and live transports, balances, the token cache, the
tokenizer, signals and resonance, the hub's other commands and listings, and the offline tools;
`PROJECT.json` gives the reason for each. Of the dashboard: decoding of gob layers, canvas and
SciChart drawing, layout, colours and wording, the force layout's coordinates, generated
routes, and code that no other code calls. Code of the libraries `nomagique`, `hindsight` and
`parallel`, of React, d3, SciChart and the browser is not in the repository: the worker pool, the
object store, status transitions, effects, animation frames and timers are modelled from
how this code uses them.

Hazards of this code that are known and have no property yet, beside those `PROJECT.json` lists:

- a rejected `add_order` is only logged, and its slot is never free again (`cmd/booter.go:414`);
- a tier whose closed lots all returned zero reads like one that never traded (`broker/tier.go:181`);
- lots restored after a restart have no settle callback (`broker/cache.go:66`);
- signed requests may reach the venue in the opposite order of their nonces (`kraken/auth.go:88`), and
  the token cache has no lock (`kraken/auth.go:235`);
- in a frame of several entries an error leaves accepted snapshots pending (`broker/book.go:345`);
- two goroutines may close the pinger's stop channel, `Start` holding no lock (`network/pinger.go:25`);
- the watch of an open paper order ends after two minutes, and a later fill is never published
  (`broker/paper.go:761`);
- an order leaves `OpenOrders` before its trade is in `TradesHistory` (`broker/paper.go:767`);
- tasks of a step size their orders from the same cash (`broker/price.go:492`);
- a full hub queue may drop the new frame too (`ui/hub.go:225`; `GiveUp` of `Hub`).

## 6. Plan

In this order, the most important behaviour first:

1. done: `Lots`, `Stoploss` with `StopContract`, `AuthNonce`, `Books`, `PolicyTree`, each
   with its proofs.
2. done: the dashboard, from the feed to the panels; `Hub`, `Socket` and `RepriceLocks`.
3. done: proofs about `Socket`, `Hub`, `HubFeed`, the workbench and the painting panels.
   Then the desk view's `ReportIsSound` and `SettledStays`.
   Then `LotReadsTrue`, `NothingShownIsLost`, `ShellIsTrue` and `PathsAreWhole`.
   Then `ReadingsAreTrue`. Left: `ReportTellsOneStory`.
4. `Paper`: one command at a time, a watcher per order, the two-command poll, the
   deadline, the blocking queue; abstract specification "every fill is published
   once". Composed with `Lots`: an order that is rejected or times out.
5. That `Socket` with one caller implements the one-dialer socket `Books` assumes; `Hub`
   composed with `HubFeed`.
6. `Sequitur` as a sequential module against a reference; `Price` sizing as operators.
7. That `Lots` with `Stoploss` in place of its contract keeps every lot above the rail.

## 7. Running

`tlc -config Lots_tiers.cfg MCLots` runs one configuration, `tlapm LotsProofs.tla` checks
one module's proofs.
