------------------------------- MODULE HubFeed -------------------------------
(***************************************************************************)
(* The dashboard's feed: the page (providers/websocket.tsx and the two     *)
(* request guards of lib/lifecycle.ts and collections/longtail.ts), the    *)
(* web worker that owns the socket (providers/ws-worker.ts), the channel   *)
(* of messages between them in each direction, and the hub at the other    *)
(* end of the socket, which is external and modelled by what the page      *)
(* sends it.  The connection may drop, or the hub restart, MaxDrops times. *)
(* The page's own clicks are bounded by MaxPicks and the times the feed is *)
(* mounted by MaxMounts.                                                   *)
(***************************************************************************)
EXTENDS Naturals, Sequences, FiniteSets

CONSTANTS
  Symbols,       \* what the page may focus on
  DefaultFocus,  \* DEFAULT_FOCUS_SYMBOL of the page, and the hub's own
  Routes,        \* the page's surfaces
  DefaultRoute,  \* the page's first surface, and the hub's own
  MaxDrops, MaxPicks, MaxMounts

ASSUME FeedAssumption ==
  /\ DefaultFocus \in Symbols
  /\ DefaultRoute \in Routes
  /\ MaxDrops \in Nat /\ MaxPicks \in Nat /\ MaxMounts \in Nat

VARIABLES
  page,      \* the atoms the feed sets, and the one-shot request guards
  worker,    \* the module variables of the worker
  toWorker, toPage,   \* postMessage, first in first out in each direction
  up, down,  \* what is on the socket, towards the hub and back
  hub,       \* the focus and route the hub publishes for
  drops, picks, mounts

vars == <<page, worker, toWorker, toPage, up, down, hub, drops, picks, mounts>>

ClosedHistory == <<"paper/closed", "virtual/closed", "real/closed">>
Paths == "model/paths"
Prefixes == {ClosedHistory[i] : i \in 1..3} \cup {Paths}

\* The delay of scheduleReconnect, min(500 * 2^n, 10000), stops growing here.
MaxAttempts == 5

Msg(kind, val) == [kind |-> kind, val |-> val]

Commands(s) == [i \in 1..Len(s) |-> Msg("s3", s[i])]

NoWorker == [alive |-> FALSE, sock |-> "none", timer |-> FALSE,
             armed |-> FALSE, attempts |-> 0, route |-> DefaultRoute,
             pending |-> <<>>]
FreshWorker == [NoWorker EXCEPT !.alive = TRUE]

Init ==
  /\ page = [focus |-> DefaultFocus, route |-> DefaultRoute,
             online |-> "OFFLINE", bound |-> FALSE, recorder |-> FALSE,
             closedAsked |-> FALSE, sourcesAsked |-> FALSE,
             sourcesReady |-> FALSE, listed |-> {}]
  /\ worker = NoWorker
  /\ toWorker = <<>> /\ toPage = <<>> /\ up = <<>> /\ down = <<>>
  /\ hub = [focus |-> DefaultFocus, route |-> DefaultRoute]
  /\ drops = 0 /\ picks = 0 /\ mounts = 0

-----------------------------------------------------------------------------
(* The page. *)

\* trySendCommand: without a worker the command is dropped, and the caller
\* of either guard below does not look at the answer.
trySendCommand(p, s) == IF p.bound THEN Commands(s) ELSE <<>>

requestClosedPositionHistory(p) ==
  [page |-> [p EXCEPT !.closedAsked = TRUE],
   sent |-> IF p.closedAsked THEN <<>> ELSE trySendCommand(p, ClosedHistory)]

requestLongtailSources(p) ==
  LET closed == requestClosedPositionHistory(p)
  IN  IF p.sourcesAsked
      THEN [page |-> p, sent |-> <<>>]
      ELSE [page |-> [closed.page EXCEPT !.sourcesAsked = TRUE,
                                         !.sourcesReady = TRUE],
            sent |-> closed.sent \o trySendCommand(p, <<Paths>>)]

resetRequests(p) ==
  [p EXCEPT !.closedAsked = FALSE, !.sourcesAsked = FALSE,
            !.sourcesReady = FALSE]

\* The effect of WsFeed.  The first mount starts the recorder, whose request
\* runs before the worker is bound and is therefore lost with its guard set.
Mount ==
  /\ ~page.bound
  /\ mounts < MaxMounts
  /\ mounts' = mounts + 1
  /\ LET p == IF page.recorder THEN page
              ELSE requestLongtailSources([page EXCEPT !.recorder = TRUE]).page
     IN  page' = [p EXCEPT !.bound = TRUE]
  /\ worker' = FreshWorker
  /\ toWorker' = <<Msg("ROUTE", page.route), Msg("CONNECT", "url")>>
  /\ UNCHANGED <<toPage, up, down, hub, drops, picks>>

\* The effect's cleanup: DISCONNECT, then the worker is terminated with
\* whatever either side had not read, and its socket with it.
Unmount ==
  /\ page.bound
  /\ mounts < MaxMounts
  /\ page' = [page EXCEPT !.bound = FALSE]
  /\ worker' = NoWorker
  /\ toWorker' = <<>> /\ toPage' = <<>> /\ up' = <<>> /\ down' = <<>>
  /\ UNCHANGED <<hub, drops, picks, mounts>>

Pick ==
  /\ picks < MaxPicks
  /\ picks' = picks + 1
  /\ UNCHANGED <<worker, toPage, up, down, hub, drops, mounts>>

PostIfBound(msgs) == toWorker' = IF page.bound THEN toWorker \o msgs ELSE toWorker

PickFocus(s) ==
  /\ s # page.focus
  /\ Pick
  /\ page' = [page EXCEPT !.focus = s]
  /\ PostIfBound(<<Msg("FOCUS", s)>>)

\* Navigation posts the route twice: the atom's subscriber and the root's
\* own sendRoute.
PickRoute(r) ==
  /\ r # page.route
  /\ Pick
  /\ page' = [page EXCEPT !.route = r]
  /\ PostIfBound(<<Msg("ROUTE", r), Msg("ROUTE", r)>>)

\* Opening the Position Life-Cycle tab asks for the closed lots once.
OpenLifecycles ==
  LET asked == requestClosedPositionHistory(page)
  IN  /\ Pick
      /\ page' = asked.page
      /\ toWorker' = toWorker \o asked.sent

\* Opening the cognitive tree asks for the paths every time.
OpenTree ==
  /\ Pick
  /\ page' = page
  /\ PostIfBound(Commands(<<Paths>>))

\* The worker's messages.  Going online asks for all four prefixes again.
PageReceives ==
  /\ toPage # <<>>
  /\ toPage' = Tail(toPage)
  /\ LET msg == Head(toPage)
         asked == requestLongtailSources(resetRequests(page))
     IN  \/ /\ msg.kind = "STATUS" /\ msg.val = "ONLINE"
            /\ page' = [asked.page EXCEPT !.online = "ONLINE", !.listed = {}]
            /\ toWorker' = toWorker \o asked.sent
         \/ /\ msg.kind = "STATUS" /\ msg.val = "OFFLINE"
            /\ page' = [page EXCEPT !.online = "OFFLINE"]
            /\ UNCHANGED toWorker
         \/ /\ msg.kind = "ENVELOPE"
            /\ page' = [page EXCEPT !.listed = @ \cup {msg.val}]
            /\ UNCHANGED toWorker
  /\ UNCHANGED <<worker, up, down, hub, drops, picks, mounts>>

-----------------------------------------------------------------------------
(* The worker. *)

\* connect: the old socket is torn down and a new one dials.
connect(w) == [w EXCEPT !.sock = "connecting"]

\* What the socket sends when it is open, and drops when it is not.
Send(msgs) == up' = IF worker.sock = "open" THEN up \o msgs ELSE up

WorkerReceives ==
  /\ worker.alive
  /\ toWorker # <<>>
  /\ toWorker' = Tail(toWorker)
  /\ LET msg == Head(toWorker)
     IN  \/ /\ msg.kind = "CONNECT"
            /\ worker' = connect(worker)
            /\ up' = <<>> /\ down' = <<>>
         \/ /\ msg.kind = "ROUTE"
            /\ worker' = [worker EXCEPT !.route = msg.val]
            /\ Send(<<msg>>) /\ UNCHANGED down
         \/ /\ msg.kind = "FOCUS"
            /\ Send(<<msg>>) /\ UNCHANGED <<worker, down>>
         \/ /\ msg.kind = "s3"
            /\ worker' = [worker EXCEPT !.pending = Append(@, msg)]
            /\ Send(<<msg>>) /\ UNCHANGED down
  /\ UNCHANGED <<page, toPage, hub, drops, picks, mounts>>

\* Mutant of Opened: only the commands are flushed.
OpenedWithoutRoute(w) == w.pending

\* The open event: the remembered route and every command ever queued.
Opened(w) == <<Msg("ROUTE", w.route)>> \o w.pending

SocketOpens ==
  /\ worker.sock = "connecting"
  /\ worker' = [worker EXCEPT !.sock = "open", !.attempts = 0]
  /\ toPage' = Append(toPage, Msg("STATUS", "ONLINE"))
  /\ up' = Opened(worker)
  /\ UNCHANGED <<page, toWorker, down, hub, drops, picks, mounts>>

\* scheduleReconnect: nothing to do while reconnectTimer is set.  "timer" is
\* that variable, "armed" the browser's timer behind it.
scheduleReconnect(w) ==
  IF w.timer THEN w ELSE [w EXCEPT !.timer = TRUE, !.armed = TRUE]

ClosedStatus == <<Msg("STATUS", "OFFLINE")>>

\* The close event: the dial failed, the connection broke or the hub died.
SocketCloses(restart) ==
  /\ worker.sock \in {"connecting", "open"}
  /\ drops < MaxDrops
  /\ drops' = drops + 1
  /\ worker' = scheduleReconnect([worker EXCEPT !.sock = "closed"])
  /\ toPage' = toPage \o ClosedStatus
  /\ up' = <<>> /\ down' = <<>>
  /\ hub' = IF restart THEN [focus |-> DefaultFocus, route |-> DefaultRoute]
            ELSE hub
  /\ UNCHANGED <<page, toWorker, picks, mounts>>

\* Mutant of Reconnected: reconnectTimer keeps the id of the fired timer.
ReconnectedOnce(w) == connect([w EXCEPT !.armed = FALSE])

\* The timer's callback clears reconnectTimer before it dials.
Reconnected(w) ==
  connect([w EXCEPT !.timer = FALSE, !.armed = FALSE,
                    !.attempts = IF @ < MaxAttempts THEN @ + 1 ELSE @])

TimerFires ==
  /\ worker.armed
  /\ worker' = Reconnected(worker)
  /\ UNCHANGED <<page, toWorker, toPage, up, down, hub, drops, picks, mounts>>

\* A frame of the hub becomes an ENVELOPE message to the page.
FrameArrives ==
  /\ worker.sock = "open"
  /\ down # <<>>
  /\ down' = Tail(down)
  /\ toPage' = Append(toPage, Msg("ENVELOPE", Head(down)))
  /\ UNCHANGED <<page, worker, toWorker, up, hub, drops, picks, mounts>>

\* The hub (external) obeys a route or a focus and answers an s3 command
\* with its listing, one command after the other.
HubReceives ==
  /\ up # <<>>
  /\ up' = Tail(up)
  /\ LET msg == Head(up)
     IN  /\ hub' = CASE msg.kind = "ROUTE" -> [hub EXCEPT !.route = msg.val]
                     [] msg.kind = "FOCUS" -> [hub EXCEPT !.focus = msg.val]
                     [] OTHER -> hub
         /\ down' = IF msg.kind = "s3" THEN Append(down, msg.val) ELSE down
  /\ UNCHANGED <<page, worker, toWorker, toPage, drops, picks, mounts>>

-----------------------------------------------------------------------------
Next ==
  \/ Mount \/ Unmount
  \/ \E s \in Symbols : PickFocus(s)
  \/ \E r \in Routes : PickRoute(r)
  \/ OpenLifecycles \/ OpenTree
  \/ PageReceives \/ WorkerReceives
  \/ SocketOpens \/ \E restart \in BOOLEAN : SocketCloses(restart)
  \/ TimerFires \/ FrameArrives \/ HubReceives

\* Event loops run what is queued, timers fire, a dial ends and the hub reads
\* its socket; nothing obliges the user to click or the network to break.
Fairness ==
  /\ WF_vars(Mount)
  /\ WF_vars(PageReceives) /\ WF_vars(WorkerReceives)
  /\ WF_vars(SocketOpens) /\ WF_vars(TimerFires)
  /\ WF_vars(FrameArrives) /\ WF_vars(HubReceives)

Spec == Init /\ [][Next]_vars /\ Fairness

-----------------------------------------------------------------------------
(* Properties. *)

Quiet == page.bound /\ worker.sock = "open" /\ toWorker = <<>> /\ up = <<>>

\* Once nothing is in flight the hub publishes for the surface on screen,
\* however often the connection or the hub went away in between: the worker
\* remembers the route and sends it first on every open (sendRoute, connect).
RouteFollowsPage == Quiet => hub.route = page.route

\* The badge tells the truth when the page has read its messages: ONLINE on
\* an open socket, OFFLINE while the worker waits to dial again.
StatusFollowsSocket ==
  (page.bound /\ toPage = <<>>) =>
    /\ worker.sock = "open" => page.online = "ONLINE"
    /\ worker.sock = "closed" => page.online = "OFFLINE"

\* Page, worker and hub agree at rest: what the hub publishes for is on
\* screen, and the badge is the socket's (sendRoute, connect, STATUS messages).
FeedAgrees == RouteFollowsPage /\ StatusFollowsSocket

\* A mounted feed always gets back to an open socket once the faults stop:
\* close arms one timer, and the timer is cleared before it dials so the
\* next close can arm it again (scheduleReconnect).
Reconnects == []<>(worker.sock = "open" \/ ~page.bound)

\* Every time the page goes online it is eventually sent the listing of all
\* four prefixes, although the one-shot guards were already spent before the
\* worker existed (ensureLongtailRecorder runs before bindHubWorker).
ListingsReturn ==
  (page.bound /\ page.online = "ONLINE") ~>
    (page.listed = Prefixes \/ page.online = "OFFLINE" \/ ~page.bound)

\* The feed recovers from whatever broke it, once faults stop: the socket is
\* dialled again (scheduleReconnect) and the page is sent its listings again
\* (resetRequests and the two request guards).
FeedRecovers == Reconnects /\ ListingsReturn
=============================================================================
