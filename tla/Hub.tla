-------------------------------- MODULE Hub --------------------------------
(***************************************************************************)
(* The dashboard hub (ui/hub.go): one attached dashboard at a time, a      *)
(* bounded queue of frames with one pump, and the streams a dashboard      *)
(* command starts.  Every websocket has a handler goroutine of its own     *)
(* (wsHandler).  Each access to the atomics conn, connected and            *)
(* connectedSince, each channel operation and each critical section of     *)
(* streamMu is a step; the drain is one step, because what is queued while *)
(* it runs may as well be queued after it.                                 *)
(***************************************************************************)
EXTENDS Naturals, FiniteSets

CONSTANTS
  Sockets,       \* dashboards that connect, each once
  Publishers,    \* goroutines that write frames: ticks, tiers, streams
  None,
  QueueFrames,   \* capacity of frameCh
  MaxFrames,     \* bound on the frames written
  MaxStreams,    \* bound on the streams started
  Together       \* whether two sockets may be accepted at once

VARIABLES
  sock,       \* a websocket: not accepted, open, or closed by either end
  deaf,       \* open websockets whose browser has stopped reading
  pc, old,    \* where each handler is, and the connection it swapped out
  conn, connected,
  since,      \* connectedSince: 0, within the grace window, or older
  queue,      \* the number of frames in frameCh
  write,      \* where each goroutine is in Write
  pump,       \* the pump goroutine and the connection it writes to
  stream,     \* the streams, hub.streams and hub.streamGen of kind "s3"
  frames      \* frames written so far

vars == <<sock, deaf, pc, old, conn, connected, since, queue, write, pump,
          stream, frames>>

connVars == <<conn, connected, since>>
sockVars == <<sock, deaf>>
queueVars == <<queue, write, frames>>

Writers == Sockets \cup Publishers
Streams == 1..MaxStreams

PumpIdle == [at |-> "idle", conn |-> None]

Init ==
  /\ sock = [s \in Sockets |-> "none"] /\ deaf = {}
  /\ pc = [s \in Sockets |-> "off"] /\ old = [s \in Sockets |-> None]
  /\ conn = None /\ connected = FALSE /\ since = "zero"
  /\ queue = 0 /\ write = [w \in Writers |-> "idle"] /\ frames = 0
  /\ pump = [PumpIdle EXCEPT !.at = "off"]
  /\ stream = [state |-> [n \in Streams |-> "none"], next |-> 0, reg |-> 0,
               gen |-> 0, held |-> [s \in Sockets |-> 0]]

-----------------------------------------------------------------------------
(* The handler of a socket: attach. *)

Attaching == {"pause", "swap", "close", "drain", "store", "announce"}

Goto(s, from, to) == pc[s] = from /\ pc' = [pc EXCEPT ![s] = to]

Accept(s) ==
  /\ Together \/ \A t \in Sockets : pc[t] \notin Attaching
  /\ Goto(s, "off", "pause")
  /\ sock' = [sock EXCEPT ![s] = "open"]
  /\ UNCHANGED <<deaf, old, connVars, queueVars, pump, stream>>

Pause(s) ==
  /\ Goto(s, "pause", "swap")
  /\ connected' = FALSE /\ since' = "zero"
  /\ UNCHANGED <<sockVars, old, conn, queueVars, pump, stream>>

SwapOut(s) ==
  /\ Goto(s, "swap", "close")
  /\ old' = [old EXCEPT ![s] = conn]
  /\ conn' = None
  /\ UNCHANGED <<sockVars, connected, since, queueVars, pump, stream>>

Closed(c) == [s \in Sockets |-> IF s = c THEN "closed" ELSE sock[s]]

\* Mutant of Replaced: the socket that was swapped out is left open.
ReplacedKept(c) == sock

Replaced(c) == Closed(c)

CloseOld(s) ==
  /\ Goto(s, "close", "drain")
  /\ sock' = Replaced(old[s])
  /\ old' = [old EXCEPT ![s] = None]
  /\ UNCHANGED <<deaf, connVars, queueVars, pump, stream>>

drainFrames(s) ==
  /\ Goto(s, "drain", "store")
  /\ queue' = 0
  /\ UNCHANGED <<sockVars, old, connVars, write, frames, pump, stream>>

\* hub.conn.Store, a plain store: a connection that another handler attached
\* since SwapOut is forgotten, not closed.  ensurePump follows.
Attach(s) ==
  /\ Goto(s, "store", "announce")
  /\ conn' = s
  /\ pump' = IF pump.at = "off" THEN PumpIdle ELSE pump
  /\ UNCHANGED <<sockVars, old, connected, since, queueVars, stream>>

Announce(s) ==
  /\ Goto(s, "announce", "hello")
  /\ since' = "fresh" /\ connected' = TRUE
  /\ UNCHANGED <<sockVars, old, conn, queueVars, pump, stream>>

-----------------------------------------------------------------------------
(* Write: look at active(), then enqueue, or evict the oldest and try again. *)

Active == (connected /\ conn # None) \/ since = "fresh"

GraceEnds ==
  /\ since = "fresh"
  /\ since' = "past"
  /\ UNCHANGED <<sockVars, pc, old, conn, connected, queueVars, pump,
                 stream>>

\* A handler writes its Hello and its listings, a publisher any time.
MayWrite(w) == w \in Sockets => pc[w] \in {"hello", "list"}

Produce(w) ==
  /\ write[w] = "idle"
  /\ MayWrite(w)
  /\ Active
  /\ frames < MaxFrames
  /\ frames' = frames + 1
  /\ write' = [write EXCEPT ![w] = "send"]
  /\ UNCHANGED <<sockVars, pc, old, connVars, queue, pump, stream>>

Enqueue(w) ==
  /\ write[w] \in {"send", "again"}
  /\ queue < QueueFrames
  /\ queue' = queue + 1
  /\ write' = [write EXCEPT ![w] = "idle"]
  /\ UNCHANGED <<sockVars, pc, old, connVars, frames, pump, stream>>

FindFull(w) ==
  /\ write[w] = "send"
  /\ queue = QueueFrames
  /\ write' = [write EXCEPT ![w] = "evict"]
  /\ UNCHANGED <<sockVars, pc, old, connVars, queue, frames, pump, stream>>

Evict(w) ==
  /\ write[w] = "evict"
  /\ queue' = IF queue = 0 THEN 0 ELSE queue - 1
  /\ write' = [write EXCEPT ![w] = "again"]
  /\ UNCHANGED <<sockVars, pc, old, connVars, frames, pump, stream>>

\* Another writer took the place: the new frame is lost too.
GiveUp(w) ==
  /\ write[w] = "again"
  /\ queue = QueueFrames
  /\ write' = [write EXCEPT ![w] = "idle"]
  /\ UNCHANGED <<sockVars, pc, old, connVars, queue, frames, pump, stream>>

-----------------------------------------------------------------------------
(* The pump. *)

PumpUnchanged == UNCHANGED <<deaf, pc, old, since, write, frames, stream>>

Take ==
  /\ pump.at = "idle" /\ queue > 0
  /\ pump' = [PumpIdle EXCEPT !.at = "took"]
  /\ queue' = queue - 1
  /\ PumpUnchanged /\ UNCHANGED <<sock, conn, connected>>

\* No connection, or a frame above the size limit: the frame is dropped.
Load ==
  /\ pump.at = "took"
  /\ \/ pump' = PumpIdle
     \/ conn # None /\ pump' = [pump EXCEPT !.at = "write", !.conn = conn]
  /\ PumpUnchanged /\ UNCHANGED <<sock, conn, connected, queue>>

\* WriteMessage has no deadline: it returns when the browser reads ...
Deliver ==
  /\ pump.at = "write"
  /\ sock[pump.conn] = "open" /\ pump.conn \notin deaf
  /\ pump' = PumpIdle
  /\ PumpUnchanged /\ UNCHANGED <<sock, conn, connected, queue>>

\* ... or when the socket is closed.  retireConnection first looks whether
\* the connection is still the attached one.
WriteFails ==
  /\ pump.at = "write"
  /\ sock[pump.conn] = "closed"
  /\ pump' = IF conn = pump.conn THEN [pump EXCEPT !.at = "retire"] ELSE PumpIdle
  /\ PumpUnchanged /\ UNCHANGED <<sock, conn, connected, queue>>

\* Mutant of CompareAndSwap: the connection is cleared whichever it is.
StoreNil(c) == None

CompareAndSwap(c) == IF conn = c THEN None ELSE conn

Retire ==
  /\ pump.at = "retire"
  /\ sock' = Closed(pump.conn)
  /\ conn' = CompareAndSwap(pump.conn)
  /\ pump' = IF conn = pump.conn THEN [pump EXCEPT !.at = "unset"] ELSE PumpIdle
  /\ PumpUnchanged /\ UNCHANGED <<connected, queue>>

PumpUnsets ==
  /\ pump.at = "unset"
  /\ connected' = FALSE
  /\ pump' = PumpIdle
  /\ PumpUnchanged /\ UNCHANGED <<sock, conn, queue>>

-----------------------------------------------------------------------------
(* The handler: callbacks, commands, teardown. *)

HandlerKeeps == UNCHANGED <<deaf, old, since, queueVars, pump>>

\* The callbacks, or the listing of a command, are done.
Resume(s) ==
  /\ pc[s] \in {"hello", "list"} /\ write[s] = "idle"
  /\ pc' = [pc EXCEPT ![s] = "read"]
  /\ HandlerKeeps /\ UNCHANGED <<sock, conn, connected, stream>>

\* An s3 command: cancelStream takes the registered stream out of the map ...
Command(s) ==
  /\ sock[s] = "open"
  /\ stream.next + Cardinality({t \in Sockets : pc[t] \in {"cancel", "start"}})
       < MaxStreams
  /\ Goto(s, "read", "cancel")
  /\ stream' = [stream EXCEPT !.held[s] = stream.reg, !.reg = 0]
  /\ HandlerKeeps /\ UNCHANGED <<sock, conn, connected>>

Cancelled(n) ==
  [m \in Streams |->
     IF m = n /\ stream.state[m] = "live" THEN "cancelled" ELSE stream.state[m]]

\* ... and cancels it after the unlock.  A listing is answered in place.
Cancel(s) ==
  /\ \/ Goto(s, "cancel", "list")
     \/ Goto(s, "cancel", "start")
     \/ Goto(s, "cancelPrev", "read")
  /\ stream' = [stream EXCEPT !.state = Cancelled(stream.held[s]), !.held[s] = 0]
  /\ HandlerKeeps /\ UNCHANGED <<sock, conn, connected>>

\* startStream: the new stream is registered under the lock, and the one it
\* finds there (of another handler) is cancelled after the unlock.
StartStream(s) ==
  LET n == stream.next + 1
  IN  /\ Goto(s, "start", "cancelPrev")
      /\ stream' = [stream EXCEPT !.next = n, !.reg = n, !.gen = n,
                                  !.held[s] = stream.reg, !.state[n] = "live"]
      /\ HandlerKeeps /\ UNCHANGED <<sock, conn, connected>>

\* run returns: the prefix is exhausted or the context cancelled.
StreamReturns(n) ==
  /\ stream.state[n] \in {"live", "cancelled"}
  /\ stream' = [stream EXCEPT !.state[n] = "returned"]
  /\ HandlerKeeps /\ UNCHANGED <<pc, sock, conn, connected>>

\* Mutant of Deregistered: whatever is registered is deleted.
DeregisteredAny(n) == TRUE

\* Only the stream of the current generation deletes the entry.
Deregistered(n) == stream.gen = n

StreamEnds(n) ==
  /\ stream.state[n] = "returned"
  /\ stream' = IF Deregistered(n)
               THEN [stream EXCEPT !.state[n] = "gone", !.reg = 0, !.gen = 0]
               ELSE [stream EXCEPT !.state[n] = "gone"]
  /\ HandlerKeeps /\ UNCHANGED <<pc, sock, conn, connected>>

\* ReadMessage fails on a closed socket, and the deferred teardown runs.
ReadFails(s) ==
  /\ sock[s] = "closed"
  /\ Goto(s, "read", "teardown")
  /\ HandlerKeeps /\ UNCHANGED <<sock, conn, connected, stream>>

Teardown(s) ==
  /\ Goto(s, "teardown", IF conn = s THEN "unset" ELSE "done")
  /\ conn' = CompareAndSwap(s)
  /\ HandlerKeeps /\ UNCHANGED <<sock, connected, stream>>

Unset(s) ==
  /\ Goto(s, "unset", "done")
  /\ connected' = FALSE
  /\ HandlerKeeps /\ UNCHANGED <<sock, conn, stream>>

-----------------------------------------------------------------------------
(* The browser. *)

Leave(s) ==
  /\ sock[s] = "open"
  /\ sock' = Closed(s)
  /\ HandlerKeeps /\ UNCHANGED <<pc, conn, connected, stream>>

\* The browser sleeps or the network is gone without a word.
Stall(s) ==
  /\ sock[s] = "open" /\ s \notin deaf
  /\ deaf' = deaf \cup {s}
  /\ UNCHANGED <<sock, pc, old, connVars, queueVars, pump, stream>>

-----------------------------------------------------------------------------
Handler(s) ==
  \/ Pause(s) \/ SwapOut(s) \/ CloseOld(s) \/ drainFrames(s) \/ Attach(s)
  \/ Announce(s) \/ Resume(s) \/ Cancel(s) \/ StartStream(s)
  \/ ReadFails(s) \/ Teardown(s) \/ Unset(s)

Writing(w) == Enqueue(w) \/ FindFull(w) \/ Evict(w) \/ GiveUp(w)

Pumping == Take \/ Load \/ Deliver \/ WriteFails \/ Retire \/ PumpUnsets

Next ==
  \/ \E s \in Sockets :
       Accept(s) \/ Handler(s) \/ Command(s) \/ Leave(s) \/ Stall(s)
  \/ \E w \in Writers : Produce(w) \/ Writing(w)
  \/ Pumping \/ GraceEnds
  \/ \E n \in Streams : StreamReturns(n) \/ StreamEnds(n)

\* A goroutine that can run is scheduled.  Nothing obliges a browser to
\* connect, to send a command, to read or to leave.
Fairness ==
  /\ \A s \in Sockets : WF_vars(Handler(s))
  /\ \A w \in Writers : WF_vars(Writing(w))
  /\ WF_vars(Pumping)

Spec == Init /\ [][Next]_vars /\ Fairness

-----------------------------------------------------------------------------
(* Properties. *)

\* A dashboard whose socket is open and whose handler waits for its commands
\* is the one frames go to, unless a newer dashboard is about to close it
\* (wsHandler swaps the old connection out and closes it before it attaches
\* its own).
OpenSocketIsFed ==
  \A s \in Sockets :
    (sock[s] = "open" /\ pc[s] = "read") =>
      conn = s \/ \E t \in Sockets : old[t] = s

\* Every stream that still runs uncancelled can be cancelled: it is the
\* registered one, or a handler holds its cancel function and is about to
\* call it (cancelStream, startStream and the generation the goroutine
\* compares when it ends).
StreamsAreReachable ==
  \A n \in Streams :
    stream.state[n] = "live" =>
      stream.reg = n \/ \E s \in Sockets : stream.held[s] = n

\* A pump blocked on a browser that stopped reading gets away once that
\* socket is no longer the attached one: WriteMessage has no deadline, and
\* only the close of the old socket by the new handler releases it.
ReconnectFreesPump ==
  \A s \in Sockets :
    (pump.at = "write" /\ pump.conn = s /\ conn # s) ~>
      ~(pump.at = "write" /\ pump.conn = s)

Settled ==
  /\ \A s \in Sockets : pc[s] \in {"off", "read", "done"}
  /\ pump.at \in {"off", "idle"}

\* What the comment on Active says: it "reports whether a dashboard is
\* attached".  With every handler waiting and the pump idle, an attached
\* dashboard is reported.
AttachedIsActive == Settled /\ conn # None => Active
=============================================================================
