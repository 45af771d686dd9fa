------------------------------- MODULE Socket -------------------------------
(***************************************************************************)
(* The reconnecting transport (network/websocket.go, network/pinger.go):   *)
(* goroutines that Read or Write on one client, each of which may find it  *)
(* down and redial, the pinger, the reconnect hook that subscribes again   *)
(* and the disconnect hook.  The client has no lock around conn and        *)
(* status, so every access is a step.  Waits last at most 30 s, which is   *)
(* all a model without time needs of the backoffs.  Init is the client     *)
(* after Open.                                                             *)
(***************************************************************************)
EXTENDS Naturals, FiniteSets

CONSTANTS
  Callers,      \* goroutines that use the client
  Readers,      \* those that Read; the others Write
  Pinger,
  MaxFaults,    \* broken connections, failed dials and refused subscribes
  MaxConns,     \* bound on the connections dialled
  MaxNest       \* bound on hooks within hooks

VARIABLES
  conn,      \* client.conn; 0 is nil
  status,    \* READY or WAITING
  dials,     \* connections dialled so far, which are numbered
  open,      \* connections this side has not closed
  broken,    \* connections the peer or the network has ended ...
  mute,      \* ... and those of them that the reader is not told of yet
  hooked,    \* connections a subscribe frame was written to
  call,      \* where each goroutine is
  faults

vars == <<conn, status, dials, open, broken, mute, hooked, call, faults>>

netVars == <<broken, mute, faults>>

Procs == Callers \cup {Pinger}
Conns == 1..MaxConns
None == 0

\* "mine" is the connection a goroutine has loaded or dialled, "nest" the
\* number of hooks it is inside of, "ret" where SoftDown returns to, and
\* "after" the goroutines that were dropping a connection when it began to
\* wait.
Idle == [at |-> "idle", mine |-> None, nest |-> 0, ret |-> "idle", after |-> {}]

Init ==
  /\ conn = 1 /\ status = "READY" /\ dials = 1
  /\ open = {1} /\ hooked = {1} /\ broken = {} /\ mute = {}
  /\ call = [p \in Procs |-> Idle]
  /\ faults = 0

Up == status = "READY" /\ conn # None

At(p, at) == call[p].at = at
Goto(p, at) == call' = [call EXCEPT ![p].at = at]

Dropping == {p \in Procs : call[p].at \in {"downStatus", "refusedStatus"}}

Waiting(c, nest) ==
  [call[c] EXCEPT !.at = "wait", !.nest = nest, !.after = Dropping]

-----------------------------------------------------------------------------
(* ensureReady and dialLocked. *)

\* Read or Write looks whether the client is up; a hook's Write does too, and
\* if not the redial is nested in it.
Call(c) ==
  /\ At(c, "idle")
  /\ call' = [call EXCEPT ![c] = IF Up THEN [Idle EXCEPT !.at = "use"]
                                 ELSE Waiting(c, 0)]
  /\ UNCHANGED <<conn, status, dials, open, hooked, netVars>>

HookCall(c) ==
  /\ At(c, "hook")
  /\ \/ Up /\ Goto(c, "send")
     \/ /\ ~Up /\ call[c].nest < MaxNest
        /\ call' = [call EXCEPT ![c] = Waiting(c, call[c].nest + 1)]
  /\ UNCHANGED <<conn, status, dials, open, hooked, netVars>>

\* ensureReady returned nil: Read or Write goes on.
Ready(c) == IF call[c].nest = 0
            THEN [call[c] EXCEPT !.at = "use"]
            ELSE [call[c] EXCEPT !.at = "send", !.nest = @ - 1]

\* A wait lasts a second at least: a goroutine that had closed its connection
\* when the wait began has set the status by then.
WaitEnds(c) ==
  /\ At(c, "wait")
  /\ call[c].after \cap Dropping = {}
  /\ call' = [call EXCEPT ![c] = IF Up THEN [Ready(c) EXCEPT !.after = {}]
                                 ELSE [call[c] EXCEPT !.at = "close", !.after = {}]]
  /\ UNCHANGED <<conn, status, dials, open, hooked, netVars>>

\* closeConnLocked
Closing == conn' = None /\ open' = open \ {conn}

DialCloses(c) ==
  /\ At(c, "close")
  /\ Closing
  /\ Goto(c, "dial")
  /\ UNCHANGED <<status, dials, hooked, netVars>>

Dial(c) ==
  /\ At(c, "dial")
  /\ dials < MaxConns
  /\ dials' = dials + 1
  /\ open' = open \cup {dials + 1}
  /\ call' = [call EXCEPT ![c].at = "assign", ![c].mine = dials + 1]
  /\ UNCHANGED <<conn, status, hooked, netVars>>

\* The error is returned: from Read or Write, or to the hook around it.
Failed(c) == IF call[c].nest = 0 THEN Idle
             ELSE [call[c] EXCEPT !.at = "refused", !.nest = @ - 1]

DialFails(c) ==
  /\ At(c, "dial")
  /\ faults < MaxFaults
  /\ faults' = faults + 1
  /\ status' = "WAITING"
  /\ call' = [call EXCEPT ![c] = Failed(c)]
  /\ UNCHANGED <<conn, dials, open, hooked, broken, mute>>

\* A connection another goroutine assigned meanwhile is overwritten, and
\* stays open.
Assign(c) ==
  /\ At(c, "assign")
  /\ conn' = call[c].mine
  /\ Goto(c, "ready")
  /\ UNCHANGED <<status, dials, open, hooked, netVars>>

SetReady(c) ==
  /\ At(c, "ready")
  /\ status' = "READY"
  /\ Goto(c, "hook")
  /\ UNCHANGED <<conn, dials, open, hooked, netVars>>

-----------------------------------------------------------------------------
(* The hook's Write, runHook and SoftDown. *)

Down(p, ret) == [call EXCEPT ![p].at = "down", ![p].ret = ret]

\* What a write of the kernel finds out about connection n in the end, and
\* what a caller finds out now.
Broke(n) == n \notin open \/ n \in broken
Gone(n) == n \notin open \/ n \in broken \ mute

\* The subscribe frame is written to the connection of this moment, which
\* need not be the one this goroutine dialled.
HookWrites(c) ==
  /\ At(c, "send")
  /\ ~Gone(conn)
  /\ hooked' = hooked \cup {conn}
  /\ call' = [call EXCEPT ![c] = Ready(c)]
  /\ UNCHANGED <<conn, status, dials, open, netVars>>

HookWriteFails(c) ==
  /\ At(c, "send")
  /\ Gone(conn)
  /\ call' = Down(c, "refused")
  /\ UNCHANGED <<conn, status, dials, open, hooked, netVars>>

\* The hook fails before it writes: no token, no symbols.
HookRefused(c) ==
  /\ At(c, "send")
  /\ faults < MaxFaults
  /\ faults' = faults + 1
  /\ Goto(c, "refused")
  /\ UNCHANGED <<conn, status, dials, open, hooked, broken, mute>>

\* Mutant of RunHookFails: the error is returned, the connection kept.
RunHookReturns(c) ==
  /\ At(c, "refused")
  /\ call' = [call EXCEPT ![c] = Failed(c)]
  /\ UNCHANGED <<conn, status, dials, open, hooked, netVars>>

\* Mutant of RunHookFails: the status is lowered, the connection kept.
RunHookKeeps(c) ==
  /\ At(c, "refused")
  /\ Goto(c, "refusedStatus")
  /\ UNCHANGED <<conn, status, dials, open, hooked, netVars>>

RunHookFails(c) ==
  /\ At(c, "refused")
  /\ Closing
  /\ Goto(c, "refusedStatus")
  /\ UNCHANGED <<status, dials, hooked, netVars>>

HookStatus(c) ==
  /\ At(c, "refusedStatus")
  /\ status' = "WAITING"
  /\ call' = [call EXCEPT ![c] = Failed(c)]
  /\ UNCHANGED <<conn, dials, open, hooked, netVars>>

\* SoftDown closes whatever connection is there by now, then waits for a
\* redial and tells the consumer.
DownCloses(p) ==
  /\ At(p, "down")
  /\ Closing
  /\ Goto(p, "downStatus")
  /\ UNCHANGED <<status, dials, hooked, netVars>>

DownStatus(p) ==
  /\ At(p, "downStatus")
  /\ status' = "WAITING"
  /\ call' = [call EXCEPT ![p] = IF call[p].ret = "idle" THEN Idle
                                 ELSE [call[p] EXCEPT !.at = call[p].ret]]
  /\ UNCHANGED <<conn, dials, open, hooked, netVars>>

-----------------------------------------------------------------------------
(* Read, Write and the ping. *)

Use(c) ==
  /\ At(c, "use")
  /\ call' = IF conn = None THEN Down(c, "idle")
             ELSE [call EXCEPT ![c].at = "busy", ![c].mine = conn]
  /\ UNCHANGED <<conn, status, dials, open, hooked, netVars>>

\* ReadMessage returns a frame, WriteMessage has written one.
Done(c) ==
  /\ At(c, "busy")
  /\ ~Gone(call[c].mine)
  /\ call[c].mine \notin mute \/ c \notin Readers
  /\ call' = [call EXCEPT ![c] = Idle]
  /\ UNCHANGED <<conn, status, dials, open, hooked, netVars>>

UseFails(c) ==
  /\ At(c, "busy")
  /\ Gone(call[c].mine)
  /\ call' = Down(c, "idle")
  /\ UNCHANGED <<conn, status, dials, open, hooked, netVars>>

\* writePing loads the connection of a client that is up ...
PingLoads ==
  /\ At(Pinger, "idle")
  /\ Up
  /\ call' = [call EXCEPT ![Pinger].at = "ping", ![Pinger].mine = conn]
  /\ UNCHANGED <<conn, status, dials, open, hooked, netVars>>

PingEnds ==
  /\ At(Pinger, "ping")
  /\ call' = IF Broke(call[Pinger].mine) THEN Down(Pinger, "idle")
             ELSE [call EXCEPT ![Pinger] = Idle]
  /\ UNCHANGED <<conn, status, dials, open, hooked, netVars>>

-----------------------------------------------------------------------------
(* The network. *)

Break(n, quietly) ==
  /\ faults < MaxFaults
  /\ n \in open \ broken
  /\ faults' = faults + 1
  /\ broken' = broken \cup {n}
  /\ mute' = IF quietly THEN mute \cup {n} ELSE mute
  /\ UNCHANGED <<conn, status, dials, open, hooked, call>>

\* A connection dialled by the default dialer has TCP keepalive: in the end
\* the reader is told of a peer that went quietly.
Keepalive(n) ==
  /\ n \in mute
  /\ mute' = mute \ {n}
  /\ UNCHANGED <<conn, status, dials, open, hooked, call, broken, faults>>

-----------------------------------------------------------------------------
CallerNext(c) ==
  \/ Call(c) \/ HookCall(c) \/ WaitEnds(c) \/ DialCloses(c) \/ Dial(c)
  \/ Assign(c) \/ SetReady(c) \/ HookWrites(c) \/ HookWriteFails(c)
  \/ RunHookFails(c) \/ HookStatus(c) \/ Use(c) \/ Done(c) \/ UseFails(c)

Downing(p) == DownCloses(p) \/ DownStatus(p)

Next ==
  \/ \E c \in Callers : CallerNext(c) \/ DialFails(c) \/ HookRefused(c)
  \/ \E p \in Procs : Downing(p)
  \/ PingLoads \/ PingEnds
  \/ \E n \in Conns, quietly \in BOOLEAN : Break(n, quietly)
  \/ \E n \in Conns : Keepalive(n)

\* The ingress reads again after every answer, the ticker of the pinger goes
\* on, and a goroutine that can run is scheduled.
Fairness ==
  /\ \A c \in Callers : WF_vars(CallerNext(c))
  /\ \A p \in Procs : WF_vars(Downing(p))
  /\ WF_vars(PingLoads) /\ WF_vars(PingEnds)
  /\ \A n \in Conns : WF_vars(Keepalive(n))

Spec == Init /\ [][Next]_vars /\ Fairness

-----------------------------------------------------------------------------
(* Properties. *)

Dialling == {"close", "dial", "assign", "ready", "hook", "send", "refused",
             "refusedStatus"}

Redialling(c) ==
  call[c].nest > 0 \/ call[c].at \in Dialling \/ call[c].ret = "refused"

\* A connection that looks healthy carries the subscription: whatever
\* goroutines dialled, overwrote and closed each other's connections, when
\* none of them is still in ensureReady the client's connection had the
\* subscribe frame written to it (runHook drops it otherwise).
LiveIsSubscribed ==
  conn # None /\ (\A c \in Callers : ~Redialling(c)) => conn \in hooked

Streaming == conn \in (open \cap hooked) \ broken

\* Once the network behaves, a client with one reader streams again for good:
\* a broken connection is found out, a failed dial or hook is tried again,
\* and a late failure of an old connection, which may close the new one,
\* costs one more redial only.
StreamComesBack == <>[]Streaming
=============================================================================
