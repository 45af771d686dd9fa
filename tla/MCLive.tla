-------------------------------- MODULE MCLive --------------------------------
(***************************************************************************)
(* The stop of a lot (Stoploss), and what must go on in the goroutines     *)
(* around it: repricing under its locks (RepriceLocks), the dashboard      *)
(* hub's pump (Hub) and the reconnecting client (Socket).  They share no   *)
(* state and are checked in one run: the part is chosen at the start, and  *)
(* its actions run under the fairness its module states.                   *)
(***************************************************************************)
EXTENDS Stoploss, FiniteSets

VARIABLES
  part,
  at, todo, lot, reads, writer, owner,
  sock, deaf, handler, old, attached, connected, since, queue, write,
  pump, stream, frames,
  dialled, status, dials, open, broken, mute, hooked, call, faults

stopVars == vars
lockVars == <<at, todo, lot, reads, writer, owner>>
hubVars == <<sock, deaf, handler, old, attached, connected, since, queue,
             write, pump, stream, frames>>
socketVars == <<dialled, status, dials, open, broken, mute, hooked, call, faults>>

-----------------------------------------------------------------------------
\* Returns from below the rail to above the profit target.
Band == -5..5

Locks == INSTANCE RepriceLocks WITH
  Readers <- {"k1"}, Traders <- {"t1", "t2"}, Lots <- {"l1", "l2"},
  LotsOf <- [r \in {"k1"} |-> {"l1", "l2"}], None <- "none"

Pump == INSTANCE Hub WITH
  pc <- handler, conn <- attached,
  Sockets <- {"d1", "d2"}, Publishers <- {"tick"}, None <- "none",
  QueueFrames <- 1, MaxFrames <- 1, MaxStreams <- 0, Together <- FALSE

Client == INSTANCE Socket WITH
  conn <- dialled,
  Callers <- {"reader"}, Readers <- {"reader"}, Pinger <- "pinger",
  MaxFaults <- 3, MaxConns <- 9, MaxNest <- 3

-----------------------------------------------------------------------------
LiveInit ==
  /\ part \in {"stop", "locks", "pump", "client"}
  /\ Init /\ Locks!Init /\ Pump!Init /\ Client!Init
  /\ part # "stop" => initial = 0

LiveNext ==
  /\ UNCHANGED part
  /\ \/ /\ part = "stop" /\ Next
        /\ UNCHANGED <<lockVars, hubVars, socketVars>>
     \/ /\ part = "locks" /\ Locks!Next
        /\ UNCHANGED <<stopVars, hubVars, socketVars>>
     \/ /\ part = "pump" /\ Pump!Next
        /\ UNCHANGED <<stopVars, lockVars, socketVars>>
     \/ /\ part = "client" /\ Client!Next
        /\ UNCHANGED <<stopVars, lockVars, hubVars>>

\* RepriceLocks!Fairness, Hub!Fairness and Socket!Fairness, of the part that
\* runs.
LockFairness ==
  /\ SF_lockVars(part = "locks" /\ Locks!ReaderStep("k1"))
  /\ \A p \in Locks!Procs : SF_lockVars(part = "locks" /\ Locks!Step(p))

PumpFairness ==
  /\ \A s \in {"d1", "d2"} : WF_hubVars(part = "pump" /\ Pump!Handler(s))
  /\ \A w \in Pump!Writers : WF_hubVars(part = "pump" /\ Pump!Writing(w))
  /\ WF_hubVars(part = "pump" /\ Pump!Pumping)

ClientFairness ==
  /\ WF_socketVars(part = "client" /\ Client!CallerNext("reader"))
  /\ \A p \in Client!Procs : WF_socketVars(part = "client" /\ Client!Downing(p))
  /\ WF_socketVars(part = "client" /\ Client!PingLoads)
  /\ WF_socketVars(part = "client" /\ Client!PingEnds)
  /\ \A n \in Client!Conns : WF_socketVars(part = "client" /\ Client!Keepalive(n))

LiveSpec ==
  /\ LiveInit /\ [][LiveNext]_<<part, stopVars, lockVars, hubVars, socketVars>>
  /\ LockFairness /\ PumpFairness /\ ClientFairness

-----------------------------------------------------------------------------
\* RepriceLocks: with one Level3 socket every repricing ends (Refresh, Update).
RepricingEnds == Locks!RepricingEnds

\* Hub: a pump blocked on a browser that stopped reading gets away once that
\* socket is replaced (wsHandler closes it).
ReconnectFreesPump == Pump!ReconnectFreesPump

\* Socket: with one reader the stream is back for good once the network
\* behaves (ensureReady, SoftDown).
StreamComesBack == Client!StreamComesBack
=============================================================================
