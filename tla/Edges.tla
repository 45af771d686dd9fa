------------------------------- MODULE Edges -------------------------------
(***************************************************************************)
(* The parts at the edge of the desk, which share no state, side by side:  *)
(* the nonces (AuthNonce), the dashboard hub with its frames and with its  *)
(* streams (Hub), the reconnecting client (Socket) and what the dashboard  *)
(* makes of the lots (DeskView).  The part is chosen at the start, and     *)
(* only its actions run.                                                   *)
(***************************************************************************)
EXTENDS AuthNonce, Sequences, FiniteSets

CONSTANTS
  Dashboards, Publishers, NoSocket, QueueFrames,  \* Hub, ...
  FrameBound, StreamBound,   \* ... its frames and streams in either part
  Callers, Readers, Pinger, MaxFaults, MaxConns, MaxNest,   \* Socket
  N, Books, BookOf, Bids, Pcts, Stamps, PctOf, SessionLimit, HistoryCap,
  MarkCap, ChartSamples, MaxTime, NoRow       \* DeskView, NoRow its undefined

ASSUME EdgesAssumption == NoSocket \notin Dashboards

\* The dashboard's limits and returns are numbers, a chart of marks has room
\* for one, and undefined is no stamp and no row.
ASSUME ViewAssumption ==
  /\ N \in Nat /\ SessionLimit \in Nat /\ HistoryCap \in Nat /\ ChartSamples \in Nat
  /\ MarkCap \in Nat \ {0}
  /\ Pcts \subseteq Int /\ PctOf \in [Stamps -> Int]
  /\ NoRow \notin Stamps
  /\ NoRow \notin [id : 1..N, closed : BOOLEAN, bid : Bids \cup {NoRow},
                   pct : Int \cup {NoRow}, at : Nat]

VARIABLES
  part,
  sock, deaf, handler, old, attached, connected, since, queue, write,
  pump, stream, frames,
  dialled, status, dials, open, broken, mute, hooked, call, faults,
  desk, positions, lives, stamps, report, book, count, window, lastAt, now

nonceVars == vars
hubVars == <<sock, deaf, handler, old, attached, connected, since, queue,
             write, pump, stream, frames>>
socketVars == <<dialled, status, dials, open, broken, mute, hooked, call, faults>>
viewVars == <<desk, positions, lives, stamps, report, book, count, window, lastAt, now>>

-----------------------------------------------------------------------------
\* Dashboards that attach one after the other, and the frames they are fed.
Framed == INSTANCE Hub WITH
  Sockets <- Dashboards, None <- NoSocket, pc <- handler, conn <- attached,
  MaxFrames <- FrameBound.frames, MaxStreams <- FrameBound.streams, Together <- FALSE

\* Dashboards that attach at once, and the streams they ask for.
Streamed == INSTANCE Hub WITH
  Sockets <- Dashboards, None <- NoSocket, pc <- handler, conn <- attached,
  MaxFrames <- StreamBound.frames, MaxStreams <- StreamBound.streams, Together <- TRUE

Client == INSTANCE Socket WITH conn <- dialled

View == INSTANCE DeskView WITH None <- NoRow

-----------------------------------------------------------------------------
EdgesInit ==
  /\ part \in {"nonce", "frames", "streams", "client", "view"}
  /\ Init /\ Client!Init /\ View!Init
  /\ IF part = "streams" THEN Streamed!Init ELSE Framed!Init
  /\ part # "view" => book = CHOOSE b \in Books : TRUE

EdgesNext ==
  /\ UNCHANGED part
  /\ \/ /\ part = "nonce" /\ Next
        /\ UNCHANGED <<hubVars, socketVars, viewVars>>
     \/ /\ part = "frames" /\ Framed!Next
        /\ UNCHANGED <<nonceVars, socketVars, viewVars>>
     \/ /\ part = "streams" /\ Streamed!Next
        /\ UNCHANGED <<nonceVars, socketVars, viewVars>>
     \/ /\ part = "client" /\ Client!Next
        /\ UNCHANGED <<nonceVars, hubVars, viewVars>>
     \/ /\ part = "view" /\ View!Next
        /\ UNCHANGED <<nonceVars, hubVars, socketVars>>

EdgesSpec == EdgesInit /\ [][EdgesNext]_<<part, nonceVars, hubVars, socketVars, viewVars>>

-----------------------------------------------------------------------------
\* Hub: an open dashboard whose handler waits is the one frames go to, when
\* one socket attaches at a time (wsHandler).
OpenSocketIsFed == part = "frames" => Framed!OpenSocketIsFed

\* Hub: a stream that runs uncancelled can be cancelled (startStream).
StreamsAreReachable == part = "streams" => Streamed!StreamsAreReachable

\* Socket: a connection in use had the subscribe frame written (runHook).
LiveIsSubscribed == part = "client" => Client!LiveIsSubscribed

\* DeskView: what the views read is what the stores hold, bounded and in
\* order (publish, recordFrame).
ReportIsSound == part = "view" => View!ReportIsSound

\* DeskView: a settled trade is never shown as open again (storeLife).
SettledStays == View!SettledStays
=============================================================================
