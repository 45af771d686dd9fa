------------------------------- MODULE Books -------------------------------
(***************************************************************************)
(* The Level3 order books: how boot subscribes and seeds them, how frames  *)
(* are applied, and how they recover from a failed checksum and from a     *)
(* dropped socket.  broker/book.go, broker/diagnostic.go, the Level3 part  *)
(* of broker/instrument.go, seedBooks and openFirehose of cmd/booter.go,   *)
(* and what network/websocket.go does for them.                            *)
(*                                                                         *)
(* Goroutines: boot, one reader per socket, one recovery per symbol, and   *)
(* whoever notices that a socket failed and redials it.  A frame carries   *)
(* one symbol; whether it applies, fails the checksum or does not parse is *)
(* left open.  A subscribe frame of boot or of the reconnect hook carries  *)
(* one symbol too.  A redial waits at least a second, so the disconnect    *)
(* hook has run by then.                                                   *)
(***************************************************************************)
EXTENDS Naturals

CONSTANTS
  Symbols, Sockets,
  Batch,       \* the socket that carries a symbol
  ResubEvery,  \* dropped deltas per recovery retry: 100
  MaxFaults,   \* bound: drops, failed checksums and refusals
  Refuses,     \* tokens or subscribe writes may be refused on a live socket
  Malformed    \* values may not fit the pair's precision

ASSUME BatchAssumption == Batch \in [Symbols -> Sockets]
ASSUME BoundsAssumption == ResubEvery \in Nat \ {0} /\ MaxFaults \in Nat
ASSUME SwitchAssumption == Refuses \in BOOLEAN /\ Malformed \in BOOLEAN

VARIABLES
  phase,       \* boot: "books", "wait", then "trading" or "failed"
  stage,       \* boot, per socket: how far SubscribeBooks came
  written,     \* symbols boot has subscribed
  ready,       \* the book owner is READY
  pending, stale, invalid, dropped,
  local,       \* what the managed book holds
  frame,       \* the frame of a symbol in its reader's hand
  rec,         \* the recovery goroutine of a symbol; "none" is not in flight
  up,          \* sockets with a live connection
  venue,       \* subscription of a symbol on the connection its socket has
  marking,     \* symbols a disconnect hook has still to mark stale
  hook,        \* symbols a reconnect hook has still to subscribe
  closing,     \* sockets whose reconnect hook failed, to be closed
  faults,
  seeded,      \* history: symbols that had a snapshot accepted
  fed,         \* history: the book follows the connection its socket has
  dead,        \* history: the frame in hand is from a connection since lost
  late,        \* history: took a snapshot of a lost or abandoned connection
  cut,         \* history: a recovery unsubscribed and was refused to subscribe
  early        \* history: sockets lost before their hooks were registered

bootVars == <<phase, stage, written>>
bookVars == <<ready, pending, stale, invalid, dropped, local>>
sockVars == <<up, venue, marking, hook, closing>>
histVars == <<seeded, fed, dead, late, early, cut>>
vars == <<bootVars, bookVars, frame, rec, sockVars, faults, histVars>>

On(k) == {s \in Symbols : Batch[s] = k}
Live(s) == Batch[s] \in up

\* Book, BlockReason and StaleSymbol: what a reader gets to see.
Readable(s) == s \notin pending \cup stale \cup invalid /\ local[s] # "none"

TypeOK ==
  /\ phase \in {"books", "wait", "trading", "failed"}
  /\ stage \in [Sockets -> {"closed", "open", "watched", "hooked"}]
  /\ ready \in BOOLEAN
  /\ written \subseteq Symbols /\ marking \subseteq Symbols /\ hook \subseteq Symbols
  /\ pending \subseteq Symbols /\ stale \subseteq Symbols /\ invalid \subseteq Symbols
  /\ seeded \subseteq Symbols /\ fed \subseteq Symbols
  /\ dead \subseteq Symbols /\ late \subseteq Symbols /\ cut \subseteq Symbols
  /\ up \subseteq Sockets /\ closing \subseteq Sockets /\ early \subseteq Sockets
  /\ dropped \in [Symbols -> 0 .. ResubEvery - 1]
  /\ local \in [Symbols -> {"none", "good", "bad", "part"}]
  /\ frame \in [Symbols -> {"none", "snapshot", "update", "accepted", "cleared"}]
  /\ rec \in [Symbols -> {"none", "unsub", "sub", "done"}]
  /\ venue \in [Symbols -> {"off", "asked", "live"}]
  /\ faults \in Nat

\* Boot has called Expect for every symbol and opened no socket.
Init ==
  /\ phase = "books" /\ stage = [k \in Sockets |-> "closed"] /\ written = {}
  /\ ready = FALSE /\ pending = Symbols /\ stale = {} /\ invalid = {}
  /\ dropped = [s \in Symbols |-> 0] /\ local = [s \in Symbols |-> "none"]
  /\ frame = [s \in Symbols |-> "none"] /\ rec = [s \in Symbols |-> "none"]
  /\ up = {} /\ venue = [s \in Symbols |-> "off"]
  /\ marking = {} /\ hook = {} /\ closing = {} /\ faults = 0
  /\ seeded = {} /\ fed = {} /\ dead = {} /\ late = {} /\ early = {}
  /\ cut = {}

-----------------------------------------------------------------------------
(* Boot: SubscribeBooks one socket after the other, Wait, openFirehose.    *)

Open(k) ==
  /\ phase = "books" /\ stage[k] = "closed"
  /\ \A j \in Sockets : stage[j] \in {"closed", "hooked"}
  /\ stage' = [stage EXCEPT ![k] = "open"]
  /\ up' = up \cup {k}
  /\ UNCHANGED <<phase, written, bookVars, frame, rec, venue, marking, hook, closing,
                 faults, histVars>>

Subscribed(s) == venue' = [venue EXCEPT ![s] = IF @ = "off" THEN "asked" ELSE @]

BootSubscribe(s) ==
  /\ phase = "books" /\ stage[Batch[s]] = "open" /\ s \notin written /\ Live(s)
  /\ Subscribed(s)
  /\ written' = written \cup {s}
  /\ UNCHANGED <<phase, stage, bookVars, frame, rec, up, marking, hook, closing,
                 faults, histVars>>

\* OnDisconnect, then OnReconnect: only after the initial subscribe.
Register(k) ==
  /\ phase = "books" /\ stage[k] \in {"open", "watched"}
  /\ stage[k] = "open" => On(k) \subseteq written
  /\ stage' = [stage EXCEPT ![k] = IF @ = "open" THEN "watched" ELSE "hooked"]
  /\ UNCHANGED <<phase, written, bookVars, frame, rec, sockVars, faults, histVars>>

BeginWait ==
  /\ phase = "books" /\ \A k \in Sockets : stage[k] = "hooked"
  /\ phase' = "wait"
  /\ UNCHANGED <<stage, written, bookVars, frame, rec, sockVars, faults, histVars>>

OpenFirehose ==
  /\ phase = "wait" /\ ready
  /\ phase' = "trading"
  /\ UNCHANGED <<stage, written, bookVars, frame, rec, sockVars, faults, histVars>>

\* A dial or a subscribe of boot fails, or Wait times out: Run returns, and the
\* other goroutines run until the process is gone.
BootFails ==
  /\ \/ phase = "books" /\ \E k \in Sockets : stage[k] = "closed" /\ k \notin up
     \/ phase = "books" /\ \E k \in Sockets : stage[k] = "open" /\ (Refuses \/ k \notin up)
     \/ phase = "wait" /\ ~ ready
  /\ phase' = "failed"
  /\ UNCHANGED <<stage, written, bookVars, frame, rec, sockVars, faults, histVars>>

-----------------------------------------------------------------------------
(* The reader of a socket: Update with apply, under the book lock.         *)

Idle(k) == \A s \in On(k) : frame[s] = "none"
Hold(s, f) == frame' = [frame EXCEPT ![s] = f]
LetGo(s) == Hold(s, "none") /\ dead' = dead \ {s}

\* requestLevel3Resubscribe starts a recovery unless one is in flight.
Request(s) == rec' = [rec EXCEPT ![s] = IF @ = "none" THEN "unsub" ELSE @]

ReadSnapshot(s) ==
  /\ Live(s) /\ Idle(Batch[s]) /\ venue[s] = "asked"
  /\ venue' = [venue EXCEPT ![s] = "live"]
  /\ Hold(s, "snapshot")
  /\ UNCHANGED <<bootVars, bookVars, rec, up, marking, hook, closing, faults, histVars>>

ReadUpdate(s) ==
  /\ Live(s) /\ Idle(Batch[s]) /\ venue[s] = "live"
  /\ Hold(s, "update")
  /\ UNCHANGED <<bootVars, bookVars, rec, sockVars, faults, histVars>>

\* Whose book it is from now on: of the present connection or of a lost one.
Replaced(s) ==
  /\ fed' = IF s \in dead THEN fed \ {s} ELSE fed \cup {s}
  /\ late' = IF s \in dead THEN late \cup {s} ELSE late \ {s}

\* A snapshot whose checksum matches replaces the book.
AcceptSnapshot(s) ==
  /\ frame[s] = "snapshot"
  /\ stale' = stale \ {s} /\ invalid' = invalid \ {s}
  /\ dropped' = [dropped EXCEPT ![s] = 0]
  /\ local' = [local EXCEPT ![s] = "good"]
  /\ seeded' = seeded \cup {s}
  /\ Replaced(s)
  /\ Hold(s, "accepted")
  /\ UNCHANGED <<bootVars, ready, pending, rec, sockVars, faults, dead, early, cut>>

\* An entry that fails the checksum or deletes an absent level: invalidate.
Invalidate(s) ==
  /\ invalid' = invalid \cup {s}
  /\ dropped' = [dropped EXCEPT ![s] = 0]
  /\ local' = [local EXCEPT ![s] = "bad"]
  /\ Request(s)

Fault == faults < MaxFaults /\ faults' = faults + 1

RejectSnapshot(s) ==
  /\ frame[s] = "snapshot" /\ Fault
  /\ stale' = stale \ {s}
  /\ Invalidate(s)
  /\ LetGo(s)
  /\ UNCHANGED <<bootVars, ready, pending, sockVars, seeded, fed, late, early, cut>>

\* canonical or PairInfo fails: apply returns with the book half replaced.
AbortSnapshot(s) ==
  /\ frame[s] = "snapshot" /\ Malformed /\ Fault
  /\ stale' = stale \ {s} /\ invalid' = invalid \ {s}
  /\ dropped' = [dropped EXCEPT ![s] = 0]
  /\ local' = [local EXCEPT ![s] = "part"]
  /\ Replaced(s)
  /\ LetGo(s)
  /\ UNCHANGED <<bootVars, ready, pending, rec, sockVars, seeded, early, cut>>

\* Mutant of AcceptUpdate: an invalid book takes deltas again.
AcceptUpdateInvalid(s) ==
  /\ frame[s] = "update"
  /\ invalid' = invalid \ {s}
  /\ LetGo(s)
  /\ UNCHANGED <<bootVars, ready, pending, stale, dropped, local, rec, sockVars,
                 faults, seeded, fed, late, early, cut>>

AcceptUpdate(s) ==
  /\ frame[s] = "update" /\ s \notin invalid /\ local[s] = "good"
  /\ LetGo(s)
  /\ UNCHANGED <<bootVars, bookVars, rec, sockVars, faults, seeded, fed, late, early, cut>>

\* A delta on a book that is not the venue's always fails the checksum.
RejectUpdate(s) ==
  /\ frame[s] = "update" /\ s \notin invalid
  /\ Fault \/ (local[s] # "good" /\ UNCHANGED faults)
  /\ Invalidate(s)
  /\ LetGo(s)
  /\ UNCHANGED <<bootVars, ready, pending, stale, sockVars, seeded, fed, late, early, cut>>

AbortUpdate(s) ==
  /\ frame[s] = "update" /\ s \notin invalid /\ Malformed /\ Fault
  /\ local' = [local EXCEPT ![s] = "part"]
  /\ LetGo(s)
  /\ UNCHANGED <<bootVars, ready, pending, stale, invalid, dropped, rec, sockVars,
                 seeded, fed, late, early, cut>>

\* Mutant of SkipUpdate: dropped deltas never retry the recovery.
SkipUpdateQuietly(s) ==
  /\ frame[s] = "update" /\ s \in invalid
  /\ LetGo(s)
  /\ UNCHANGED <<bootVars, bookVars, rec, sockVars, faults, seeded, fed, late, early, cut>>

\* Mutant of SkipUpdate: off by one.
SkipUpdateOneMore(s) ==
  /\ frame[s] = "update" /\ s \in invalid
  /\ dropped' = [dropped EXCEPT ![s] = (@ + 1) % (ResubEvery + 1)]
  /\ IF dropped'[s] = 0 THEN Request(s) ELSE UNCHANGED rec
  /\ LetGo(s)
  /\ UNCHANGED <<bootVars, ready, pending, stale, invalid, local, sockVars, faults,
                 seeded, fed, late, early, cut>>

\* An invalid book counts its deltas and retries every hundredth.
SkipUpdate(s) ==
  /\ frame[s] = "update" /\ s \in invalid
  /\ dropped' = [dropped EXCEPT ![s] = (@ + 1) % ResubEvery]
  /\ IF dropped'[s] = 0 THEN Request(s) ELSE UNCHANGED rec
  /\ LetGo(s)
  /\ UNCHANGED <<bootVars, ready, pending, stale, invalid, local, sockVars, faults,
                 seeded, fed, late, early, cut>>

ClearPending(s) ==
  /\ frame[s] = "accepted"
  /\ pending' = pending \ {s}
  /\ Hold(s, "cleared")
  /\ UNCHANGED <<bootVars, ready, stale, invalid, dropped, local, rec, sockVars, faults,
                 histVars>>

\* Mutant of Announce: one snapshot makes the book owner READY.
AnnounceFirst(s) ==
  /\ frame[s] = "cleared"
  /\ ready' = TRUE
  /\ LetGo(s)
  /\ UNCHANGED <<bootVars, pending, stale, invalid, dropped, local, rec, sockVars, faults,
                 seeded, fed, late, early, cut>>

\* READY once nothing is pending and nothing is stale; never withdrawn.
Announce(s) ==
  /\ frame[s] = "cleared"
  /\ ready' = (ready \/ (pending = {} /\ stale = {}))
  /\ LetGo(s)
  /\ UNCHANGED <<bootVars, pending, stale, invalid, dropped, local, rec, sockVars, faults,
                 seeded, fed, late, early, cut>>

-----------------------------------------------------------------------------
(* ResubscribeLevel3, in the goroutine of a recovery.                      *)

Goto(s, label) == rec' = [rec EXCEPT ![s] = label]

RecUnsub(s) ==
  /\ rec[s] = "unsub" /\ Live(s)
  /\ venue' = [venue EXCEPT ![s] = "off"]
  /\ Goto(s, "sub")
  /\ UNCHANGED <<bootVars, bookVars, frame, up, marking, hook, closing, faults, histVars>>

RecSub(s) ==
  /\ rec[s] = "sub" /\ Live(s)
  /\ Subscribed(s)
  /\ Goto(s, "done")
  /\ UNCHANGED <<bootVars, bookVars, frame, up, marking, hook, closing, faults, histVars>>

\* A write on a lost socket fails, and so may one on a live socket.
RecFails(s) ==
  /\ rec[s] \in {"unsub", "sub"}
  /\ \/ ~ Live(s) /\ UNCHANGED <<faults, cut>>
     \/ /\ Refuses /\ Live(s) /\ Fault
        /\ cut' = IF rec[s] = "sub" THEN cut \cup {s} ELSE cut
  /\ Goto(s, "done")
  /\ UNCHANGED <<bootVars, bookVars, frame, sockVars, seeded, fed, dead, late, early>>

RecDone(s) ==
  /\ rec[s] = "done"
  /\ Goto(s, "none")
  /\ UNCHANGED <<bootVars, bookVars, frame, sockVars, faults, histVars>>

-----------------------------------------------------------------------------
(* The socket: SoftDown, redial, and the two hooks of SubscribeBooks.      *)

\* What closing a connection does to everything that came over it.
Lost(k) ==
  /\ up' = up \ {k}
  /\ venue' = [s \in Symbols |-> IF Batch[s] = k THEN "off" ELSE venue[s]]
  /\ hook' = hook \ On(k)
  /\ closing' = closing \ {k}
  /\ fed' = fed \ On(k)
  /\ cut' = cut \ On(k)
  /\ dead' = dead \cup {s \in On(k) : frame[s] # "none"}

\* Mutant of Drop: the disconnect hook is not called.
DropUnmarked(k) ==
  /\ k \in up /\ Fault
  /\ Lost(k)
  /\ early' = IF stage[k] # "hooked" /\ On(k) \cap written # {} THEN early \cup {k} ELSE early
  /\ UNCHANGED <<bootVars, bookVars, frame, rec, marking, seeded, late>>

\* SoftDown by the reader, a writer or the pinger.
Drop(k) ==
  /\ k \in up /\ Fault
  /\ Lost(k)
  /\ marking' = IF stage[k] \in {"watched", "hooked"} THEN marking \cup On(k) ELSE marking
  /\ early' = IF stage[k] # "hooked" /\ On(k) \cap written # {} THEN early \cup {k} ELSE early
  /\ UNCHANGED <<bootVars, bookVars, frame, rec, seeded, late>>

\* Stale stores one symbol after the other, without the book lock.
MarkStale(s) ==
  /\ s \in marking
  /\ marking' = marking \ {s}
  /\ stale' = stale \cup {s}
  /\ UNCHANGED <<bootVars, ready, pending, invalid, dropped, local, frame, rec, up, venue,
                 hook, closing, faults, histVars>>

\* ensureReady redials after the backoff; a registered hook starts.
Redial(k) ==
  /\ stage[k] # "closed" /\ k \notin up /\ On(k) \cap marking = {}
  /\ up' = up \cup {k}
  /\ hook' = IF stage[k] = "hooked" THEN hook \cup On(k) ELSE hook
  /\ UNCHANGED <<bootVars, bookVars, frame, rec, venue, marking, closing, faults, histVars>>

HookSubscribe(s) ==
  /\ s \in hook /\ Live(s)
  /\ Subscribed(s)
  /\ hook' = hook \ {s}
  /\ UNCHANGED <<bootVars, bookVars, frame, rec, up, marking, closing, faults, histVars>>

\* The hook fails: it marks the batch stale again and runHook then closes.
HookFails(k) ==
  /\ Refuses /\ k \in up /\ On(k) \cap hook # {} /\ Fault
  /\ hook' = hook \ On(k)
  /\ marking' = marking \cup On(k)
  /\ closing' = closing \cup {k}
  /\ UNCHANGED <<bootVars, bookVars, frame, rec, up, venue, histVars>>

\* runHook closes without the disconnect hook.
HookClose(k) ==
  /\ k \in closing /\ On(k) \cap marking = {}
  /\ Lost(k)
  /\ late' = late \cup (On(k) \cap fed)
  /\ UNCHANGED <<bootVars, bookVars, frame, rec, marking, faults, seeded, early>>

-----------------------------------------------------------------------------
Boot ==
  \/ \E k \in Sockets : Open(k) \/ Register(k)
  \/ \E s \in Symbols : BootSubscribe(s)
  \/ BeginWait \/ OpenFirehose \/ BootFails

Reader(s) ==
  \/ ReadSnapshot(s) \/ ReadUpdate(s)
  \/ AcceptSnapshot(s) \/ RejectSnapshot(s) \/ AbortSnapshot(s)
  \/ AcceptUpdate(s) \/ RejectUpdate(s) \/ AbortUpdate(s) \/ SkipUpdate(s)
  \/ ClearPending(s) \/ Announce(s)

Recovery(s) == RecUnsub(s) \/ RecSub(s) \/ RecFails(s) \/ RecDone(s)

Socket ==
  \/ \E k \in Sockets : Drop(k) \/ Redial(k) \/ HookFails(k) \/ HookClose(k)
  \/ \E s \in Symbols : MarkStale(s) \/ HookSubscribe(s)

Next == Boot \/ Socket \/ \E s \in Symbols : Reader(s) \/ Recovery(s)

Spec == Init /\ [][Next]_vars

\* Goroutines keep running, a dial succeeds in the end, and the venue sends a
\* snapshot per subscription and further deltas; the stream is in order, so
\* the reader comes to every frame.
Fairness ==
  /\ WF_vars(BeginWait) /\ WF_vars(OpenFirehose)
  /\ \A k \in Sockets :
       WF_vars(Open(k)) /\ WF_vars(Register(k)) /\ WF_vars(Redial(k)) /\ WF_vars(HookClose(k))
  /\ \A s \in Symbols :
       /\ WF_vars(BootSubscribe(s)) /\ WF_vars(MarkStale(s)) /\ WF_vars(HookSubscribe(s))
       /\ SF_vars(ReadSnapshot(s)) /\ SF_vars(ReadUpdate(s))
       /\ WF_vars(AcceptSnapshot(s) \/ RejectSnapshot(s))
       /\ WF_vars(AcceptUpdate(s) \/ RejectUpdate(s) \/ SkipUpdate(s))
       /\ WF_vars(ClearPending(s)) /\ WF_vars(Announce(s))
       /\ WF_vars(RecUnsub(s)) /\ WF_vars(RecSub(s)) /\ WF_vars(RecDone(s))

FairSpec == Spec /\ Fairness

-----------------------------------------------------------------------------
\* apply and Book: what a reader is given matched the venue's checksum.  It
\* holds as long as every value fits its pair: a value that does not makes
\* apply return in the middle of an entry, and the book stays readable.
ReadableIsVerified == \A s \in Symbols : Readable(s) => local[s] = "good"

\* seedBooks before openFirehose: no trade is subscribed before every symbol
\* had a snapshot accepted, whatever drops and bad frames came in between.
TradingAfterSeeding == phase = "trading" => seeded = Symbols

\* OnDisconnect and Stale: a book whose socket was lost is hidden, or about to
\* be, unless the socket was lost before its hooks were registered or a
\* snapshot of the lost connection was applied after the marking.
LostIsHidden ==
  \A s \in Symbols :
    Readable(s) /\ s \notin fed => (s \in marking \cup late \/ Batch[s] \in early)

Streams(s) == Readable(s) /\ Live(s) /\ venue[s] = "live"

\* Recovery and reconnect together: once trading, and once faults stop, every
\* book is read from a live subscription again.  Two cases escape.  A socket
\* lost before its hooks were registered is redialed without a subscribe; and
\* the retry counts deltas, of which none arrive any more once a recovery has
\* unsubscribed and was refused to subscribe again.
StreamsReturn ==
  \A s \in Symbols : phase = "trading" ~> Streams(s) \/ s \in cut \/ Batch[s] \in early
=============================================================================
