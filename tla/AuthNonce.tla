----------------------------- MODULE AuthNonce -----------------------------
(***************************************************************************)
(* The nonces that sign Kraken REST calls: kraken/nonce.go, and its only   *)
(* callers in kraken/auth.go.                                              *)
(*                                                                         *)
(* Goroutines take nonces from one shared high-water mark with a           *)
(* compare-and-swap loop and then, throttled and unordered, write what     *)
(* they took to a file.  The process may crash at any point; the next one  *)
(* seeds its mark from the wall clock and from the file.                   *)
(*                                                                         *)
(* The throttle depends on times and on the value modulo 128, so whether a *)
(* value passes it is left open.  A file is written by rename: all of it   *)
(* or nothing survives a crash.                                            *)
(***************************************************************************)
EXTENDS Integers

CONSTANTS
  Signers,     \* goroutines that sign private calls
  MaxClock,    \* bound: wall clock readings
  MaxNonce,    \* bound: no nonce is asked for once the mark is there
  MaxCrashes,  \* bound: crashes of the process
  StepsBack,   \* the wall clock may be set back, once
  DiskFails    \* writing the file may fail

ASSUME BoundsAssumption ==
  MaxClock \in Nat /\ MaxNonce \in Nat /\ MaxCrashes \in Nat
ASSUME SwitchAssumption == StepsBack \in BOOLEAN /\ DiskFails \in BOOLEAN

VARIABLES
  clock,       \* wall clock
  running,     \* a process is up and its generator is built
  highWater, isPersisting, persistErr,
  disk,        \* the file, 0 when missing
  pc, last, next,   \* per goroutine: Next and persistValue
  crashes,
  top,         \* history: largest nonce ever taken for the API key
  steppedBack, \* history: the clock was set back
  reused       \* history: a nonce was taken that is not above all earlier ones

procVars == <<running, highWater, isPersisting, persistErr, pc, last, next>>
histVars == <<top, steppedBack, reused>>
vars == <<clock, procVars, disk, crashes, histVars>>

Larger(m, n) == IF m > n THEN m ELSE n
Goto(t, label) == pc' = [pc EXCEPT ![t] = label]

Labels == {"idle", "load", "cas", "throttle", "claim", "write", "release"}

TypeOK ==
  /\ clock \in Nat /\ highWater \in Nat /\ disk \in Nat /\ top \in Nat
  /\ crashes \in Nat
  /\ running \in BOOLEAN /\ isPersisting \in BOOLEAN /\ persistErr \in BOOLEAN
  /\ steppedBack \in BOOLEAN /\ reused \in BOOLEAN
  /\ pc \in [Signers -> Labels]
  /\ last \in [Signers -> Nat] /\ next \in [Signers -> Nat]

Init ==
  /\ clock = 1 /\ disk = 0 /\ top = 0 /\ crashes = 0
  /\ running = FALSE /\ highWater = 0
  /\ isPersisting = FALSE /\ persistErr = FALSE
  /\ steppedBack = FALSE /\ reused = FALSE
  /\ pc = [t \in Signers |-> "idle"]
  /\ last = [t \in Signers |-> 0] /\ next = [t \in Signers |-> 0]

\* Mutant of Start: the file is not consulted.
StartFromClock ==
  /\ ~ running
  /\ crashes > 0 /\ ~ steppedBack => clock > top
  /\ running' = TRUE
  /\ highWater' = clock - 1
  /\ UNCHANGED <<clock, isPersisting, persistErr, pc, last, next, disk, crashes, histVars>>

\* Mutant of Start: the mark is taken one too low.
StartTooLow ==
  /\ ~ running
  /\ crashes > 0 /\ ~ steppedBack => clock > top
  /\ running' = TRUE
  /\ highWater' = Larger(clock, disk + 1) - 2
  /\ UNCHANGED <<clock, isPersisting, persistErr, pc, last, next, disk, crashes, histVars>>

\* NewAuthNonce: the mark is one below the seed, which is above the file.
\* A process takes longer to come up than the nonces its predecessor took
\* ahead of the clock, unless the clock itself was set back.
Start ==
  /\ ~ running
  /\ crashes > 0 /\ ~ steppedBack => clock > top
  /\ running' = TRUE
  /\ highWater' = Larger(clock, disk + 1) - 1
  /\ UNCHANGED <<clock, isPersisting, persistErr, pc, last, next, disk, crashes, histVars>>

\* SignPrivate and NewAuthenticatedREST refuse once a write has failed.
Sign(t) ==
  /\ running /\ pc[t] = "idle"
  /\ ~ persistErr
  /\ highWater < MaxNonce
  /\ Goto(t, "load")
  /\ UNCHANGED <<clock, running, highWater, isPersisting, persistErr, last, next,
                 disk, crashes, histVars>>

\* Mutant of Load: the clock alone gives the nonce.
LoadClock(t) ==
  /\ pc[t] = "load"
  /\ last' = [last EXCEPT ![t] = highWater]
  /\ next' = [next EXCEPT ![t] = clock]
  /\ Goto(t, "cas")
  /\ UNCHANGED <<clock, running, highWater, isPersisting, persistErr, disk, crashes, histVars>>

Load(t) ==
  /\ pc[t] = "load"
  /\ last' = [last EXCEPT ![t] = highWater]
  /\ next' = [next EXCEPT ![t] = Larger(clock, highWater + 1)]
  /\ Goto(t, "cas")
  /\ UNCHANGED <<clock, running, highWater, isPersisting, persistErr, disk, crashes, histVars>>

\* The swap succeeds: the nonce is taken.
Swap(t) ==
  /\ pc[t] = "cas" /\ highWater = last[t]
  /\ highWater' = next[t]
  /\ top' = Larger(top, next[t])
  /\ reused' = (reused \/ next[t] <= top)
  /\ Goto(t, "throttle")
  /\ UNCHANGED <<clock, running, isPersisting, persistErr, last, next, disk, crashes, steppedBack>>

\* Another goroutine was faster.
SwapFails(t) ==
  /\ pc[t] = "cas" /\ highWater # last[t]
  /\ Goto(t, "load")
  /\ UNCHANGED <<clock, running, highWater, isPersisting, persistErr, last, next,
                 disk, crashes, histVars>>

\* persistValue: within 50 ms of the last write, or on to claiming the file.
Throttle(t) ==
  /\ pc[t] = "throttle"
  /\ Goto(t, "idle") \/ Goto(t, "claim")
  /\ UNCHANGED <<clock, running, highWater, isPersisting, persistErr, last, next,
                 disk, crashes, histVars>>

Claim(t) ==
  /\ pc[t] = "claim"
  /\ isPersisting' = TRUE
  /\ Goto(t, IF isPersisting THEN "idle" ELSE "write")
  /\ UNCHANGED <<clock, running, highWater, persistErr, last, next, disk, crashes, histVars>>

\* writeAtomic renames the new file into place.
Write(t) ==
  /\ pc[t] = "write"
  /\ disk' = next[t]
  /\ Goto(t, "release")
  /\ UNCHANGED <<clock, running, highWater, isPersisting, persistErr, last, next, crashes, histVars>>

WriteFails(t) ==
  /\ DiskFails /\ pc[t] = "write"
  /\ persistErr' = TRUE
  /\ Goto(t, "release")
  /\ UNCHANGED <<clock, running, highWater, isPersisting, last, next, disk, crashes, histVars>>

Release(t) ==
  /\ pc[t] = "release"
  /\ isPersisting' = FALSE
  /\ Goto(t, "idle")
  /\ UNCHANGED <<clock, running, highWater, persistErr, last, next, disk, crashes, histVars>>

-----------------------------------------------------------------------------
(* Environment.                                                            *)

Tick ==
  /\ clock < MaxClock
  /\ clock' = clock + 1
  /\ UNCHANGED <<procVars, disk, crashes, histVars>>

SetBack ==
  /\ StepsBack /\ ~ steppedBack /\ clock > 1
  /\ \E c \in 1 .. clock - 1 : clock' = c
  /\ steppedBack' = TRUE
  /\ UNCHANGED <<procVars, disk, crashes, top, reused>>

Crash ==
  /\ running /\ crashes < MaxCrashes
  /\ crashes' = crashes + 1
  /\ running' = FALSE /\ highWater' = 0
  /\ isPersisting' = FALSE /\ persistErr' = FALSE
  /\ pc' = [t \in Signers |-> "idle"]
  /\ last' = [t \in Signers |-> 0] /\ next' = [t \in Signers |-> 0]
  /\ UNCHANGED <<clock, disk, histVars>>

Next ==
  \/ Start
  \/ \E t \in Signers :
       \/ Sign(t) \/ Load(t) \/ Swap(t) \/ SwapFails(t)
       \/ Throttle(t) \/ Claim(t) \/ Write(t) \/ WriteFails(t) \/ Release(t)
  \/ Tick \/ SetBack \/ Crash

Spec == Init /\ [][Next]_vars

-----------------------------------------------------------------------------
\* Next: a nonce is above every nonce ever taken for the key, over concurrent
\* goroutines and restarts.  Only a restart after the clock was set back
\* escapes: the file may lag behind what was taken.
IncreasingUnlessRewound == reused => steppedBack /\ crashes > 0

\* A process never works below the file, its own or the one it found: what
\* any goroutine writes, in whatever order, was covered by the mark.
MarkCoversDisk == running => highWater >= disk
=============================================================================
