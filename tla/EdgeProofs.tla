----------------------------- MODULE EdgeProofs -----------------------------
(***************************************************************************)
(* Proofs about the edges of the desk (Edges) for any values of its        *)
(* parameters: the nonces (AuthNonce), the reconnecting client (Socket),   *)
(* the dashboard hub (Hub) in both its parts and what the dashboard makes  *)
(* of the lots (DeskView).                                                 *)
(***************************************************************************)
EXTENDS Edges, OrderProofs

-----------------------------------------------------------------------------
(* The client. *)

CallPlaces ==
  {"idle", "wait", "close", "dial", "assign", "ready", "hook", "send",
   "refused", "refusedStatus", "use", "busy", "down", "downStatus", "ping"}

Calls == [at : CallPlaces, mine : Nat, nest : Nat, ret : {"idle", "refused"},
          after : SUBSET Client!Procs]

CallsOK == call \in [Client!Procs -> Calls]

Numbers == dialled \in Nat /\ dials \in Nat

\* Only a goroutine that redials is inside of a hook.
Outside(k) ==
  \/ k.at \in {"idle", "use", "busy", "ping"}
  \/ k.at \in {"down", "downStatus"} /\ k.ret = "idle"

NestIsRedial == \A p \in Client!Procs : Outside(call[p]) => call[p].nest = 0

\* A goroutine that will still write the subscribe frame to the connection of
\* that moment, or close it.
WillHook(k) ==
  \/ k.at \in {"ready", "hook", "send", "refused"}
  \/ k.nest > 0
  \/ k.at \in {"down", "downStatus"} /\ k.ret = "refused"

\* A connection without subscription has someone who will see to it.
Attended ==
  dialled # Client!None /\ dialled \notin hooked => \E c \in Callers : WillHook(call[c])

ClientInv == CallsOK /\ Numbers /\ NestIsRedial /\ Attended

\* One goroutine p moves to r: the invariant is kept if p stays responsible
\* for the connection when it was, if it is responsible now, or if the
\* connection is gone or subscribed (the three ways out of runHook).
LEMMA ClientMoves ==
  ASSUME ClientInv, NEW p \in Client!Procs, NEW r \in Calls,
         call' = [call EXCEPT ![p] = r], Numbers',
         Outside(r) => r.nest = 0,
         \/ dialled' = Client!None
         \/ dialled' \in hooked'
         \/ dialled' = dialled /\ hooked' = hooked /\ (WillHook(call[p]) => WillHook(r))
         \/ p \in Callers /\ WillHook(r)
  PROVE  ClientInv'
<1>1. CallsOK'
  BY DEF ClientInv, CallsOK
<1>2. call'[p] = r /\ \A q \in Client!Procs \ {p} : call'[q] = call[q]
  BY DEF ClientInv, CallsOK
<1>3. NestIsRedial'
  BY <1>2 DEF ClientInv, NestIsRedial
<1>4. Attended'
  <2>1. CASE dialled' = dialled /\ hooked' = hooked /\ (WillHook(call[p]) => WillHook(r))
    BY <1>2, <2>1 DEF ClientInv, Attended, Client!Procs
  <2>2. CASE p \in Callers /\ WillHook(r)
    BY <1>2, <2>2 DEF Attended
  <2> QED
    BY <2>1, <2>2 DEF Attended
<1> QED
  BY <1>1, <1>3, <1>4 DEF ClientInv

\* A step that moves no goroutine and leaves the client alone.
LEMMA ClientStill ==
  ASSUME ClientInv, call' = call, dialled' = dialled, dials' = dials, hooked' = hooked
  PROVE  ClientInv'
  BY DEF ClientInv, CallsOK, Numbers, NestIsRedial, Attended

\* Every action keeps the invariant: a goroutine stops being responsible for
\* the connection only in HookWrites, which subscribes it, and in
\* RunHookFails, which closes it.
LEMMA ClientStep == ClientInv /\ [Client!Next]_(Client!vars) => ClientInv'
<1> SUFFICES ASSUME ClientInv, [Client!Next]_(Client!vars) PROVE ClientInv'
  OBVIOUS
<1>0. /\ call \in [Client!Procs -> Calls] /\ NestIsRedial
      /\ Callers \subseteq Client!Procs /\ Pinger \in Client!Procs
      /\ dialled \in Nat /\ dials \in Nat /\ dials + 1 \in Nat
  BY DEF ClientInv, CallsOK, Numbers, Client!Procs
<1>a. ASSUME NEW p \in Client!Procs
      PROVE  /\ call[p] \in Calls
             /\ Outside(call[p]) => call[p].nest = 0
             /\ call[p].nest + 1 \in Nat
             /\ call[p].nest # 0 => call[p].nest - 1 \in Nat
  <2>1. call[p] \in Calls /\ (Outside(call[p]) => call[p].nest = 0)
    BY <1>0 DEF NestIsRedial
  <2>2. call[p].nest \in Nat
    BY <2>1 DEF Calls
  <2> QED
    BY <2>1, <2>2
<1>b. Client!Idle \in Calls /\ Outside(Client!Idle) /\ Client!Idle.nest = 0
  BY DEF Client!Idle, Calls, CallPlaces, Outside, Client!None
<1>c. Client!Dropping \in SUBSET Client!Procs
  BY DEF Client!Dropping
<1>1. ASSUME NEW c \in Callers, Client!Call(c) PROVE ClientInv'
  <2>1. CASE Client!Up
    <3> DEFINE r == [Client!Idle EXCEPT !.at = "use"]
    <3>1. call' = [call EXCEPT ![c] = r]
      BY <1>1, <1>0, <2>1 DEF Client!Call
    <3>2. r \in Calls /\ (Outside(r) => r.nest = 0)
      BY <1>1, <1>0, <1>a, <1>b, <1>c, <2>1 DEF Client!Call, Client!At, Calls, CallPlaces,
         Outside, Client!Idle, Client!Waiting, Client!None
    <3>3. WillHook(call[c]) => WillHook(r)
      BY <1>1, <1>0, <1>a, <1>b, <2>1 DEF Client!Call, Client!At, Calls, WillHook,
         Outside, Client!Idle, Client!Waiting, Client!None
    <3>4. Numbers'
      BY <1>1, <1>0, <1>a DEF Client!Call, Numbers, Client!Closing, Client!None, Calls
    <3> HIDE DEF r
    <3> QED
      BY <1>1, <1>0, <3>1, <3>2, <3>3, <3>4, ClientMoves DEF Client!Call
  <2>2. CASE ~Client!Up
    <3> DEFINE r == Client!Waiting(c, 0)
    <3>1. call' = [call EXCEPT ![c] = r]
      BY <1>1, <1>0, <2>2 DEF Client!Call
    <3>2. r \in Calls /\ (Outside(r) => r.nest = 0)
      BY <1>1, <1>0, <1>a, <1>b, <1>c, <2>2 DEF Client!Call, Client!At, Calls, CallPlaces,
         Outside, Client!Idle, Client!Waiting, Client!None
    <3>3. WillHook(call[c]) => WillHook(r)
      BY <1>1, <1>0, <1>a, <1>b, <2>2 DEF Client!Call, Client!At, Calls, WillHook,
         Outside, Client!Idle, Client!Waiting, Client!None
    <3>4. Numbers'
      BY <1>1, <1>0, <1>a DEF Client!Call, Numbers, Client!Closing, Client!None, Calls
    <3> HIDE DEF r
    <3> QED
      BY <1>1, <1>0, <3>1, <3>2, <3>3, <3>4, ClientMoves DEF Client!Call
  <2> QED
    BY <2>1, <2>2
<1>2. ASSUME NEW c \in Callers, Client!HookCall(c) PROVE ClientInv'
  <2>1. CASE Client!Up
    <3> DEFINE r == [call[c] EXCEPT !.at = "send"]
    <3>1. call' = [call EXCEPT ![c] = r]
      BY <1>2, <1>0, <2>1 DEF Client!HookCall, Client!Goto
    <3>2. r \in Calls /\ (Outside(r) => r.nest = 0)
      BY <1>2, <1>0, <1>a, <1>b, <1>c, <2>1 DEF Client!HookCall, Client!At, Calls,
         CallPlaces, Outside, Client!Waiting
    <3>3. WillHook(call[c]) => WillHook(r)
      BY <1>2, <1>0, <1>a, <1>b, <2>1 DEF Client!HookCall, Client!At, Calls, WillHook,
         Outside, Client!Waiting
    <3>4. Numbers'
      BY <1>2, <1>0, <1>a DEF Client!HookCall, Numbers, Client!Closing, Client!None, Calls
    <3> HIDE DEF r
    <3> QED
      BY <1>2, <1>0, <3>1, <3>2, <3>3, <3>4, ClientMoves DEF Client!HookCall
  <2>2. CASE ~Client!Up
    <3> DEFINE r == Client!Waiting(c, call[c].nest + 1)
    <3>1. call' = [call EXCEPT ![c] = r]
      BY <1>2, <1>0, <2>2 DEF Client!HookCall, Client!Goto
    <3>2. r \in Calls /\ (Outside(r) => r.nest = 0)
      BY <1>2, <1>0, <1>a, <1>b, <1>c, <2>2 DEF Client!HookCall, Client!At, Calls,
         CallPlaces, Outside, Client!Waiting
    <3>3. WillHook(call[c]) => WillHook(r)
      BY <1>2, <1>0, <1>a, <1>b, <2>2 DEF Client!HookCall, Client!At, Calls, WillHook,
         Outside, Client!Waiting
    <3>4. Numbers'
      BY <1>2, <1>0, <1>a DEF Client!HookCall, Numbers, Client!Closing, Client!None, Calls
    <3> HIDE DEF r
    <3> QED
      BY <1>2, <1>0, <3>1, <3>2, <3>3, <3>4, ClientMoves DEF Client!HookCall
  <2> QED
    BY <2>1, <2>2
<1>3. ASSUME NEW c \in Callers, Client!WaitEnds(c) PROVE ClientInv'
  <2>1. CASE ~Client!Up
    <3> DEFINE r == [call[c] EXCEPT !.at = "close", !.after = {}]
    <3>1. call' = [call EXCEPT ![c] = r]
      BY <1>3, <1>0, <2>1 DEF Client!WaitEnds, Client!Ready
    <3>2. r \in Calls /\ (Outside(r) => r.nest = 0)
      BY <1>3, <1>0, <1>a, <1>b, <1>c, <2>1 DEF Client!WaitEnds, Client!At, Calls,
         CallPlaces, Outside
    <3>3. WillHook(call[c]) => WillHook(r)
      BY <1>3, <1>0, <1>a, <1>b, <2>1 DEF Client!WaitEnds, Client!At, Calls, WillHook,
         Outside
    <3>4. Numbers'
      BY <1>3, <1>0, <1>a DEF Client!WaitEnds, Numbers, Client!Closing, Client!None, Calls
    <3> HIDE DEF r
    <3> QED
      BY <1>3, <1>0, <3>1, <3>2, <3>3, <3>4, ClientMoves DEF Client!WaitEnds
  <2>2. CASE Client!Up /\ call[c].nest = 0
    <3> DEFINE r == [call[c] EXCEPT !.at = "use", !.after = {}]
    <3>1. call' = [call EXCEPT ![c] = r]
      BY <1>3, <1>0, <2>2 DEF Client!WaitEnds, Client!Ready
    <3>2. r \in Calls /\ (Outside(r) => r.nest = 0)
      BY <1>3, <1>0, <1>a, <1>b, <1>c, <2>2 DEF Client!WaitEnds, Client!At, Calls,
         CallPlaces, Outside
    <3>3. WillHook(call[c]) => WillHook(r)
      BY <1>3, <1>0, <1>a, <1>b, <2>2 DEF Client!WaitEnds, Client!At, Calls, WillHook,
         Outside
    <3>4. Numbers'
      BY <1>3, <1>0, <1>a DEF Client!WaitEnds, Numbers, Client!Closing, Client!None, Calls
    <3> HIDE DEF r
    <3> QED
      BY <1>3, <1>0, <3>1, <3>2, <3>3, <3>4, ClientMoves DEF Client!WaitEnds
  <2>3. CASE Client!Up /\ call[c].nest # 0
    <3> DEFINE r == [call[c] EXCEPT !.at = "send", !.nest = call[c].nest - 1, !.after = {}]
    <3>1. call' = [call EXCEPT ![c] = r]
      BY <1>3, <1>0, <2>3 DEF Client!WaitEnds, Client!Ready
    <3>2. r \in Calls /\ (Outside(r) => r.nest = 0)
      BY <1>3, <1>0, <1>a, <1>b, <1>c, <2>3 DEF Client!WaitEnds, Client!At, Calls,
         CallPlaces, Outside
    <3>3. WillHook(call[c]) => WillHook(r)
      BY <1>3, <1>0, <1>a, <1>b, <2>3 DEF Client!WaitEnds, Client!At, Calls, WillHook,
         Outside
    <3>4. Numbers'
      BY <1>3, <1>0, <1>a DEF Client!WaitEnds, Numbers, Client!Closing, Client!None, Calls
    <3> HIDE DEF r
    <3> QED
      BY <1>3, <1>0, <3>1, <3>2, <3>3, <3>4, ClientMoves DEF Client!WaitEnds
  <2> QED
    BY <2>1, <2>2, <2>3
<1>4. ASSUME NEW c \in Callers, Client!DialCloses(c) PROVE ClientInv'
  <2> DEFINE r == [call[c] EXCEPT !.at = "dial"]
  <2>1. call' = [call EXCEPT ![c] = r]
    BY <1>4, <1>0 DEF Client!DialCloses, Client!Goto
  <2>2. r \in Calls /\ (Outside(r) => r.nest = 0)
    BY <1>4, <1>0, <1>a, <1>b, <1>c DEF Client!DialCloses, Client!At, Calls, CallPlaces,
       Outside
  <2>3. dialled' = Client!None
    BY <1>4 DEF Client!DialCloses, Client!Closing
  <2>4. Numbers'
    BY <1>4, <1>0, <1>a DEF Client!DialCloses, Numbers, Client!Closing, Client!None, Calls
  <2> HIDE DEF r
  <2> QED
    BY <1>4, <1>0, <2>1, <2>2, <2>3, <2>4, ClientMoves DEF Client!DialCloses
<1>5. ASSUME NEW c \in Callers, Client!Dial(c) PROVE ClientInv'
  <2> DEFINE r == [call[c] EXCEPT !.at = "assign", !.mine = dials + 1]
  <2>1. call' = [call EXCEPT ![c] = r]
    BY <1>5, <1>0 DEF Client!Dial
  <2>2. r \in Calls /\ (Outside(r) => r.nest = 0)
    BY <1>5, <1>0, <1>a, <1>b, <1>c DEF Client!Dial, Client!At, Calls, CallPlaces, Outside
  <2>3. WillHook(call[c]) => WillHook(r)
    BY <1>5, <1>0, <1>a, <1>b DEF Client!Dial, Client!At, Calls, WillHook, Outside
  <2>4. Numbers'
    BY <1>5, <1>0, <1>a DEF Client!Dial, Numbers, Client!Closing, Client!None, Calls
  <2> HIDE DEF r
  <2> QED
    BY <1>5, <1>0, <2>1, <2>2, <2>3, <2>4, ClientMoves DEF Client!Dial
<1>6. ASSUME NEW c \in Callers, Client!Assign(c) PROVE ClientInv'
  <2> DEFINE r == [call[c] EXCEPT !.at = "ready"]
  <2>1. call' = [call EXCEPT ![c] = r]
    BY <1>6, <1>0 DEF Client!Assign, Client!Goto
  <2>2. r \in Calls /\ (Outside(r) => r.nest = 0)
    BY <1>6, <1>0, <1>a, <1>b, <1>c DEF Client!Assign, Client!At, Calls, CallPlaces, Outside
  <2>3. WillHook(r)
    BY <1>6, <1>0, <1>a, <1>b DEF Client!Assign, Client!At, Calls, WillHook, Outside
  <2>4. Numbers'
    BY <1>6, <1>0, <1>a DEF Client!Assign, Numbers, Client!Closing, Client!None, Calls
  <2> HIDE DEF r
  <2> QED
    BY <1>6, <1>0, <2>1, <2>2, <2>3, <2>4, ClientMoves DEF Client!Assign
<1>7. ASSUME NEW c \in Callers, Client!SetReady(c) PROVE ClientInv'
  <2> DEFINE r == [call[c] EXCEPT !.at = "hook"]
  <2>1. call' = [call EXCEPT ![c] = r]
    BY <1>7, <1>0 DEF Client!SetReady, Client!Goto
  <2>2. r \in Calls /\ (Outside(r) => r.nest = 0)
    BY <1>7, <1>0, <1>a, <1>b, <1>c DEF Client!SetReady, Client!At, Calls, CallPlaces,
       Outside
  <2>3. WillHook(r)
    BY <1>7, <1>0, <1>a, <1>b DEF Client!SetReady, Client!At, Calls, WillHook, Outside
  <2>4. Numbers'
    BY <1>7, <1>0, <1>a DEF Client!SetReady, Numbers, Client!Closing, Client!None, Calls
  <2> HIDE DEF r
  <2> QED
    BY <1>7, <1>0, <2>1, <2>2, <2>3, <2>4, ClientMoves DEF Client!SetReady
<1>8. ASSUME NEW c \in Callers, Client!HookWrites(c) PROVE ClientInv'
  <2>1. CASE call[c].nest = 0
    <3> DEFINE r == [call[c] EXCEPT !.at = "use"]
    <3>1. call' = [call EXCEPT ![c] = r]
      BY <1>8, <1>0, <2>1 DEF Client!HookWrites, Client!Ready
    <3>2. r \in Calls /\ (Outside(r) => r.nest = 0)
      BY <1>8, <1>0, <1>a, <1>b, <1>c, <2>1 DEF Client!HookWrites, Client!At, Calls,
         CallPlaces, Outside
    <3>3. dialled' \in hooked'
      BY <1>8 DEF Client!HookWrites
    <3>4. Numbers'
      BY <1>8, <1>0, <1>a DEF Client!HookWrites, Numbers, Client!Closing, Client!None, Calls
    <3> HIDE DEF r
    <3> QED
      BY <1>8, <1>0, <3>1, <3>2, <3>3, <3>4, ClientMoves DEF Client!HookWrites
  <2>2. CASE call[c].nest # 0
    <3> DEFINE r == [call[c] EXCEPT !.at = "send", !.nest = call[c].nest - 1]
    <3>1. call' = [call EXCEPT ![c] = r]
      BY <1>8, <1>0, <2>2 DEF Client!HookWrites, Client!Ready
    <3>2. r \in Calls /\ (Outside(r) => r.nest = 0)
      BY <1>8, <1>0, <1>a, <1>b, <1>c, <2>2 DEF Client!HookWrites, Client!At, Calls,
         CallPlaces, Outside
    <3>3. dialled' \in hooked'
      BY <1>8 DEF Client!HookWrites
    <3>4. Numbers'
      BY <1>8, <1>0, <1>a DEF Client!HookWrites, Numbers, Client!Closing, Client!None, Calls
    <3> HIDE DEF r
    <3> QED
      BY <1>8, <1>0, <3>1, <3>2, <3>3, <3>4, ClientMoves DEF Client!HookWrites
  <2> QED
    BY <2>1, <2>2
<1>9. ASSUME NEW c \in Callers, Client!HookWriteFails(c) PROVE ClientInv'
  <2> DEFINE r == [call[c] EXCEPT !.at = "down", !.ret = "refused"]
  <2>1. call' = [call EXCEPT ![c] = r]
    BY <1>9, <1>0 DEF Client!HookWriteFails, Client!Down
  <2>2. r \in Calls /\ (Outside(r) => r.nest = 0)
    BY <1>9, <1>0, <1>a, <1>b, <1>c DEF Client!HookWriteFails, Client!At, Calls,
       CallPlaces, Outside
  <2>3. WillHook(r)
    BY <1>9, <1>0, <1>a, <1>b DEF Client!HookWriteFails, Client!At, Calls, WillHook, Outside
  <2>4. Numbers'
    BY <1>9, <1>0, <1>a DEF Client!HookWriteFails, Numbers, Client!Closing, Client!None,
       Calls
  <2> HIDE DEF r
  <2> QED
    BY <1>9, <1>0, <2>1, <2>2, <2>3, <2>4, ClientMoves DEF Client!HookWriteFails
<1>10. ASSUME NEW c \in Callers, Client!RunHookFails(c) PROVE ClientInv'
  <2> DEFINE r == [call[c] EXCEPT !.at = "refusedStatus"]
  <2>1. call' = [call EXCEPT ![c] = r]
    BY <1>10, <1>0 DEF Client!RunHookFails, Client!Goto
  <2>2. r \in Calls /\ (Outside(r) => r.nest = 0)
    BY <1>10, <1>0, <1>a, <1>b, <1>c DEF Client!RunHookFails, Client!At, Calls,
       CallPlaces, Outside
  <2>3. dialled' = Client!None
    BY <1>10 DEF Client!RunHookFails, Client!Closing
  <2>4. Numbers'
    BY <1>10, <1>0, <1>a DEF Client!RunHookFails, Numbers, Client!Closing, Client!None,
       Calls
  <2> HIDE DEF r
  <2> QED
    BY <1>10, <1>0, <2>1, <2>2, <2>3, <2>4, ClientMoves DEF Client!RunHookFails
<1>11. ASSUME NEW c \in Callers, Client!HookStatus(c) PROVE ClientInv'
  <2>1. CASE call[c].nest = 0
    <3> DEFINE r == Client!Idle
    <3>1. call' = [call EXCEPT ![c] = r]
      BY <1>11, <1>0, <2>1 DEF Client!HookStatus, Client!Failed
    <3>2. r \in Calls /\ (Outside(r) => r.nest = 0)
      BY <1>11, <1>0, <1>a, <1>b, <1>c, <2>1 DEF Client!HookStatus, Client!At, Calls,
         CallPlaces, Outside, Client!Idle
    <3>3. WillHook(call[c]) => WillHook(r)
      BY <1>11, <1>0, <1>a, <1>b, <2>1 DEF Client!HookStatus, Client!At, Calls, WillHook,
         Outside, Client!Idle
    <3>4. Numbers'
      BY <1>11, <1>0, <1>a DEF Client!HookStatus, Numbers, Client!Closing, Client!None,
         Calls
    <3> HIDE DEF r
    <3> QED
      BY <1>11, <1>0, <3>1, <3>2, <3>3, <3>4, ClientMoves DEF Client!HookStatus
  <2>2. CASE call[c].nest # 0
    <3> DEFINE r == [call[c] EXCEPT !.at = "refused", !.nest = call[c].nest - 1]
    <3>1. call' = [call EXCEPT ![c] = r]
      BY <1>11, <1>0, <2>2 DEF Client!HookStatus, Client!Failed
    <3>2. r \in Calls /\ (Outside(r) => r.nest = 0)
      BY <1>11, <1>0, <1>a, <1>b, <1>c, <2>2 DEF Client!HookStatus, Client!At, Calls,
         CallPlaces, Outside, Client!Idle
    <3>3. WillHook(call[c]) => WillHook(r)
      BY <1>11, <1>0, <1>a, <1>b, <2>2 DEF Client!HookStatus, Client!At, Calls, WillHook,
         Outside, Client!Idle
    <3>4. Numbers'
      BY <1>11, <1>0, <1>a DEF Client!HookStatus, Numbers, Client!Closing, Client!None,
         Calls
    <3> HIDE DEF r
    <3> QED
      BY <1>11, <1>0, <3>1, <3>2, <3>3, <3>4, ClientMoves DEF Client!HookStatus
  <2> QED
    BY <2>1, <2>2
<1>12. ASSUME NEW c \in Callers, Client!Use(c) PROVE ClientInv'
  <2>1. CASE dialled = Client!None
    <3> DEFINE r == [call[c] EXCEPT !.at = "down", !.ret = "idle"]
    <3>1. call' = [call EXCEPT ![c] = r]
      BY <1>12, <1>0, <2>1 DEF Client!Use, Client!Down
    <3>2. r \in Calls /\ (Outside(r) => r.nest = 0)
      BY <1>12, <1>0, <1>a, <1>b, <1>c, <2>1 DEF Client!Use, Client!At, Calls, CallPlaces,
         Outside
    <3>3. WillHook(call[c]) => WillHook(r)
      BY <1>12, <1>0, <1>a, <1>b, <2>1 DEF Client!Use, Client!At, Calls, WillHook, Outside
    <3>4. Numbers'
      BY <1>12, <1>0, <1>a DEF Client!Use, Numbers, Client!Closing, Client!None, Calls
    <3> HIDE DEF r
    <3> QED
      BY <1>12, <1>0, <3>1, <3>2, <3>3, <3>4, ClientMoves DEF Client!Use
  <2>2. CASE dialled # Client!None
    <3> DEFINE r == [call[c] EXCEPT !.at = "busy", !.mine = dialled]
    <3>1. call' = [call EXCEPT ![c] = r]
      BY <1>12, <1>0, <2>2 DEF Client!Use, Client!Down
    <3>2. r \in Calls /\ (Outside(r) => r.nest = 0)
      BY <1>12, <1>0, <1>a, <1>b, <1>c, <2>2 DEF Client!Use, Client!At, Calls, CallPlaces,
         Outside
    <3>3. WillHook(call[c]) => WillHook(r)
      BY <1>12, <1>0, <1>a, <1>b, <2>2 DEF Client!Use, Client!At, Calls, WillHook, Outside
    <3>4. Numbers'
      BY <1>12, <1>0, <1>a DEF Client!Use, Numbers, Client!Closing, Client!None, Calls
    <3> HIDE DEF r
    <3> QED
      BY <1>12, <1>0, <3>1, <3>2, <3>3, <3>4, ClientMoves DEF Client!Use
  <2> QED
    BY <2>1, <2>2
<1>13. ASSUME NEW c \in Callers, Client!Done(c) PROVE ClientInv'
  <2> DEFINE r == Client!Idle
  <2>1. call' = [call EXCEPT ![c] = r]
    BY <1>13, <1>0 DEF Client!Done
  <2>2. r \in Calls /\ (Outside(r) => r.nest = 0)
    BY <1>13, <1>0, <1>a, <1>b, <1>c DEF Client!Done, Client!At, Calls, CallPlaces,
       Outside, Client!Idle
  <2>3. WillHook(call[c]) => WillHook(r)
    BY <1>13, <1>0, <1>a, <1>b DEF Client!Done, Client!At, Calls, WillHook, Outside,
       Client!Idle
  <2>4. Numbers'
    BY <1>13, <1>0, <1>a DEF Client!Done, Numbers, Client!Closing, Client!None, Calls
  <2> HIDE DEF r
  <2> QED
    BY <1>13, <1>0, <2>1, <2>2, <2>3, <2>4, ClientMoves DEF Client!Done
<1>14. ASSUME NEW c \in Callers, Client!UseFails(c) PROVE ClientInv'
  <2> DEFINE r == [call[c] EXCEPT !.at = "down", !.ret = "idle"]
  <2>1. call' = [call EXCEPT ![c] = r]
    BY <1>14, <1>0 DEF Client!UseFails, Client!Down
  <2>2. r \in Calls /\ (Outside(r) => r.nest = 0)
    BY <1>14, <1>0, <1>a, <1>b, <1>c DEF Client!UseFails, Client!At, Calls, CallPlaces,
       Outside
  <2>3. WillHook(call[c]) => WillHook(r)
    BY <1>14, <1>0, <1>a, <1>b DEF Client!UseFails, Client!At, Calls, WillHook, Outside
  <2>4. Numbers'
    BY <1>14, <1>0, <1>a DEF Client!UseFails, Numbers, Client!Closing, Client!None, Calls
  <2> HIDE DEF r
  <2> QED
    BY <1>14, <1>0, <2>1, <2>2, <2>3, <2>4, ClientMoves DEF Client!UseFails
<1>15. ASSUME NEW c \in Callers, Client!DialFails(c) PROVE ClientInv'
  <2>1. CASE call[c].nest = 0
    <3> DEFINE r == Client!Idle
    <3>1. call' = [call EXCEPT ![c] = r]
      BY <1>15, <1>0, <2>1 DEF Client!DialFails, Client!Failed
    <3>2. r \in Calls /\ (Outside(r) => r.nest = 0)
      BY <1>15, <1>0, <1>a, <1>b, <1>c, <2>1 DEF Client!DialFails, Client!At, Calls,
         CallPlaces, Outside, Client!Idle
    <3>3. WillHook(call[c]) => WillHook(r)
      BY <1>15, <1>0, <1>a, <1>b, <2>1 DEF Client!DialFails, Client!At, Calls, WillHook,
         Outside, Client!Idle
    <3>4. Numbers'
      BY <1>15, <1>0, <1>a DEF Client!DialFails, Numbers, Client!Closing, Client!None, Calls
    <3> HIDE DEF r
    <3> QED
      BY <1>15, <1>0, <3>1, <3>2, <3>3, <3>4, ClientMoves DEF Client!DialFails
  <2>2. CASE call[c].nest # 0
    <3> DEFINE r == [call[c] EXCEPT !.at = "refused", !.nest = call[c].nest - 1]
    <3>1. call' = [call EXCEPT ![c] = r]
      BY <1>15, <1>0, <2>2 DEF Client!DialFails, Client!Failed
    <3>2. r \in Calls /\ (Outside(r) => r.nest = 0)
      BY <1>15, <1>0, <1>a, <1>b, <1>c, <2>2 DEF Client!DialFails, Client!At, Calls,
         CallPlaces, Outside, Client!Idle
    <3>3. WillHook(call[c]) => WillHook(r)
      BY <1>15, <1>0, <1>a, <1>b, <2>2 DEF Client!DialFails, Client!At, Calls, WillHook,
         Outside, Client!Idle
    <3>4. Numbers'
      BY <1>15, <1>0, <1>a DEF Client!DialFails, Numbers, Client!Closing, Client!None, Calls
    <3> HIDE DEF r
    <3> QED
      BY <1>15, <1>0, <3>1, <3>2, <3>3, <3>4, ClientMoves DEF Client!DialFails
  <2> QED
    BY <2>1, <2>2
<1>16. ASSUME NEW c \in Callers, Client!HookRefused(c) PROVE ClientInv'
  <2> DEFINE r == [call[c] EXCEPT !.at = "refused"]
  <2>1. call' = [call EXCEPT ![c] = r]
    BY <1>16, <1>0 DEF Client!HookRefused, Client!Goto
  <2>2. r \in Calls /\ (Outside(r) => r.nest = 0)
    BY <1>16, <1>0, <1>a, <1>b, <1>c DEF Client!HookRefused, Client!At, Calls, CallPlaces,
       Outside
  <2>3. WillHook(r)
    BY <1>16, <1>0, <1>a, <1>b DEF Client!HookRefused, Client!At, Calls, WillHook, Outside
  <2>4. Numbers'
    BY <1>16, <1>0, <1>a DEF Client!HookRefused, Numbers, Client!Closing, Client!None, Calls
  <2> HIDE DEF r
  <2> QED
    BY <1>16, <1>0, <2>1, <2>2, <2>3, <2>4, ClientMoves DEF Client!HookRefused
<1>17. ASSUME NEW p \in Client!Procs, Client!DownCloses(p) PROVE ClientInv'
  <2> DEFINE r == [call[p] EXCEPT !.at = "downStatus"]
  <2>1. call' = [call EXCEPT ![p] = r]
    BY <1>17, <1>0 DEF Client!DownCloses, Client!Goto
  <2>2. r \in Calls /\ (Outside(r) => r.nest = 0)
    BY <1>17, <1>0, <1>a, <1>b, <1>c DEF Client!DownCloses, Client!At, Calls, CallPlaces,
       Outside
  <2>3. dialled' = Client!None
    BY <1>17 DEF Client!DownCloses, Client!Closing
  <2>4. Numbers'
    BY <1>17, <1>0, <1>a DEF Client!DownCloses, Numbers, Client!Closing, Client!None, Calls
  <2> HIDE DEF r
  <2> QED
    BY <1>17, <1>0, <2>1, <2>2, <2>3, <2>4, ClientMoves DEF Client!DownCloses
<1>18. ASSUME NEW p \in Client!Procs, Client!DownStatus(p) PROVE ClientInv'
  <2>1. CASE call[p].ret = "idle"
    <3> DEFINE r == Client!Idle
    <3>1. call' = [call EXCEPT ![p] = r]
      BY <1>18, <1>0, <2>1 DEF Client!DownStatus
    <3>2. r \in Calls /\ (Outside(r) => r.nest = 0)
      BY <1>18, <1>0, <1>a, <1>b, <1>c, <2>1 DEF Client!DownStatus, Client!At, Calls,
         CallPlaces, Outside, Client!Idle
    <3>3. WillHook(call[p]) => WillHook(r)
      BY <1>18, <1>0, <1>a, <1>b, <2>1 DEF Client!DownStatus, Client!At, Calls, WillHook,
         Outside, Client!Idle
    <3>4. Numbers'
      BY <1>18, <1>0, <1>a DEF Client!DownStatus, Numbers, Client!Closing, Client!None,
         Calls
    <3> HIDE DEF r
    <3> QED
      BY <1>18, <1>0, <3>1, <3>2, <3>3, <3>4, ClientMoves DEF Client!DownStatus
  <2>2. CASE call[p].ret # "idle"
    <3> DEFINE r == [call[p] EXCEPT !.at = call[p].ret]
    <3>1. call' = [call EXCEPT ![p] = r]
      BY <1>18, <1>0, <2>2 DEF Client!DownStatus
    <3>2. r \in Calls /\ (Outside(r) => r.nest = 0)
      BY <1>18, <1>0, <1>a, <1>b, <1>c, <2>2 DEF Client!DownStatus, Client!At, Calls,
         CallPlaces, Outside, Client!Idle
    <3>3. WillHook(call[p]) => WillHook(r)
      BY <1>18, <1>0, <1>a, <1>b, <2>2 DEF Client!DownStatus, Client!At, Calls, WillHook,
         Outside, Client!Idle
    <3>4. Numbers'
      BY <1>18, <1>0, <1>a DEF Client!DownStatus, Numbers, Client!Closing, Client!None,
         Calls
    <3> HIDE DEF r
    <3> QED
      BY <1>18, <1>0, <3>1, <3>2, <3>3, <3>4, ClientMoves DEF Client!DownStatus
  <2> QED
    BY <2>1, <2>2
<1>19. CASE Client!PingLoads
  <2> DEFINE r == [call[Pinger] EXCEPT !.at = "ping", !.mine = dialled]
  <2>1. call' = [call EXCEPT ![Pinger] = r]
    BY <1>19, <1>0 DEF Client!PingLoads
  <2>2. r \in Calls /\ (Outside(r) => r.nest = 0)
    BY <1>19, <1>0, <1>a, <1>b, <1>c DEF Client!PingLoads, Client!At, Calls, CallPlaces,
       Outside
  <2>3. WillHook(call[Pinger]) => WillHook(r)
    BY <1>19, <1>0, <1>a, <1>b DEF Client!PingLoads, Client!At, Calls, WillHook, Outside
  <2>4. Numbers'
    BY <1>19, <1>0, <1>a DEF Client!PingLoads, Numbers, Client!Closing, Client!None, Calls
  <2> HIDE DEF r
  <2> QED
    BY <1>19, <1>0, <2>1, <2>2, <2>3, <2>4, ClientMoves DEF Client!PingLoads
<1>20. CASE Client!PingEnds
  <2>1. CASE Client!Broke(call[Pinger].mine)
    <3> DEFINE r == [call[Pinger] EXCEPT !.at = "down", !.ret = "idle"]
    <3>1. call' = [call EXCEPT ![Pinger] = r]
      BY <1>20, <1>0, <2>1 DEF Client!PingEnds, Client!Down
    <3>2. r \in Calls /\ (Outside(r) => r.nest = 0)
      BY <1>20, <1>0, <1>a, <1>b, <1>c, <2>1 DEF Client!PingEnds, Client!At, Calls,
         CallPlaces, Outside, Client!Idle
    <3>3. WillHook(call[Pinger]) => WillHook(r)
      BY <1>20, <1>0, <1>a, <1>b, <2>1 DEF Client!PingEnds, Client!At, Calls, WillHook,
         Outside, Client!Idle
    <3>4. Numbers'
      BY <1>20, <1>0, <1>a DEF Client!PingEnds, Numbers, Client!Closing, Client!None, Calls
    <3> HIDE DEF r
    <3> QED
      BY <1>20, <1>0, <3>1, <3>2, <3>3, <3>4, ClientMoves DEF Client!PingEnds
  <2>2. CASE ~Client!Broke(call[Pinger].mine)
    <3> DEFINE r == Client!Idle
    <3>1. call' = [call EXCEPT ![Pinger] = r]
      BY <1>20, <1>0, <2>2 DEF Client!PingEnds, Client!Down
    <3>2. r \in Calls /\ (Outside(r) => r.nest = 0)
      BY <1>20, <1>0, <1>a, <1>b, <1>c, <2>2 DEF Client!PingEnds, Client!At, Calls,
         CallPlaces, Outside, Client!Idle
    <3>3. WillHook(call[Pinger]) => WillHook(r)
      BY <1>20, <1>0, <1>a, <1>b, <2>2 DEF Client!PingEnds, Client!At, Calls, WillHook,
         Outside, Client!Idle
    <3>4. Numbers'
      BY <1>20, <1>0, <1>a DEF Client!PingEnds, Numbers, Client!Closing, Client!None, Calls
    <3> HIDE DEF r
    <3> QED
      BY <1>20, <1>0, <3>1, <3>2, <3>3, <3>4, ClientMoves DEF Client!PingEnds
  <2> QED
    BY <2>1, <2>2
<1>21. ASSUME NEW m \in Client!Conns, NEW quietly \in BOOLEAN, Client!Break(m, quietly)
       PROVE  ClientInv'
  BY <1>21, ClientStill DEF Client!Break
<1>22. ASSUME NEW m \in Client!Conns, Client!Keepalive(m) PROVE ClientInv'
  BY <1>22, ClientStill DEF Client!Keepalive
<1>23. CASE UNCHANGED Client!vars
  BY <1>23, ClientStill DEF Client!vars
<1> QED
  BY <1>1, <1>2, <1>3, <1>4, <1>5, <1>6, <1>7, <1>8, <1>9, <1>10, <1>11, <1>12,
     <1>13, <1>14, <1>15, <1>16, <1>17, <1>18, <1>19, <1>20, <1>21, <1>22, <1>23
  DEF Client!Next, Client!CallerNext, Client!Downing

-----------------------------------------------------------------------------
(* The nonces. *)

\* What a goroutine holds: a nonce about to be taken is above the mark it was
\* computed from, and one already taken is covered by the mark.
Held ==
  \A t \in Signers :
    /\ pc[t] # "idle" => running
    /\ pc[t] = "cas" => next[t] > last[t]
    /\ pc[t] \in {"throttle", "claim", "write", "release"} => next[t] <= highWater

\* The mark covers every nonce ever taken, as long as no process had to start
\* from a clock that was set back.
Covered == running /\ (steppedBack => crashes = 0) => highWater >= top

\* Before the first process there is neither a nonce nor a file.
Fresh == crashes = 0 /\ ~ running => top = 0 /\ disk = 0

NonceInv ==
  /\ TypeOK /\ Held /\ Covered /\ Fresh
  /\ MarkCoversDisk /\ IncreasingUnlessRewound

Booleans ==
  /\ running \in BOOLEAN /\ isPersisting \in BOOLEAN /\ persistErr \in BOOLEAN
  /\ steppedBack \in BOOLEAN /\ reused \in BOOLEAN

\* The Boolean variables keep their type in every action.
LEMMA BooleanStep == Booleans /\ [Next]_vars => Booleans'
<1> SUFFICES ASSUME Booleans, [Next]_vars PROVE Booleans'
  OBVIOUS
<1> USE DEF Booleans, Goto, procVars, histVars, Larger
<1>1. CASE Start
  BY Zenon, <1>1 DEF Start
<1>2. ASSUME NEW t \in Signers, Sign(t) PROVE Booleans'
  BY Zenon, <1>2 DEF Sign
<1>3. ASSUME NEW t \in Signers, Load(t) PROVE Booleans'
  BY Zenon, <1>3 DEF Load
<1>4. ASSUME NEW t \in Signers, Swap(t) PROVE Booleans'
  BY Zenon, <1>4 DEF Swap
<1>5. ASSUME NEW t \in Signers, SwapFails(t) PROVE Booleans'
  BY Zenon, <1>5 DEF SwapFails
<1>6. ASSUME NEW t \in Signers, Throttle(t) PROVE Booleans'
  BY Zenon, <1>6 DEF Throttle
<1>7. ASSUME NEW t \in Signers, Claim(t) PROVE Booleans'
  BY Zenon, <1>7 DEF Claim
<1>8. ASSUME NEW t \in Signers, Write(t) PROVE Booleans'
  BY Zenon, <1>8 DEF Write
<1>9. ASSUME NEW t \in Signers, WriteFails(t) PROVE Booleans'
  BY Zenon, <1>9 DEF WriteFails
<1>10. ASSUME NEW t \in Signers, Release(t) PROVE Booleans'
  BY Zenon, <1>10 DEF Release
<1>11. CASE Tick
  BY Zenon, <1>11 DEF Tick
<1>12. CASE SetBack
  BY Zenon, <1>12 DEF SetBack
<1>13. CASE Crash
  BY Zenon, <1>13 DEF Crash
<1>14. CASE UNCHANGED vars
  BY Zenon, <1>14 DEF vars
<1> QED
  BY Zenon, <1>1, <1>2, <1>3, <1>4, <1>5, <1>6, <1>7, <1>8, <1>9,
     <1>10, <1>11, <1>12, <1>13, <1>14 DEF Next

\* Every action keeps the invariant: Swap is where the mark meets the nonces
\* taken before, Start where a new process meets the file and the clock.
LEMMA NonceStep == NonceInv /\ [Next]_vars => NonceInv'
<1> SUFFICES ASSUME NonceInv, [Next]_vars PROVE NonceInv'
  OBVIOUS
<1>0. Booleans'
  BY Zenon, BooleanStep DEF NonceInv, TypeOK, Booleans
<1> USE <1>0 DEF Booleans, NonceInv, TypeOK, Held, Covered, Fresh,
                 MarkCoversDisk, IncreasingUnlessRewound, Labels,
                 Goto, procVars, histVars, Larger
<1>1. CASE Start
  BY <1>1 DEF Start
<1>2. ASSUME NEW t \in Signers, Sign(t) PROVE NonceInv'
  BY <1>2 DEF Sign
<1>3. ASSUME NEW t \in Signers, Load(t) PROVE NonceInv'
  BY <1>3 DEF Load
<1>4. ASSUME NEW t \in Signers, Swap(t) PROVE NonceInv'
  BY <1>4 DEF Swap
<1>5. ASSUME NEW t \in Signers, SwapFails(t) PROVE NonceInv'
  BY <1>5 DEF SwapFails
<1>6. ASSUME NEW t \in Signers, Throttle(t) PROVE NonceInv'
  BY <1>6 DEF Throttle
<1>7. ASSUME NEW t \in Signers, Claim(t) PROVE NonceInv'
  BY <1>7 DEF Claim
<1>8. ASSUME NEW t \in Signers, Write(t) PROVE NonceInv'
  BY <1>8 DEF Write
<1>9. ASSUME NEW t \in Signers, WriteFails(t) PROVE NonceInv'
  BY <1>9 DEF WriteFails
<1>10. ASSUME NEW t \in Signers, Release(t) PROVE NonceInv'
  BY <1>10 DEF Release
<1>11. CASE Tick
  BY <1>11 DEF Tick
<1>12. CASE SetBack
  BY <1>12 DEF SetBack
<1>13. CASE Crash
  BY <1>13 DEF Crash
<1>14. CASE UNCHANGED vars
  BY <1>14 DEF vars
<1> QED
  BY <1>1, <1>2, <1>3, <1>4, <1>5, <1>6, <1>7, <1>8, <1>9, <1>10, <1>11,
     <1>12, <1>13, <1>14 DEF Next

-----------------------------------------------------------------------------
(* The hub. *)

Places == {"off", "pause", "swap", "close", "drain", "store", "announce", "hello",
           "read", "list", "cancel", "start", "cancelPrev", "teardown", "unset", "done"}

PlacesOK == handler \in [Dashboards -> Places]

-----------------------------------------------------------------------------
(* The streams of the hub. *)

StreamStates == {"none", "live", "cancelled", "returned", "gone"}

StreamsOK ==
  stream \in [state : [Streamed!Streams -> StreamStates], next : Nat, reg : Nat, gen : Nat,
              held : [Dashboards -> Nat]]

\* hub.streams and hub.streamGen tell of the same stream, if of any.
OneGeneration == stream.reg # 0 => stream.reg = stream.gen

\* A handler holds a cancel function only until it has called it.
HeldIsCalled ==
  \A s \in Dashboards : stream.held[s] # 0 => handler[s] \in {"cancel", "cancelPrev"}

StreamInv ==
  PlacesOK /\ StreamsOK /\ OneGeneration /\ HeldIsCalled /\ Streamed!StreamsAreReachable

\* A step that leaves the streams alone, and every handler that is about to
\* cancel one where it is.
LEMMA StreamsStill ==
  ASSUME StreamInv, PlacesOK', stream' = stream,
         \A s \in Dashboards :
           handler[s] \in {"cancel", "cancelPrev"} => handler'[s] = handler[s]
  PROVE  StreamInv'
  BY DEF StreamInv, StreamsOK, OneGeneration, HeldIsCalled, Streamed!StreamsAreReachable

\* A handler goes from one place that cancels nothing to another.
LEMMA StreamsGoto ==
  ASSUME StreamInv, stream' = stream, NEW s \in Dashboards, NEW to \in Places,
         handler' = [handler EXCEPT ![s] = to], handler[s] \notin {"cancel", "cancelPrev"}
  PROVE  StreamInv'
<1>1. PlacesOK'
  BY DEF StreamInv, PlacesOK
<1>2. \A t \in Dashboards : handler[t] \in {"cancel", "cancelPrev"} => handler'[t] = handler[t]
  BY DEF StreamInv, PlacesOK
<1> QED
  BY <1>1, <1>2, StreamsStill

\* Every action keeps the streams reachable: cancelStream and startStream
\* hand the registered one to a handler that has let go of the one before,
\* and only the goroutine of the registered stream deletes the entry.
LEMMA StreamStep == StreamInv /\ [Streamed!Next]_(Streamed!vars) => StreamInv'
<1> SUFFICES ASSUME StreamInv, [Streamed!Next]_(Streamed!vars) PROVE StreamInv'
  OBVIOUS
<1>0. /\ handler \in [Dashboards -> Places] /\ StreamsOK
      /\ stream.state \in [Streamed!Streams -> StreamStates]
      /\ stream.held \in [Dashboards -> Nat] /\ stream.next + 1 \in Nat \ {0}
      /\ stream.reg \in Nat /\ stream.gen \in Nat
  BY DEF StreamInv, PlacesOK, StreamsOK
<1> USE DEF Streamed!Goto
<1>1. ASSUME NEW s \in Dashboards,
             \/ Streamed!Accept(s) \/ Streamed!Pause(s) \/ Streamed!SwapOut(s)
             \/ Streamed!CloseOld(s) \/ Streamed!drainFrames(s)
             \/ Streamed!Attach(s) \/ Streamed!Announce(s) \/ Streamed!Resume(s)
             \/ Streamed!ReadFails(s)
             \/ Streamed!Teardown(s) \/ Streamed!Unset(s)
      PROVE  StreamInv'
  <2>1. /\ stream' = stream /\ handler[s] \notin {"cancel", "cancelPrev"}
        /\ \E to \in Places : handler' = [handler EXCEPT ![s] = to]
    BY <1>1 DEF Streamed!Accept, Streamed!Pause, Streamed!SwapOut, Streamed!CloseOld,
       Streamed!drainFrames, Streamed!Attach, Streamed!Announce,
                Streamed!Resume, Streamed!ReadFails, Streamed!Teardown, Streamed!Unset,
                Places, Streamed!Attaching
  <2> QED
    BY <2>1, StreamsGoto
<1>2. ASSUME NEW s \in Dashboards, Streamed!Command(s) PROVE StreamInv'
  <2>1. /\ handler[s] = "read" /\ handler' = [handler EXCEPT ![s] = "cancel"]
        /\ stream' = [stream EXCEPT !.held[s] = stream.reg, !.reg = 0]
    BY <1>2 DEF Streamed!Command
  <2>2. /\ stream'.held = [stream.held EXCEPT ![s] = stream.reg]
        /\ stream'.reg = 0 /\ stream'.state = stream.state
    BY <1>0, <2>1 DEF StreamsOK
  <2>3. StreamsOK'
    BY <1>0, <2>1 DEF StreamsOK
  <2>4. PlacesOK'
    BY <1>0, <2>1 DEF PlacesOK, Places
  <2>5. HeldIsCalled'
    BY <1>0, <2>1, <2>2 DEF StreamInv, HeldIsCalled
  <2>6. Streamed!StreamsAreReachable'
    <3> SUFFICES ASSUME NEW n \in Streamed!Streams, stream'.state[n] = "live"
                 PROVE  \E t \in Dashboards : stream'.held[t] = n
      BY DEF Streamed!StreamsAreReachable
    <3>1. n # 0 /\ stream.held[s] = 0
      BY <2>1 DEF Streamed!Streams, StreamInv, HeldIsCalled
    <3>2. stream.reg = n \/ \E t \in Dashboards : stream.held[t] = n
      BY <2>2 DEF StreamInv, Streamed!StreamsAreReachable
    <3> QED
      BY <1>0, <2>2, <3>1, <3>2
  <2> QED
    BY <2>2, <2>3, <2>4, <2>5, <2>6 DEF StreamInv, OneGeneration
<1>3. ASSUME NEW s \in Dashboards, Streamed!Cancel(s) PROVE StreamInv'
  <2>1. /\ \E to \in Places : handler' = [handler EXCEPT ![s] = to]
        /\ stream' = [stream EXCEPT !.state = Streamed!Cancelled(stream.held[s]),
                                    !.held[s] = 0]
    BY <1>3 DEF Streamed!Cancel, Places
  <2>2. Streamed!Cancelled(stream.held[s]) \in [Streamed!Streams -> StreamStates]
    BY <1>0 DEF Streamed!Cancelled, StreamStates
  <2>3. /\ stream'.held = [stream.held EXCEPT ![s] = 0]
        /\ stream'.state = Streamed!Cancelled(stream.held[s])
        /\ stream'.reg = stream.reg /\ stream'.gen = stream.gen
    BY <1>0, <2>1 DEF StreamsOK
  <2>4. StreamsOK'
    BY <1>0, <2>1, <2>2 DEF StreamsOK
  <2>5. PlacesOK'
    BY <1>0, <2>1 DEF PlacesOK
  <2>6. HeldIsCalled'
    BY <1>0, <2>1, <2>3 DEF StreamInv, HeldIsCalled
  <2>7. Streamed!StreamsAreReachable'
    <3> SUFFICES ASSUME NEW n \in Streamed!Streams, stream'.state[n] = "live"
                 PROVE  stream'.reg = n \/ \E t \in Dashboards : stream'.held[t] = n
      BY DEF Streamed!StreamsAreReachable
    <3>1. stream.state[n] = "live" /\ stream.held[s] # n
      BY <2>3 DEF Streamed!Cancelled
    <3> QED
      BY <1>0, <2>3, <3>1 DEF StreamInv, Streamed!StreamsAreReachable
  <2> QED
    BY <2>3, <2>4, <2>5, <2>6, <2>7 DEF StreamInv, OneGeneration
<1>4. ASSUME NEW s \in Dashboards, Streamed!StartStream(s) PROVE StreamInv'
  <2> DEFINE m == stream.next + 1
  <2>1. /\ handler[s] = "start" /\ handler' = [handler EXCEPT ![s] = "cancelPrev"]
        /\ stream' = [stream EXCEPT !.next = m, !.reg = m, !.gen = m,
                                    !.held[s] = stream.reg, !.state[m] = "live"]
    BY <1>4 DEF Streamed!StartStream
  <2>2. /\ stream'.held = [stream.held EXCEPT ![s] = stream.reg]
        /\ stream'.state = [stream.state EXCEPT ![m] = "live"]
        /\ stream'.reg = m /\ stream'.gen = m
    BY <1>0, <2>1 DEF StreamsOK
  <2>3. StreamsOK'
    BY <1>0, <2>1 DEF StreamsOK, StreamStates
  <2>4. PlacesOK'
    BY <1>0, <2>1 DEF PlacesOK, Places
  <2>5. HeldIsCalled'
    BY <1>0, <2>1, <2>2 DEF StreamInv, HeldIsCalled
  <2>6. Streamed!StreamsAreReachable'
    <3> SUFFICES ASSUME NEW n \in Streamed!Streams, stream'.state[n] = "live", n # m
                 PROVE  \E t \in Dashboards : stream'.held[t] = n
      BY <2>2 DEF Streamed!StreamsAreReachable
    <3>1. n # 0 /\ stream.held[s] = 0
      BY <2>1 DEF Streamed!Streams, StreamInv, HeldIsCalled
    <3>2. stream.reg = n \/ \E t \in Dashboards : stream.held[t] = n
      BY <1>0, <2>2 DEF StreamInv, Streamed!StreamsAreReachable
    <3> QED
      BY <1>0, <2>2, <3>1, <3>2
  <2> QED
    BY <2>2, <2>3, <2>4, <2>5, <2>6 DEF StreamInv, OneGeneration
<1>5. ASSUME NEW n \in Streamed!Streams, Streamed!StreamReturns(n) PROVE StreamInv'
  <2>1. handler' = handler /\ stream' = [stream EXCEPT !.state[n] = "returned"]
    BY <1>5 DEF Streamed!StreamReturns
  <2>2. /\ stream'.held = stream.held
        /\ stream'.state = [stream.state EXCEPT ![n] = "returned"]
        /\ stream'.reg = stream.reg /\ stream'.gen = stream.gen
    BY <1>0, <2>1 DEF StreamsOK
  <2>3. StreamsOK'
    BY <1>0, <2>1 DEF StreamsOK, StreamStates
  <2>4. Streamed!StreamsAreReachable'
    BY <1>0, <2>2 DEF StreamInv, Streamed!StreamsAreReachable
  <2> QED
    BY <2>1, <2>2, <2>3, <2>4 DEF StreamInv, OneGeneration, HeldIsCalled, PlacesOK
<1>6. ASSUME NEW n \in Streamed!Streams, Streamed!StreamEnds(n) PROVE StreamInv'
  <2>1. /\ handler' = handler /\ stream.state[n] = "returned"
        /\ stream' = IF stream.gen = n
                     THEN [stream EXCEPT !.state[n] = "gone", !.reg = 0, !.gen = 0]
                     ELSE [stream EXCEPT !.state[n] = "gone"]
    BY <1>6 DEF Streamed!StreamEnds, Streamed!Deregistered
  <2>2. CASE stream.gen = n
    <3>1. /\ stream'.held = stream.held
          /\ stream'.state = [stream.state EXCEPT ![n] = "gone"]
          /\ stream'.reg = 0
      BY <1>0, <2>1, <2>2 DEF StreamsOK
    <3>2. StreamsOK'
      BY <1>0, <2>1, <2>2 DEF StreamsOK, StreamStates
    <3>3. Streamed!StreamsAreReachable'
      <4> SUFFICES ASSUME NEW k \in Streamed!Streams, stream'.state[k] = "live"
                   PROVE  \E t \in Dashboards : stream'.held[t] = k
        BY DEF Streamed!StreamsAreReachable
      <4>1. k # 0
        BY DEF Streamed!Streams
      <4>2. k # n /\ stream.state[k] = "live"
        BY <1>0, <3>1
      <4>3. stream.reg # k
        BY <2>2, <4>1, <4>2 DEF StreamInv, OneGeneration
      <4> QED
        BY <3>1, <4>2, <4>3 DEF StreamInv, Streamed!StreamsAreReachable
    <3> QED
      BY <2>1, <3>1, <3>2, <3>3 DEF StreamInv, OneGeneration, HeldIsCalled, PlacesOK
  <2>3. CASE stream.gen # n
    <3>1. /\ stream'.held = stream.held
          /\ stream'.state = [stream.state EXCEPT ![n] = "gone"]
          /\ stream'.reg = stream.reg /\ stream'.gen = stream.gen
      BY <1>0, <2>1, <2>3 DEF StreamsOK
    <3>2. StreamsOK'
      BY <1>0, <2>1, <2>3 DEF StreamsOK, StreamStates
    <3>3. Streamed!StreamsAreReachable'
      BY <1>0, <3>1 DEF StreamInv, Streamed!StreamsAreReachable
    <3> QED
      BY <2>1, <3>1, <3>2, <3>3 DEF StreamInv, OneGeneration, HeldIsCalled, PlacesOK
  <2> QED
    BY <2>2, <2>3
<1>7. ASSUME handler' = handler, stream' = stream PROVE StreamInv'
  BY <1>7, StreamsStill DEF StreamInv, PlacesOK
<1>8. ASSUME NEW s \in Dashboards, Streamed!Leave(s) \/ Streamed!Stall(s) PROVE StreamInv'
  BY <1>7, <1>8 DEF Streamed!Leave, Streamed!Stall, Streamed!HandlerKeeps
<1>9. ASSUME NEW w \in Streamed!Writers, Streamed!Produce(w) \/ Streamed!Writing(w)
      PROVE  StreamInv'
  BY <1>7, <1>9 DEF Streamed!Produce, Streamed!Writing, Streamed!Enqueue,
     Streamed!FindFull, Streamed!Evict, Streamed!GiveUp
<1>10. CASE Streamed!Pumping
  BY <1>7, <1>10 DEF Streamed!Pumping, Streamed!Take, Streamed!Load, Streamed!Deliver,
     Streamed!WriteFails, Streamed!Retire, Streamed!PumpUnsets,
                     Streamed!PumpUnchanged
<1>11. CASE Streamed!GraceEnds \/ UNCHANGED Streamed!vars
  BY <1>7, <1>11 DEF Streamed!GraceEnds, Streamed!vars
<1> QED
  BY <1>1, <1>2, <1>3, <1>4, <1>5, <1>6, <1>8, <1>9, <1>10, <1>11 DEF Streamed!Next,
     Streamed!Handler

-----------------------------------------------------------------------------
(* The dashboard the hub feeds. *)

SocketsOK ==
  /\ sock \in [Dashboards -> {"none", "open", "closed"}]
  /\ old \in [Dashboards -> Dashboards \cup {NoSocket}]
  /\ attached \in Dashboards \cup {NoSocket}

\* Accept waits for the attach of another handler to end.
OneAttaches ==
  \A s, t \in Dashboards :
    handler[s] \in Framed!Attaching /\ handler[t] \in Framed!Attaching => s = t

SwappedOut == {"close", "drain", "store"}

\* Between its swap and its store a handler finds no connection attached.
NoneAttached == \A s \in Dashboards : handler[s] \in SwappedOut => attached = NoSocket

OldIsClosed == \A s \in Dashboards : old[s] # NoSocket => handler[s] = "close"

\* From its store to the end of its reads a handler's socket is attached.
Attached == {"announce", "hello", "list", "read", "cancel", "start", "cancelPrev"}

Fed(s) ==
  sock[s] = "open" /\ handler[s] \in Attached =>
    attached = s \/ \E t \in Dashboards : old[t] = s

FeedInv ==
  /\ PlacesOK /\ SocketsOK
  /\ OneAttaches /\ NoneAttached /\ OldIsClosed
  /\ \A s \in Dashboards : Fed(s)

\* The places a handler passes with the connection and the sockets as they are.
Onward ==
  {<<"pause", "swap">>, <<"drain", "store">>, <<"announce", "hello">>,
   <<"hello", "read">>, <<"list", "read">>, <<"read", "cancel">>,
   <<"cancel", "list">>, <<"cancel", "start">>, <<"cancelPrev", "read">>,
   <<"start", "cancelPrev">>, <<"read", "teardown">>, <<"unset", "done">>}

\* A handler goes on and touches neither the connection nor a socket.
LEMMA FeedGoto ==
  ASSUME FeedInv, NEW s \in Dashboards, NEW to, <<handler[s], to>> \in Onward,
         handler' = [handler EXCEPT ![s] = to], sock' = sock, old' = old, attached' = attached
  PROVE  FeedInv'
<1>1. to \in Places /\ PlacesOK'
  BY DEF FeedInv, PlacesOK, Onward, Places, Framed!Attaching
<1>2. /\ handler'[s] = to
      /\ \A t \in Dashboards \ {s} : handler'[t] = handler[t]
  BY DEF FeedInv, PlacesOK
<1>3. /\ to \in Framed!Attaching => handler[s] \in Framed!Attaching
      /\ to \in SwappedOut => handler[s] \in SwappedOut
      /\ to \in Attached => handler[s] \in Attached
      /\ handler[s] # "close"
  BY DEF Onward, Framed!Attaching, SwappedOut, Attached
<1>4. SocketsOK'
  BY DEF FeedInv, SocketsOK
<1>5. OneAttaches'
  BY <1>2, <1>3 DEF FeedInv, OneAttaches
<1>6. NoneAttached'
  BY <1>2, <1>3 DEF FeedInv, NoneAttached
<1>7. OldIsClosed'
  BY <1>2, <1>3 DEF FeedInv, OldIsClosed
<1>8. ASSUME NEW t \in Dashboards PROVE Fed(t)'
  BY <1>2, <1>3 DEF FeedInv, Fed
<1> QED
  BY <1>1, <1>4, <1>5, <1>6, <1>7, <1>8 DEF FeedInv

\* Sockets may close and the connection may be let go of when its socket is
\* closed, in a step that moves no handler.
LEMMA FeedCloses ==
  ASSUME FeedInv, handler' = handler, old' = old,
         sock' \in [Dashboards -> {"none", "open", "closed"}],
         \A s \in Dashboards : sock'[s] = "open" => sock[s] = "open",
         \/ attached' = attached
         \/ attached' = NoSocket /\ (attached \in Dashboards => sock'[attached] = "closed")
  PROVE  FeedInv'
<1>1. PlacesOK' /\ SocketsOK' /\ OneAttaches' /\ OldIsClosed'
  BY DEF FeedInv, PlacesOK, SocketsOK, OneAttaches, OldIsClosed
<1>2. NoneAttached'
  BY DEF FeedInv, NoneAttached
<1>3. ASSUME NEW s \in Dashboards PROVE Fed(s)'
  BY DEF FeedInv, Fed
<1> QED
  BY <1>1, <1>2, <1>3 DEF FeedInv

\* Every action keeps an open socket fed when handlers attach one after the
\* other: a handler that stores its connection has swapped out and closed the
\* one before, and nobody has stored one since.
LEMMA FeedStep ==
  FeedInv /\ [Framed!Next]_(Framed!vars) => FeedInv'
<1> SUFFICES ASSUME FeedInv, [Framed!Next]_(Framed!vars) PROVE FeedInv'
  OBVIOUS
<1>0. /\ handler \in [Dashboards -> Places] /\ SocketsOK /\ PlacesOK
      /\ sock \in [Dashboards -> {"none", "open", "closed"}]
      /\ old \in [Dashboards -> Dashboards \cup {NoSocket}]
  BY DEF FeedInv, PlacesOK, SocketsOK
<1> USE DEF Framed!Goto
<1>1. ASSUME NEW s \in Dashboards, Framed!Accept(s) PROVE FeedInv'
  <2>1. /\ \A t \in Dashboards : handler[t] \notin Framed!Attaching
        /\ handler[s] = "off" /\ handler' = [handler EXCEPT ![s] = "pause"]
        /\ sock' = [sock EXCEPT ![s] = "open"] /\ old' = old /\ attached' = attached
    BY <1>1 DEF Framed!Accept, Framed!connVars
  <2>2. /\ handler'[s] = "pause"
        /\ \A t \in Dashboards \ {s} : handler'[t] = handler[t] /\ sock'[t] = sock[t]
    BY <1>0, <2>1
  <2>3. PlacesOK' /\ SocketsOK'
    BY <1>0, <2>1 DEF PlacesOK, SocketsOK, Places, Framed!Attaching
  <2>4. OneAttaches'
    BY <2>1, <2>2 DEF OneAttaches
  <2>5. NoneAttached' /\ OldIsClosed'
    BY <2>1, <2>2 DEF FeedInv, NoneAttached, OldIsClosed, SwappedOut, Framed!Attaching
  <2>6. ASSUME NEW t \in Dashboards PROVE Fed(t)'
    BY <2>1, <2>2 DEF FeedInv, Fed, Attached
  <2> QED
    BY <2>3, <2>4, <2>5, <2>6 DEF FeedInv
<1>2. ASSUME NEW s \in Dashboards, Framed!SwapOut(s) PROVE FeedInv'
  <2>1. /\ handler[s] = "swap" /\ handler' = [handler EXCEPT ![s] = "close"]
        /\ old' = [old EXCEPT ![s] = attached] /\ attached' = NoSocket /\ sock' = sock
    BY <1>2 DEF Framed!SwapOut, Framed!sockVars
  <2>2. /\ handler'[s] = "close" /\ old'[s] = attached
        /\ \A t \in Dashboards \ {s} : handler'[t] = handler[t] /\ old'[t] = old[t]
    BY <1>0, <2>1
  <2>3. PlacesOK' /\ SocketsOK'
    BY <1>0, <2>1 DEF PlacesOK, SocketsOK, Places, Framed!Attaching
  <2>4. OneAttaches'
    BY <2>1, <2>2 DEF FeedInv, OneAttaches, Framed!Attaching
  <2>5. NoneAttached' /\ OldIsClosed'
    BY <2>1, <2>2 DEF FeedInv, NoneAttached, OldIsClosed
  <2>6. ASSUME NEW t \in Dashboards PROVE Fed(t)'
    <3>1. old[s] = NoSocket
      BY <2>1 DEF FeedInv, OldIsClosed
    <3>2. t # s => handler'[t] = handler[t]
      BY <2>2
    <3> QED
      BY <2>1, <2>2, <3>1, <3>2 DEF FeedInv, Fed, Attached
  <2> QED
    BY <2>3, <2>4, <2>5, <2>6 DEF FeedInv
<1>3. ASSUME NEW s \in Dashboards, Framed!CloseOld(s) PROVE FeedInv'
  <2>1. /\ handler[s] = "close" /\ handler' = [handler EXCEPT ![s] = "drain"]
        /\ old' = [old EXCEPT ![s] = NoSocket] /\ attached' = attached
        /\ sock' = [t \in Dashboards |-> IF t = old[s] THEN "closed" ELSE sock[t]]
    BY <1>3 DEF Framed!CloseOld, Framed!connVars, Framed!Replaced, Framed!Closed
  <2>2. /\ handler'[s] = "drain" /\ old'[s] = NoSocket
        /\ \A t \in Dashboards \ {s} : handler'[t] = handler[t] /\ old'[t] = old[t]
    BY <1>0, <2>1
  <2>3. PlacesOK' /\ SocketsOK'
    BY <1>0, <2>1 DEF PlacesOK, SocketsOK, Places, Framed!Attaching
  <2>4. OneAttaches'
    BY <2>1, <2>2 DEF FeedInv, OneAttaches, Framed!Attaching
  <2>5. NoneAttached' /\ OldIsClosed'
    BY <2>1, <2>2 DEF FeedInv, NoneAttached, OldIsClosed, SwappedOut
  <2>6. ASSUME NEW t \in Dashboards PROVE Fed(t)'
    BY <2>1, <2>2 DEF FeedInv, Fed, Attached
  <2> QED
    BY <2>3, <2>4, <2>5, <2>6 DEF FeedInv
<1>4. ASSUME NEW s \in Dashboards, Framed!Attach(s) PROVE FeedInv'
  <2>1. /\ handler[s] = "store" /\ handler' = [handler EXCEPT ![s] = "announce"]
        /\ old' = old /\ attached' = s /\ sock' = sock
    BY <1>4 DEF Framed!Attach, Framed!sockVars
  <2>2. handler'[s] = "announce" /\ \A t \in Dashboards \ {s} : handler'[t] = handler[t]
    BY <1>0, <2>1
  <2>3. PlacesOK' /\ SocketsOK'
    BY <1>0, <2>1 DEF PlacesOK, SocketsOK, Places, Framed!Attaching
  <2>4. OneAttaches'
    BY <2>1, <2>2 DEF FeedInv, OneAttaches, Framed!Attaching
  <2>5. OldIsClosed'
    BY <2>1, <2>2 DEF FeedInv, OldIsClosed
  <2>6. NoneAttached'
    BY <2>1, <2>2 DEF FeedInv, NoneAttached, OneAttaches, SwappedOut, Framed!Attaching
  <2>7. ASSUME NEW t \in Dashboards PROVE Fed(t)'
    <3>1. attached = NoSocket
      BY <2>1 DEF FeedInv, NoneAttached, SwappedOut
    <3> QED
      BY <2>1, <2>2, <3>1, EdgesAssumption DEF FeedInv, Fed
  <2> QED
    BY <2>3, <2>4, <2>5, <2>6, <2>7 DEF FeedInv
<1>5. ASSUME NEW s \in Dashboards, Framed!Teardown(s) PROVE FeedInv'
  <2>1. /\ handler[s] = "teardown"
        /\ \E to \in {"unset", "done"} : handler' = [handler EXCEPT ![s] = to]
        /\ old' = old /\ sock' = sock
        /\ attached' = (IF attached = s THEN NoSocket ELSE attached)
    BY <1>5 DEF Framed!Teardown, Framed!HandlerKeeps, Framed!CompareAndSwap
  <2>2. /\ handler'[s] \in {"unset", "done"}
        /\ \A t \in Dashboards \ {s} : handler'[t] = handler[t]
    BY <1>0, <2>1
  <2>3. PlacesOK' /\ SocketsOK'
    BY <1>0, <2>1 DEF PlacesOK, SocketsOK, Places, Framed!Attaching
  <2>4. OneAttaches'
    BY <2>2 DEF FeedInv, OneAttaches, Framed!Attaching
  <2>5. NoneAttached' /\ OldIsClosed'
    BY <2>1, <2>2 DEF FeedInv, NoneAttached, OldIsClosed, SwappedOut
  <2>6. ASSUME NEW t \in Dashboards PROVE Fed(t)'
    BY <2>1, <2>2 DEF FeedInv, Fed, Attached
  <2> QED
    BY <2>3, <2>4, <2>5, <2>6 DEF FeedInv
<1>6. ASSUME NEW s \in Dashboards,
             \/ Framed!Pause(s) \/ Framed!drainFrames(s) \/ Framed!Announce(s)
             \/ Framed!Resume(s) \/ Framed!Command(s)
             \/ Framed!Cancel(s) \/ Framed!StartStream(s) \/ Framed!ReadFails(s)
             \/ Framed!Unset(s)
      PROVE  FeedInv'
  <2>1. /\ sock' = sock /\ old' = old /\ attached' = attached
        /\ \E to \in Places :
             handler' = [handler EXCEPT ![s] = to] /\ <<handler[s], to>> \in Onward
    BY <1>6 DEF Framed!Pause, Framed!drainFrames, Framed!Announce, Framed!Resume,
       Framed!Command, Framed!Cancel, Framed!StartStream,
                Framed!ReadFails, Framed!Unset, Framed!HandlerKeeps, Framed!sockVars,
                Framed!connVars, Onward, Places, Framed!Attaching
  <2> QED
    BY <2>1, FeedGoto
<1>7. ASSUME handler' = handler, old' = old, sock' = sock, attached' = attached PROVE FeedInv'
  BY <1>0, <1>7, FeedCloses
<1>8. ASSUME NEW s \in Dashboards, Framed!Leave(s) PROVE FeedInv'
  BY <1>0, <1>8, FeedCloses DEF Framed!Leave, Framed!HandlerKeeps, Framed!Closed
<1>9. CASE Framed!Retire
  BY <1>0, <1>9, FeedCloses DEF Framed!Retire, Framed!PumpUnchanged, Framed!Closed,
     Framed!CompareAndSwap
<1>10. CASE \/ Framed!Take \/ Framed!Load \/ Framed!Deliver \/ Framed!WriteFails
            \/ Framed!PumpUnsets \/ Framed!GraceEnds
  BY <1>7, <1>10 DEF Framed!Take, Framed!Load, Framed!Deliver, Framed!WriteFails,
     Framed!PumpUnsets, Framed!GraceEnds,
                     Framed!PumpUnchanged, Framed!sockVars
<1>11. ASSUME NEW w \in Framed!Writers, Framed!Produce(w) \/ Framed!Writing(w) PROVE FeedInv'
  BY <1>7, <1>11 DEF Framed!Produce, Framed!Writing, Framed!Enqueue, Framed!FindFull,
     Framed!Evict, Framed!GiveUp, Framed!sockVars, Framed!connVars
<1>12. ASSUME NEW s \in Dashboards, Framed!Stall(s) PROVE FeedInv'
  BY <1>7, <1>12 DEF Framed!Stall, Framed!connVars
<1>13. ASSUME NEW n \in Framed!Streams, Framed!StreamReturns(n) \/ Framed!StreamEnds(n)
       PROVE  FeedInv'
  BY <1>7, <1>13 DEF Framed!StreamReturns, Framed!StreamEnds, Framed!HandlerKeeps
<1>14. CASE UNCHANGED Framed!vars
  BY <1>7, <1>14 DEF Framed!vars
<1> QED
  BY <1>1, <1>2, <1>3, <1>4, <1>5, <1>6, <1>8, <1>9, <1>10, <1>11, <1>12, <1>13, <1>14
  DEF Framed!Next, Framed!Handler, Framed!Pumping

-----------------------------------------------------------------------------
(* The desk view: what storing one life does. *)

RowRecs == [id : 1..N, closed : BOOLEAN, bid : Bids \cup {NoRow}, pct : Int \cup {NoRow}, at : Nat]

LifeRecs == [id : 1..N, status : {"closed", "holding"}, bid : Bids \cup {NoRow},
             marks : Seq(Bids), pct : Int \cup {NoRow}, at : Nat, hist : BOOLEAN]

Stores == [lives : Seq(LifeRecs), stamps : [1..N -> Stamps \cup {NoRow}], changed : BOOLEAN]

Unique(ls) == \A i, j \in DOMAIN ls : ls[i].id = ls[j].id => i = j

ClassOf(ls, hist) == {i \in DOMAIN ls : ls[i].hist = hist}
ClosedOf(ls, hist) == {i \in DOMAIN ls : ls[i].hist = hist /\ ls[i].status = "closed"}

Limit(hist) == IF hist THEN HistoryCap ELSE SessionLimit
Within(ls, hist) == Cardinality(ClassOf(ls, hist)) > Limit(hist) => ClosedOf(ls, hist) = {}

\* The view's own operators are those of the modules it extends.
LEMMA ViewCardinality == \A S : View!Cardinality(S) = Cardinality(S)
BY DEF View!Cardinality, Cardinality

LEMMA ViewByKey == \A S, key : View!ByKey(S, key) = ByKey(S, key)
<1> TAKE S, key
<1>1. View!Cardinality(S) = Cardinality(S)
  BY ViewCardinality
<1>2. \A x \in S : View!Cardinality({y \in S : key[y] <= key[x]}) = Cardinality({y \in S : key[y] <= key[x]})
  BY ViewCardinality
<1>3. View!ByKey(S, key) =
        [k \in 1..Cardinality(S) |->
           CHOOSE x \in S : View!Cardinality({y \in S : key[y] <= key[x]}) = k]
  BY <1>1 DEF View!ByKey
<1>4. \A k : (CHOOSE x \in S : View!Cardinality({y \in S : key[y] <= key[x]}) = k)
               = (CHOOSE x \in S : Cardinality({y \in S : key[y] <= key[x]}) = k)
  <2> TAKE k
  <2>1. \A x : (x \in S /\ View!Cardinality({y \in S : key[y] <= key[x]}) = k)
              <=> (x \in S /\ Cardinality({y \in S : key[y] <= key[x]}) = k)
    BY <1>2
  <2> QED
    BY <2>1
<1> QED
  BY <1>3, <1>4 DEF ByKey

LEMMA ViewOnly == \A s, I : View!Only(s, I) = Only(s, I) /\ View!InOrder(I) = InOrder(I)
<1> TAKE s, I
<1>1. View!InOrder(I) = InOrder(I)
  <2> DEFINE viewed(k) == CHOOSE x \in I : View!Cardinality({y \in I : y <= x}) = k
             at(k) == CHOOSE x \in I : Cardinality({y \in I : y <= x}) = k
  <2>1. \A x \in I : View!Cardinality({y \in I : y <= x}) = Cardinality({y \in I : y <= x})
    BY ViewCardinality
  <2>2. ASSUME NEW k PROVE viewed(k) = at(k)
    <3>1. \A x : (x \in I /\ View!Cardinality({y \in I : y <= x}) = k)
                <=> (x \in I /\ Cardinality({y \in I : y <= x}) = k)
      BY <2>1
    <3> QED
      BY <3>1
  <2>3. View!InOrder(I) = [k \in 1..Cardinality(I) |-> viewed(k)]
    BY ViewCardinality DEF View!InOrder
  <2>4. InOrder(I) = [k \in 1..Cardinality(I) |-> at(k)]
    BY DEF InOrder
  <2> HIDE DEF viewed, at
  <2> QED
    BY <2>2, <2>3, <2>4
<1>2. View!Cardinality(I) = Cardinality(I)
  BY ViewCardinality
<1> QED
  BY <1>1, <1>2 DEF View!Only, Only

\* Filtered lives of a class are counted in the lives.
LEMMA ClassCounts ==
  ASSUME NEW ls \in Seq(LifeRecs), NEW I, I \subseteq DOMAIN ls, NEW hist
  PROVE  /\ Only(ls, I) \in Seq(LifeRecs)
         /\ Cardinality(ClassOf(Only(ls, I), hist)) = Cardinality({i \in I : ls[i].hist = hist})
<1> DEFINE Q == {x \in LifeRecs : x.hist = hist}
<1> HIDE DEF LifeRecs
<1>1. Only(ls, I) \in Seq(LifeRecs) /\ \A i \in I : ls[i] \in LifeRecs
  BY OnlyKeeps
<1>2. Hits(ls, I, Q) = {i \in I : ls[i].hist = hist}
  BY <1>1 DEF Hits
<1>3. \A k \in DOMAIN Only(ls, I) : Only(ls, I)[k] \in LifeRecs
  BY <1>1
<1>4. Hits(Only(ls, I), DOMAIN Only(ls, I), Q) = ClassOf(Only(ls, I), hist)
  BY <1>3 DEF ClassOf, Hits
<1> HIDE DEF Q
<1>5. Cardinality(Hits(Only(ls, I), DOMAIN Only(ls, I), Q)) = Cardinality(Hits(ls, I, Q))
  BY OnlyCounts
<1> QED
  BY <1>1, <1>2, <1>4, <1>5

\* What an eviction leaves is within the limit, or has nothing closed.
LEMMA EvictedWithin ==
  ASSUME NEW ls \in Seq(LifeRecs), Unique(ls), NEW hist \in BOOLEAN, NEW limit \in Nat,
         NEW keep, keep = {i \in DOMAIN ls : ls[i].id \notin View!Evict(ls, limit, hist)}
  PROVE  Cardinality(ClassOf(Only(ls, keep), hist)) > limit => ClosedOf(Only(ls, keep), hist) = {}
<1> DEFINE class == {i \in DOMAIN ls : ls[i].hist = hist}
           done == {i \in class : ls[i].status = "closed"}
           upTo(j) == Cardinality({k \in done : k <= j})
           over == Cardinality(class) - limit
           out == {j \in done : upTo(j) <= over}
           left == {i \in keep : ls[i].hist = hist}
<1>1. keep = DOMAIN ls \ out
  <2>1. View!Evict(ls, limit, hist) = {ls[i].id : i \in out}
    <3>1. \A j \in done : View!Cardinality({k \in done : k <= j}) = upTo(j)
      BY ViewCardinality
    <3>2. View!Cardinality(class) = Cardinality(class)
      BY ViewCardinality
    <3> QED
      BY <3>1, <3>2 DEF View!Evict
  <2> HIDE DEF out
  <2>2. out \subseteq DOMAIN ls
    BY DEF out
  <2> QED
    BY <2>1, <2>2 DEF Unique
<1>2. /\ IsFiniteSet(DOMAIN ls) /\ DOMAIN ls \subseteq Int
      /\ IsFiniteSet(class) /\ IsFiniteSet(done) /\ IsFiniteSet(out)
      /\ Cardinality(class) \in Nat /\ Cardinality(done) \in Nat /\ over \in Int
  <2>1. DOMAIN ls = 1..Len(ls) /\ Len(ls) \in Nat
    OBVIOUS
  <2>2. IsFiniteSet(DOMAIN ls) /\ DOMAIN ls \subseteq Int
    BY <2>1, FS_Interval
  <2>3. class \subseteq DOMAIN ls /\ done \subseteq class /\ out \subseteq done
    OBVIOUS
  <2> HIDE DEF class, done, out
  <2>4. IsFiniteSet(class) /\ IsFiniteSet(done) /\ IsFiniteSet(out)
    BY <2>2, <2>3, FS_Subset
  <2>5. Cardinality(class) \in Nat /\ Cardinality(done) \in Nat
    BY <2>4, FS_CardinalityType
  <2> QED
    BY <2>2, <2>4, <2>5
<1>3. left = class \ out
  BY <1>1
<1>4. Cardinality(ClassOf(Only(ls, keep), hist)) = Cardinality(left)
  <2>1. keep \subseteq DOMAIN ls
    BY <1>1
  <2> QED
    BY <2>1, ClassCounts
<1>5. SUFFICES ASSUME Cardinality(left) > limit,
                      NEW m \in DOMAIN Only(ls, keep), Only(ls, keep)[m].hist = hist,
                      Only(ls, keep)[m].status = "closed"
               PROVE  FALSE
  BY <1>4 DEF ClosedOf
<1>6. PICK j \in keep : Only(ls, keep)[m] = ls[j]
  <2>1. keep \subseteq DOMAIN ls
    BY <1>1
  <2> HIDE DEF class, done, out, left
  <2> QED
    BY ONLY <2>1, OnlyKeeps, ls \in Seq(LifeRecs), m \in DOMAIN Only(ls, keep)
<1>7. j \in done /\ j \notin out
  BY <1>1, <1>5, <1>6
<1>8. upTo(j) > over /\ upTo(j) \in Nat /\ upTo(j) <= Cardinality(done)
  <2>1. {k \in done : k <= j} \subseteq done
    OBVIOUS
  <2>2. IsFiniteSet({k \in done : k <= j}) /\ upTo(j) <= Cardinality(done)
    BY <1>2, <2>1, FS_Subset
  <2>3. upTo(j) \in Nat
    BY <2>2, FS_CardinalityType
  <2> QED
    BY <1>2, <1>7, <2>2, <2>3
<1> HIDE DEF class, done, out, left, over
<1>9. Cardinality(left) <= Cardinality(class) /\ Cardinality(left) \in Nat
  BY <1>2, <1>3, FS_Subset, FS_CardinalityType
<1>10. over > 0
  BY <1>2, <1>5, <1>9 DEF over
\* As many as are over the limit go.
<1>11. Cardinality(out) >= over
  <2> DEFINE f == [k \in 1..over |-> InOrder(done)[k]]
  <2>0. done \subseteq Int
    BY <1>2 DEF done, class
  <2>1. /\ InOrder(done) \in [1..Cardinality(done) -> done]
        /\ \A a, b \in 1..Cardinality(done) : a < b => InOrder(done)[a] < InOrder(done)[b]
        /\ \A k \in 1..Cardinality(done) : Cardinality({y \in done : y <= InOrder(done)[k]}) = k
    BY <1>2, <2>0, InOrderSorts
  <2>2. 1..over \subseteq 1..Cardinality(done)
    BY <1>2, <1>8, <1>10
  <2>3. \A k \in 1..over : InOrder(done)[k] \in out
    BY <1>2, <2>1, <2>2 DEF out
  <2>4. \A a, b \in 1..over : InOrder(done)[a] = InOrder(done)[b] => a = b
    <3> SUFFICES ASSUME NEW a \in 1..over, NEW b \in 1..over, InOrder(done)[a] = InOrder(done)[b]
                 PROVE  a = b
      OBVIOUS
    <3>1. InOrder(done)[a] \in Int /\ InOrder(done)[b] \in Int
      BY <2>0, <2>1, <2>2
    <3>2. ~ (a < b) /\ ~ (b < a)
      BY <2>1, <2>2, <3>1
    <3> QED
      BY <1>2, <3>2
  <2>5. f \in Injection(1..over, out)
    BY <2>3, <2>4 DEF Injection, IsInjective
  <2> HIDE DEF f
  <2>6. Cardinality(1..over) = over
    BY <1>2, <1>10, FS_Interval
  <2> QED
    BY <1>2, <2>5, <2>6, FS_Injection
<1>12. Cardinality(left) = Cardinality(class) - Cardinality(out)
  <2>1. class \cap out = out
    BY DEF out, done
  <2> QED
    BY <1>2, <1>3, <2>1, FS_Difference
<1>13. Cardinality(out) \in Nat
  BY <1>2, FS_CardinalityType
<1> QED
  BY <1>2, <1>5, <1>9, <1>11, <1>12, <1>13 DEF over
-----------------------------------------------------------------------------
(* What storing one life does. *)

Has(ls, x) == \E k \in DOMAIN ls : ls[k] = x
HasId(ls, l) == \E k \in DOMAIN ls : ls[k].id = l

\* The store res after life was stored in st and was news.
Stored(st, life, res) ==
  /\ res \in Stores /\ res.changed = TRUE /\ Unique(res.lives)
  /\ \A k \in DOMAIN res.lives :
       res.lives[k] = life \/ (res.lives[k].id # life.id /\ Has(st.lives, res.lives[k]))
  /\ \A l \in 1..N : \/ res.stamps[l] = NoRow /\ ~HasId(res.lives, l)
                     \/ /\ res.stamps[l] = st.stamps[l]
                        /\ l = life.id => Has(res.lives, life)
                        /\ l # life.id => \A i \in DOMAIN st.lives :
                             st.lives[i].id = l => Has(res.lives, st.lives[i])
  /\ \A i \in DOMAIN st.lives :
       /\ st.lives[i].id # life.id
       /\ st.lives[i].status # "closed" \/ st.lives[i].hist # life.hist
       => Has(res.lives, st.lives[i])
  /\ \A h \in BOOLEAN : h = life.hist \/ Within(st.lives, h) => Within(res.lives, h)

\* An appended life keeps the lives apart when its lot was taken out.
LEMMA WithoutAppend ==
  ASSUME NEW ls \in Seq(LifeRecs), Unique(ls), NEW life \in LifeRecs,
         NEW new, new = Append(View!Without(ls, life.id), life)
  PROVE  /\ new \in Seq(LifeRecs) /\ Unique(new)
         /\ \A k \in DOMAIN new : new[k] = life \/ (new[k].id # life.id /\ Has(ls, new[k]))
         /\ \A i \in DOMAIN ls : ls[i].id # life.id => Has(new, ls[i])
         /\ Has(new, life)
         /\ \A h \in BOOLEAN : h # life.hist =>
              /\ Cardinality(ClassOf(new, h)) <= Cardinality(ClassOf(ls, h))
              /\ Cardinality(ClassOf(new, h)) \in Nat /\ Cardinality(ClassOf(ls, h)) \in Nat
<1> DEFINE I == {i \in DOMAIN ls : ls[i].id # life.id}
           rest == Only(ls, I)
<1>1. /\ I \subseteq DOMAIN ls
      /\ \A i \in I : i \in DOMAIN ls /\ ls[i].id # life.id
      /\ \A i \in DOMAIN ls : ls[i].id # life.id => i \in I
      /\ View!Without(ls, life.id) = rest
  BY ViewOnly DEF View!Without
<1> HIDE DEF I, rest, LifeRecs
<1>2. /\ rest \in Seq(LifeRecs) /\ Len(rest) \in Nat /\ DOMAIN rest = 1..Len(rest)
      /\ \A k \in DOMAIN rest : \E i \in I : rest[k] = ls[i]
      /\ \A i \in I : \E k \in DOMAIN rest : rest[k] = ls[i]
  BY <1>1, OnlyKeeps DEF rest
<1>3. /\ new \in Seq(LifeRecs) /\ DOMAIN new = 1..(Len(rest) + 1)
      /\ new[Len(rest) + 1] = life
      /\ \A k \in DOMAIN rest : new[k] = rest[k]
  <2>1. new = Append(rest, life)
    BY <1>1
  <2> QED
    BY <1>2, <2>1
<1>4. \A k \in DOMAIN new : k \in DOMAIN rest \/ k = Len(rest) + 1
  BY <1>2, <1>3
<1>5. \A k \in DOMAIN new : new[k] = life \/ (new[k].id # life.id /\ Has(ls, new[k]))
  BY <1>1, <1>2, <1>3, <1>4 DEF Has
<1>6. \A i \in DOMAIN ls : ls[i].id # life.id => Has(new, ls[i])
  <2>1. DOMAIN rest \subseteq DOMAIN new
    BY <1>2, <1>3
  <2> QED
    BY <1>1, <1>2, <1>3, <2>1 DEF Has
<1>7. Unique(new)
  <2>1. SUFFICES ASSUME NEW j \in DOMAIN new, NEW k \in DOMAIN new, j # k, new[j].id = new[k].id
                 PROVE  FALSE
    BY DEF Unique
  <2>2. j \in DOMAIN rest /\ k \in DOMAIN rest
    BY <1>1, <1>2, <1>3, <1>4, <2>1
  <2>3. PICK a \in I, b \in I : a # b /\ rest[j] = ls[a] /\ rest[k] = ls[b]
    BY <1>1, <2>1, <2>2, OnlyApart DEF rest
  <2> QED
    BY <1>1, <1>3, <2>1, <2>2, <2>3 DEF Unique
<1>8. ASSUME NEW h \in BOOLEAN, h # life.hist
      PROVE  /\ Cardinality(ClassOf(new, h)) <= Cardinality(ClassOf(ls, h))
             /\ Cardinality(ClassOf(new, h)) \in Nat /\ Cardinality(ClassOf(ls, h)) \in Nat
  <2>1. ClassOf(new, h) = ClassOf(rest, h)
    <3>1. DOMAIN rest \subseteq DOMAIN new
      BY <1>2, <1>3
    <3> QED
      BY <1>3, <1>4, <1>8, <3>1 DEF ClassOf
  <2>2. Cardinality(ClassOf(rest, h)) = Cardinality({i \in I : ls[i].hist = h})
    BY <1>1, ClassCounts DEF rest
  <2>3. {i \in I : ls[i].hist = h} \subseteq ClassOf(ls, h)
    BY <1>1 DEF ClassOf
  <2>4. IsFiniteSet(ClassOf(ls, h))
    <3>1. DOMAIN ls = 1..Len(ls) /\ Len(ls) \in Nat
      OBVIOUS
    <3>2. IsFiniteSet(1..Len(ls))
      BY <3>1, FS_Interval
    <3>3. ClassOf(ls, h) \subseteq 1..Len(ls)
      BY <3>1 DEF ClassOf
    <3> QED
      BY <3>2, <3>3, FS_Subset
  <2>5. IsFiniteSet({i \in I : ls[i].hist = h})
    BY <2>3, <2>4, FS_Subset
  <2> QED
    BY <2>1, <2>2, <2>3, <2>4, <2>5, FS_Subset, FS_CardinalityType
<1>9. Has(new, life)
  BY <1>2, <1>3 DEF Has
<1> QED
  BY <1>3, <1>5, <1>6, <1>7, <1>8, <1>9

\* Filtering keeps the lives apart and no class grows.
LEMMA OnlyLives ==
  ASSUME NEW ls \in Seq(LifeRecs), Unique(ls), NEW I, I \subseteq DOMAIN ls,
         NEW new, new = Only(ls, I)
  PROVE  /\ new \in Seq(LifeRecs) /\ Unique(new)
         /\ \A k \in DOMAIN new : \E i \in I : new[k] = ls[i]
         /\ \A i \in I : Has(new, ls[i])
         /\ \A h \in BOOLEAN :
              /\ Cardinality(ClassOf(new, h)) <= Cardinality(ClassOf(ls, h))
              /\ Cardinality(ClassOf(new, h)) \in Nat /\ Cardinality(ClassOf(ls, h)) \in Nat
<1> HIDE DEF LifeRecs
<1>1. /\ new \in Seq(LifeRecs)
      /\ \A k \in DOMAIN new : \E i \in I : new[k] = ls[i]
      /\ \A i \in I : \E k \in DOMAIN new : new[k] = ls[i]
  BY OnlyKeeps
<1>2. Unique(new)
  <2>1. SUFFICES ASSUME NEW j \in DOMAIN new, NEW k \in DOMAIN new, j # k, new[j].id = new[k].id
                 PROVE  FALSE
    BY DEF Unique
  <2>2. PICK a \in I, b \in I : a # b /\ new[j] = ls[a] /\ new[k] = ls[b]
    BY <2>1, OnlyApart
  <2> QED
    BY <2>1, <2>2 DEF Unique
<1>3. ASSUME NEW h \in BOOLEAN
      PROVE  /\ Cardinality(ClassOf(new, h)) <= Cardinality(ClassOf(ls, h))
             /\ Cardinality(ClassOf(new, h)) \in Nat /\ Cardinality(ClassOf(ls, h)) \in Nat
  <2>2. Cardinality(ClassOf(new, h)) = Cardinality({i \in I : ls[i].hist = h})
    BY ClassCounts
  <2>3. {i \in I : ls[i].hist = h} \subseteq ClassOf(ls, h)
    BY DEF ClassOf
  <2>4. IsFiniteSet(ClassOf(ls, h))
    <3>1. DOMAIN ls = 1..Len(ls) /\ Len(ls) \in Nat
      OBVIOUS
    <3>2. IsFiniteSet(1..Len(ls))
      BY <3>1, FS_Interval
    <3>3. ClassOf(ls, h) \subseteq 1..Len(ls)
      BY <3>1 DEF ClassOf
    <3> QED
      BY <3>2, <3>3, FS_Subset
  <2>5. IsFiniteSet({i \in I : ls[i].hist = h})
    BY <2>3, <2>4, FS_Subset
  <2> QED
    BY <2>2, <2>3, <2>4, <2>5, FS_Subset, FS_CardinalityType
<1> QED
  BY <1>1, <1>2, <1>3 DEF Has

\* A class that has not grown and has only old lives is within its limit if
\* it was.
LEMMA StaysWithin ==
  ASSUME NEW ls, NEW new, NEW h \in BOOLEAN, Within(ls, h),
         Cardinality(ClassOf(new, h)) <= Cardinality(ClassOf(ls, h)),
         Cardinality(ClassOf(new, h)) \in Nat, Cardinality(ClassOf(ls, h)) \in Nat,
         \A k \in DOMAIN new : new[k].hist = h => Has(ls, new[k])
  PROVE  Within(new, h)
<1>1. Limit(h) \in Nat
  BY ViewAssumption DEF Limit
<1>2. ClosedOf(ls, h) = {} => ClosedOf(new, h) = {}
  BY DEF ClosedOf, Has
<1> QED
  BY <1>1, <1>2 DEF Within

LEMMA StoreLife ==
  ASSUME NEW st \in Stores, Unique(st.lives), NEW life \in LifeRecs
  PROVE  \/ /\ View!storeLife(st, life) = st
            /\ View!Known(st.lives, life.id)
            /\ ~View!deskLifeChanged(View!LifeOf(st.lives, life.id), life)
         \/ Stored(st, life, View!storeLife(st, life))
<1>1. CASE View!Known(st.lives, life.id)
           /\ ~View!deskLifeChanged(View!LifeOf(st.lives, life.id), life)
  BY <1>1 DEF View!storeLife
<1>2. CASE ~(View!Known(st.lives, life.id)
             /\ ~View!deskLifeChanged(View!LifeOf(st.lives, life.id), life))
  <2> DEFINE ls == st.lives
             new == Append(View!Without(ls, life.id), life)
             gone == View!Evict(new, Limit(life.hist), life.hist)
             keep == {i \in DOMAIN new : new[i].id \notin gone}
             left == Only(new, keep)
             res == [lives |-> left,
                     stamps |-> [l \in 1..N |-> IF l \in gone THEN NoRow ELSE st.stamps[l]],
                     changed |-> TRUE]
  <2>1. View!storeLife(st, life) = res
    BY <1>2, ViewOnly DEF View!storeLife, View!Lots, Limit
  <2>2. /\ ls \in Seq(LifeRecs) /\ st.stamps \in [1..N -> Stamps \cup {NoRow}]
        /\ life.id \in 1..N /\ life.hist \in BOOLEAN
    BY DEF Stores, LifeRecs
  <2>3. Limit(life.hist) \in Nat
    BY ViewAssumption DEF Limit
  <2> HIDE DEF ls, LifeRecs
  <2>4. /\ new \in Seq(LifeRecs) /\ Unique(new)
        /\ \A k \in DOMAIN new : new[k] = life \/ (new[k].id # life.id /\ Has(ls, new[k]))
        /\ \A i \in DOMAIN ls : ls[i].id # life.id => Has(new, ls[i])
        /\ Has(new, life)
        /\ \A h \in BOOLEAN : h # life.hist =>
             /\ Cardinality(ClassOf(new, h)) <= Cardinality(ClassOf(ls, h))
             /\ Cardinality(ClassOf(new, h)) \in Nat /\ Cardinality(ClassOf(ls, h)) \in Nat
    <3>1. Unique(ls)
      BY DEF ls
    <3> QED
      BY <2>2, <3>1, WithoutAppend
  <2>5. gone = {new[i].id : i \in {j \in DOMAIN new : j \in DOMAIN new /\ new[j].id \in gone}}
        /\ \A i \in DOMAIN new : new[i].id \in gone =>
             new[i].hist = life.hist /\ new[i].status = "closed"
    <3> HIDE DEF new
    <3>1. \A l \in gone : \E i \in DOMAIN new : new[i].id = l
      BY DEF View!Evict
    <3>2. ASSUME NEW i \in DOMAIN new, new[i].id \in gone
          PROVE  new[i].hist = life.hist /\ new[i].status = "closed"
      <4>1. \E j \in DOMAIN new : new[j].id = new[i].id /\ new[j].hist = life.hist /\ new[j].status = "closed"
        BY <3>2 DEF View!Evict
      <4> QED
        BY <2>4, <4>1 DEF Unique
    <3> HIDE DEF gone
    <3> QED
      BY <3>1, <3>2
  <2>6. keep \subseteq DOMAIN new /\ \A i \in DOMAIN new : i \in keep <=> new[i].id \notin gone
    OBVIOUS
  <2>7. Cardinality(ClassOf(left, life.hist)) > Limit(life.hist) => ClosedOf(left, life.hist) = {}
    <3> HIDE DEF new
    <3> QED
      BY <2>2, <2>3, <2>4, EvictedWithin
  <2> HIDE DEF new, gone, keep
  <2>8. /\ left \in Seq(LifeRecs) /\ Unique(left)
        /\ \A k \in DOMAIN left : \E i \in keep : left[k] = new[i]
        /\ \A i \in keep : Has(left, new[i])
        /\ \A h \in BOOLEAN :
             /\ Cardinality(ClassOf(left, h)) <= Cardinality(ClassOf(new, h))
             /\ Cardinality(ClassOf(left, h)) \in Nat /\ Cardinality(ClassOf(new, h)) \in Nat
    BY <2>4, <2>6, OnlyLives
  <2> HIDE DEF left
  <2>9. /\ res \in Stores /\ res.changed = TRUE /\ res.lives = left
        /\ \A l \in 1..N : res.stamps[l] = IF l \in gone THEN NoRow ELSE st.stamps[l]
    BY <2>2, <2>8 DEF Stores
  <2>10. \A k \in DOMAIN left : left[k] = life \/ (left[k].id # life.id /\ Has(ls, left[k]))
    BY <2>4, <2>6, <2>8
  <2>11. \A l \in 1..N : l \in gone => ~HasId(left, l)
    BY <2>6, <2>8 DEF HasId
  <2>15. ASSUME NEW l \in 1..N, l \notin gone
         PROVE  /\ l = life.id => Has(left, life)
                /\ l # life.id => \A i \in DOMAIN ls : ls[i].id = l => Has(left, ls[i])
    <3>1. ASSUME NEW x, Has(new, x), x.id = l PROVE Has(left, x)
      <4>1. PICK j \in DOMAIN new : new[j] = x
        BY <3>1 DEF Has
      <4>2. j \in keep
        BY <2>6, <2>15, <3>1, <4>1
      <4> QED
        BY <2>8, <4>1, <4>2
    <3> QED
      BY <2>4, <3>1
  <2>12. ASSUME NEW i \in DOMAIN ls, ls[i].id # life.id,
                ls[i].status # "closed" \/ ls[i].hist # life.hist
         PROVE  Has(left, ls[i])
    <3>1. PICK j \in DOMAIN new : new[j] = ls[i]
      BY <2>4, <2>12 DEF Has
    <3>2. j \in keep
      BY <2>5, <2>6, <2>12, <3>1
    <3> QED
      BY <2>8, <3>1, <3>2
  <2>13. ASSUME NEW h \in BOOLEAN, h = life.hist \/ Within(ls, h) PROVE Within(left, h)
    <3>1. CASE h = life.hist
      BY <2>7, <3>1 DEF Within
    <3>2. CASE h # life.hist
      <4>1. Cardinality(ClassOf(left, h)) <= Cardinality(ClassOf(ls, h))
        BY <2>4, <2>8, <3>2
      <4>2. Cardinality(ClassOf(left, h)) \in Nat /\ Cardinality(ClassOf(ls, h)) \in Nat
        BY <2>4, <2>8, <3>2
      <4>3. \A k \in DOMAIN left : left[k].hist = h => Has(ls, left[k])
        BY <2>10, <3>2
      <4> QED
        BY <2>13, <3>2, <4>1, <4>2, <4>3, StaysWithin
    <3> QED
      BY <3>1, <3>2
  <2> HIDE DEF res
  <2>14. Stored(st, life, res)
    BY <2>8, <2>9, <2>10, <2>11, <2>12, <2>13, <2>15 DEF Stored, ls
  <2> QED
    BY <2>1, <2>14
<1> QED
  BY <1>1, <1>2

-----------------------------------------------------------------------------
(* One row of the desk. *)

\* A lot has one life, which is the one LifeOf finds.
LEMMA LifeFound ==
  ASSUME NEW ls, Unique(ls), NEW l
  PROVE  /\ View!Known(ls, l) <=> HasId(ls, l)
         /\ \A i \in DOMAIN ls : ls[i].id = l => View!LifeOf(ls, l) = ls[i]
<1>1. View!Known(ls, l) <=> HasId(ls, l)
  BY DEF View!Known, HasId
<1>2. ASSUME NEW i \in DOMAIN ls, ls[i].id = l PROVE View!LifeOf(ls, l) = ls[i]
  <2>1. \A j \in DOMAIN ls : ls[j].id = l => j = i
    BY <1>2 DEF Unique
  <2> QED
    BY <1>2, <2>1 DEF View!LifeOf
<1> QED
  BY <1>1, <1>2

LEMMA LastKeeps ==
  ASSUME NEW T, NEW s \in Seq(T), NEW n \in Nat
  PROVE  /\ View!LastN(s, n) \in Seq(T)
         /\ Len(View!LastN(s, n)) <= n
         /\ Len(s) <= n => View!LastN(s, n) = s
         /\ \E d \in Nat : \A k \in DOMAIN View!LastN(s, n) :
              k + d \in DOMAIN s /\ View!LastN(s, n)[k] = s[k + d]
<1>1. Len(s) \in Nat /\ DOMAIN s = 1..Len(s)
  OBVIOUS
<1>2. CASE Len(s) <= n
  <2>1. View!LastN(s, n) = s
    BY <1>2 DEF View!LastN
  <2>2. \A k \in DOMAIN s : k + 0 \in DOMAIN s /\ s[k] = s[k + 0]
    BY <1>1
  <2> QED
    BY <1>2, <2>1, <2>2
<1>3. CASE Len(s) > n
  <2> DEFINE d == Len(s) - n
  <2>1. d \in Nat /\ View!LastN(s, n) = SubSeq(s, d + 1, Len(s))
    BY <1>1, <1>3 DEF View!LastN
  <2>2. /\ SubSeq(s, d + 1, Len(s)) \in Seq(T)
        /\ Len(SubSeq(s, d + 1, Len(s))) = n
        /\ \A k \in 1..n : SubSeq(s, d + 1, Len(s))[k] = s[k + d] /\ k + d \in DOMAIN s
    BY <1>1, <1>3
  <2> HIDE DEF d
  <2> DEFINE w == SubSeq(s, d + 1, Len(s))
  <2>3. w \in Seq(T) /\ Len(w) = n /\ \A k \in 1..n : w[k] = s[k + d] /\ k + d \in DOMAIN s
    BY <2>2
  <2> HIDE DEF w
  <2>4. DOMAIN w = 1..n
    BY <2>3
  <2>5. View!LastN(s, n) = w
    BY <2>1 DEF w
  <2>6. \A k \in DOMAIN w : k + d \in DOMAIN s /\ w[k] = s[k + d]
    BY <2>3, <2>4
  <2> QED
    <3>1. \E c \in Nat : \A k \in DOMAIN w : k + c \in DOMAIN s /\ w[k] = s[k + c]
      BY <2>1, <2>6
    <3>2. w \in Seq(T) /\ Len(w) <= n /\ ~(Len(s) <= n)
      BY <1>1, <1>3, <2>3
    <3> QED
      BY <2>5, <3>1, <3>2
<1> QED
  BY <1>1, <1>2, <1>3

StatusOf(row) == IF row.closed THEN "closed" ELSE "holding"

\* The store res after row: it says nothing new about the lot, or a session
\* life was stored, and an open row only over a life that is not closed.
Told(st, row, res) ==
  \/ /\ res = st
     /\ \E i \in DOMAIN st.lives :
          st.lives[i].id = row.id /\ (st.lives[i].status = "closed" \/ ~row.closed)
  \/ /\ ~row.closed => \A i \in DOMAIN st.lives :
                         st.lives[i].id = row.id => st.lives[i].status # "closed"
     /\ \E life \in LifeRecs :
          /\ life.id = row.id /\ life.status = StatusOf(row) /\ life.at = row.at
          /\ life.hist = FALSE /\ Len(life.marks) <= MarkCap
          /\ Stored(st, life, res)

\* Storing a session life made of the row.
LEMMA TellLife ==
  ASSUME NEW st \in Stores, Unique(st.lives), NEW row \in RowRecs, NEW life \in LifeRecs,
         life.id = row.id, life.status = StatusOf(row), life.at = row.at,
         life.hist = FALSE, Len(life.marks) <= MarkCap,
         ~row.closed => \A i \in DOMAIN st.lives :
                          st.lives[i].id = row.id => st.lives[i].status # "closed"
  PROVE  Told(st, row, View!storeLife(st, life))
<1> DEFINE res == View!storeLife(st, life)
<1>1. CASE Stored(st, life, res)
  BY <1>1 DEF Told
<1>2. CASE /\ res = st
           /\ View!Known(st.lives, life.id)
           /\ ~View!deskLifeChanged(View!LifeOf(st.lives, life.id), life)
  <2>1. PICK i \in DOMAIN st.lives : st.lives[i].id = life.id
    BY <1>2 DEF View!Known
  <2>2. View!LifeOf(st.lives, life.id) = st.lives[i]
    BY <2>1, LifeFound
  <2>3. st.lives[i].status = life.status
    BY <1>2, <2>2 DEF View!deskLifeChanged
  <2>4. st.lives[i].status = "closed" \/ ~row.closed
    BY <2>3 DEF StatusOf
  <2> HIDE DEF res
  <2>5. Told(st, row, res)
    BY <1>2, <2>1, <2>4 DEF Told
  <2> QED
    BY <2>5 DEF res
<1> HIDE DEF res
<1>3. \/ /\ res = st
         /\ View!Known(st.lives, life.id)
         /\ ~View!deskLifeChanged(View!LifeOf(st.lives, life.id), life)
      \/ Stored(st, life, res)
  BY StoreLife DEF res
<1> QED
  BY <1>1, <1>2, <1>3 DEF res

\* The marks of a row, and those after them.
LEMMA MarksOf ==
  ASSUME NEW row \in RowRecs
  PROVE  /\ View!RowMarks(row) \in Seq(Bids) /\ Len(View!RowMarks(row)) <= MarkCap
         /\ row.closed => View!RowMarks(row) = <<>>
<1>1. CASE row.closed \/ row.bid = NoRow
  BY <1>1, ViewAssumption DEF View!RowMarks
<1>2. CASE ~(row.closed \/ row.bid = NoRow)
  <2>1. row.bid \in Bids
    BY <1>2 DEF RowRecs
  <2>2. View!RowMarks(row) = <<row.bid>>
    BY <1>2 DEF View!RowMarks
  <2> QED
    BY <1>2, <2>1, <2>2, ViewAssumption
<1> QED
  BY <1>1, <1>2

LEMMA LifeTyped ==
  ASSUME NEW row \in RowRecs, NEW marks \in Seq(Bids), NEW hist \in BOOLEAN
  PROVE  /\ View!Life(row, marks, hist) \in LifeRecs
         /\ View!Life(row, marks, hist).id = row.id
         /\ View!Life(row, marks, hist).status = StatusOf(row)
         /\ View!Life(row, marks, hist).at = row.at
         /\ View!Life(row, marks, hist).marks = marks
         /\ View!Life(row, marks, hist).hist = hist
         /\ row.closed => View!Life(row, marks, hist).pct = row.pct
                          /\ View!Life(row, marks, hist).bid = NoRow
BY DEF View!Life, LifeRecs, RowRecs, StatusOf

\* One row of ingestDeskClosedLots; a closed life told again as it was stays.
LEMMA IngestOne ==
  ASSUME NEW st \in Stores, Unique(st.lives), NEW row \in RowRecs,
         \A i \in DOMAIN st.lives : Len(st.lives[i].marks) <= MarkCap
  PROVE  /\ Told(st, row, View!IngestRow(st, row))
         /\ \A i \in DOMAIN st.lives :
              LET was == st.lives[i]
              IN  /\ was.id = row.id /\ was.status = "closed" /\ was.bid = NoRow
                  /\ row.closed /\ row.at = was.at /\ row.pct = was.pct
                  => View!IngestRow(st, row) = st
<1>0. MarkCap \in Nat
  BY ViewAssumption
<1>1. CASE ~HasId(st.lives, row.id)
  <2> DEFINE life == View!Life(row, View!RowMarks(row), FALSE)
  <2>1. View!IngestRow(st, row) = View!storeLife(st, life)
    BY <1>1, LifeFound DEF View!IngestRow
  <2>2. /\ life \in LifeRecs /\ life.id = row.id /\ life.status = StatusOf(row)
        /\ life.at = row.at /\ life.hist = FALSE /\ Len(life.marks) <= MarkCap
    BY MarksOf, LifeTyped
  <2> HIDE DEF life
  <2>3. Told(st, row, View!storeLife(st, life))
    BY <1>1, <2>2, TellLife DEF HasId
  <2> QED
    BY <1>1, <2>1, <2>3 DEF HasId
<1>2. CASE HasId(st.lives, row.id)
  <2>1. PICK i \in DOMAIN st.lives : st.lives[i].id = row.id
    BY <1>2 DEF HasId
  <2> DEFINE was == st.lives[i]
             all == was.marks \o View!RowMarks(row)
             marks == View!LastN(all, MarkCap)
             new == View!Life(row, marks, FALSE)
             life == [new EXCEPT !.pct = IF @ = NoRow THEN was.pct ELSE @,
                                 !.bid = IF @ = NoRow THEN was.bid ELSE @]
  <2>2. /\ View!Known(st.lives, row.id) /\ View!LifeOf(st.lives, row.id) = was
        /\ \A j \in DOMAIN st.lives : st.lives[j].id = row.id => j = i
    BY <1>2, <2>1, LifeFound DEF Unique
  <2>3. /\ was \in LifeRecs /\ was.marks \in Seq(Bids) /\ Len(was.marks) <= MarkCap
        /\ Len(was.marks) \in Nat
    <3> HIDE DEF life, new, marks, all
    <3>1. was \in LifeRecs /\ Len(was.marks) <= MarkCap
      BY DEF Stores
    <3> HIDE DEF was
    <3>2. was.marks \in Seq(Bids)
      BY <3>1 DEF LifeRecs
    <3> QED
      BY <3>1, <3>2
  <2>4. /\ all \in Seq(Bids)
        /\ row.closed => all = was.marks
    <3>1. View!RowMarks(row) \in Seq(Bids) /\ (row.closed => View!RowMarks(row) = <<>>)
      BY MarksOf
    <3> HIDE DEF was
    <3>2. all \in Seq(Bids)
      BY <2>3, <3>1
    <3>3. row.closed => all = was.marks
      BY <2>3, <3>1
    <3> QED
      BY <3>2, <3>3
  <2>5. marks \in Seq(Bids) /\ Len(marks) <= MarkCap /\ (row.closed => marks = was.marks)
    <3> HIDE DEF all
    <3> QED
      BY <1>0, <2>3, <2>4, LastKeeps
  <2>6. View!IngestRow(st, row) =
          IF was.status = "closed" /\ ~row.closed THEN st ELSE View!storeLife(st, life)
    BY <2>2 DEF View!IngestRow
  <2> HIDE DEF was, marks
  <2>7. /\ new \in LifeRecs /\ new.id = row.id /\ new.status = StatusOf(row)
        /\ new.at = row.at /\ new.marks = marks /\ new.hist = FALSE
        /\ row.closed => new.pct = row.pct /\ new.bid = NoRow
    BY <2>5, LifeTyped
  <2> HIDE DEF new
  <2>8. /\ life \in LifeRecs /\ life.id = row.id /\ life.status = StatusOf(row)
        /\ life.at = row.at /\ life.marks = marks /\ life.hist = FALSE
        /\ life.pct = (IF new.pct = NoRow THEN was.pct ELSE new.pct)
        /\ life.bid = (IF new.bid = NoRow THEN was.bid ELSE new.bid)
    <3> DEFINE pct == IF new.pct = NoRow THEN was.pct ELSE new.pct
               bid == IF new.bid = NoRow THEN was.bid ELSE new.bid
    <3>1. pct \in Int \cup {NoRow} /\ bid \in Bids \cup {NoRow}
      BY <2>3, <2>7 DEF LifeRecs
    <3>2. life = [[new EXCEPT !.pct = pct] EXCEPT !.bid = bid]
      OBVIOUS
    <3> HIDE DEF pct, bid, life
    <3>3. /\ [new EXCEPT !.pct = pct] \in LifeRecs
          /\ [new EXCEPT !.pct = pct].pct = pct
          /\ [new EXCEPT !.pct = pct].id = new.id
          /\ [new EXCEPT !.pct = pct].status = new.status
          /\ [new EXCEPT !.pct = pct].at = new.at
          /\ [new EXCEPT !.pct = pct].marks = new.marks
          /\ [new EXCEPT !.pct = pct].hist = new.hist
      BY <2>7, <3>1 DEF LifeRecs
    <3> DEFINE half == [new EXCEPT !.pct = pct]
    <3> HIDE DEF half
    <3>4. half \in LifeRecs /\ life = [half EXCEPT !.bid = bid]
      BY <3>2, <3>3 DEF half
    <3>5. /\ life \in LifeRecs /\ life.bid = bid /\ life.pct = half.pct
          /\ life.id = half.id /\ life.status = half.status /\ life.at = half.at
          /\ life.marks = half.marks /\ life.hist = half.hist
      BY <3>1, <3>4 DEF LifeRecs
    <3> QED
      BY <2>7, <3>3, <3>5 DEF half, pct, bid
  <2> HIDE DEF life
  <2>9. Told(st, row, View!IngestRow(st, row))
    <3>1. CASE was.status = "closed" /\ ~row.closed
      BY <2>1, <2>6, <3>1 DEF Told, was
    <3>2. CASE ~(was.status = "closed" /\ ~row.closed)
      <4>1. ~row.closed => \A j \in DOMAIN st.lives :
                             st.lives[j].id = row.id => st.lives[j].status # "closed"
        BY <2>2, <3>2 DEF was
      <4>2. Told(st, row, View!storeLife(st, life))
        BY <2>5, <2>8, <4>1, TellLife
      <4> QED
        BY <2>6, <3>2, <4>2
    <3> QED
      BY <3>1, <3>2
  <2>10. ASSUME was.status = "closed", was.bid = NoRow, row.closed, row.at = was.at,
                row.pct = was.pct
         PROVE  View!IngestRow(st, row) = st
    <3>1. ~View!deskLifeChanged(was, life)
      BY <2>5, <2>7, <2>8, <2>10 DEF View!deskLifeChanged, StatusOf
    <3>2. View!storeLife(st, life) = st
      BY <2>2, <2>8, <3>1 DEF View!storeLife
    <3> QED
      BY <2>6, <3>2
  <2> QED
    BY <2>2, <2>9, <2>10 DEF was
<1> QED
  BY <1>1, <1>2

-----------------------------------------------------------------------------
(* The rows of the desk, one after the other (ingestDeskClosedLots). *)

\* A life of the store st beside the positions ps and the desk's lots dk, at
\* time t.
LifeOK(life, st, ps, dk, t) ==
  /\ Len(life.marks) <= MarkCap /\ life.at <= t
  /\ life.hist => /\ life.status = "closed" /\ life.bid = NoRow
                  /\ st.stamps[life.id] # NoRow /\ life.pct = PctOf[st.stamps[life.id]]
                  /\ life.marks = <<>> /\ life.at = dk[life.id].at
                  /\ dk[life.id].st \in {"closed", "gone"}
  /\ ~life.hist => /\ ps[life.id] # NoRow
                   /\ life.status = "closed" => ps[life.id].closed

\* A lot with a stamp has a closed life.
Stamped(st) ==
  \A l \in 1..N : st.stamps[l] # NoRow =>
    \E k \in DOMAIN st.lives : st.lives[k].id = l /\ st.lives[k].status = "closed"

StoreOK(st, ps, dk, t) ==
  /\ st \in Stores /\ Unique(st.lives)
  /\ \A k \in DOMAIN st.lives : LifeOK(st.lives[k], st, ps, dk, t)
  /\ \A h \in BOOLEAN : Within(st.lives, h)
  /\ Stamped(st)

Positions == [1..N -> RowRecs \cup {NoRow}]

\* A row of deskRowsForStats: the store's, or one made of a settled life of
\* the history that the store does not have.
RowOK(row, ls, ps, t) ==
  /\ row \in RowRecs /\ row.at <= t
  /\ \/ row = ps[row.id]
     \/ /\ ps[row.id] = NoRow
        /\ \E i \in DOMAIN ls :
             /\ ls[i].hist /\ ls[i].id = row.id
             /\ row.closed /\ row.at = ls[i].at /\ row.pct = ls[i].pct

\* What holds while rows are ingested, the store being st0 before: nothing is
\* changed unannounced, an open life is an open position, and a restored life
\* stays unless its position has closed too.
Ingested(st0, st, ps, dk, t) ==
  /\ StoreOK(st, ps, dk, t)
  /\ st.changed = FALSE => st.lives = st0.lives
  /\ \A k \in DOMAIN st.lives :
       st.lives[k].status # "closed" => ps[st.lives[k].id] # NoRow /\ ~ps[st.lives[k].id].closed
  /\ \A i \in DOMAIN st0.lives :
       st0.lives[i].hist /\ (ps[st0.lives[i].id] = NoRow \/ ~ps[st0.lives[i].id].closed)
       => Has(st.lives, st0.lives[i])

LEMMA IngestStep ==
  ASSUME NEW st0, NEW st, NEW ps \in Positions, NEW dk, NEW t, Ingested(st0, st, ps, dk, t),
         NEW row, RowOK(row, st0.lives, ps, t)
  PROVE  Ingested(st0, View!IngestRow(st, row), ps, dk, t)
<1> DEFINE res == View!IngestRow(st, row)
<1>1. /\ st \in Stores /\ Unique(st.lives) /\ row \in RowRecs /\ row.at <= t /\ row.id \in 1..N
      /\ \A i \in DOMAIN st.lives : st.lives[i] \in LifeRecs /\ Len(st.lives[i].marks) <= MarkCap
      /\ \A i \in DOMAIN st.lives : LifeOK(st.lives[i], st, ps, dk, t)
  BY DEF Ingested, StoreOK, LifeOK, RowOK, RowRecs, Stores
<1>2. Told(st, row, res)
  BY <1>1, IngestOne
<1>3. CASE ps[row.id] = NoRow /\ row # ps[row.id]
  <2>1. PICK i \in DOMAIN st0.lives : /\ st0.lives[i].hist /\ st0.lives[i].id = row.id /\ row.closed
                                      /\ row.at = st0.lives[i].at /\ row.pct = st0.lives[i].pct
    BY <1>3 DEF RowOK
  <2>2. PICK j \in DOMAIN st.lives : st.lives[j] = st0.lives[i]
    BY <1>3, <2>1 DEF Ingested, Has
  <2>3. st.lives[j].status = "closed" /\ st.lives[j].bid = NoRow
    BY <1>1, <2>1, <2>2 DEF LifeOK
  <2>4. res = st
    BY <1>1, <2>1, <2>2, <2>3, IngestOne
  <2> QED
    BY <2>4
<1>4. CASE row = ps[row.id] /\ row # NoRow
  <2> HIDE DEF res
  <2>1. CASE res = st
    BY <2>1 DEF res
  <2>2. CASE res # st
    <3>1. ~row.closed => \A i \in DOMAIN st.lives :
                           st.lives[i].id = row.id => st.lives[i].status # "closed"
      BY <1>2, <2>2 DEF Told
    <3>2. PICK life \in LifeRecs :
            /\ life.id = row.id /\ life.status = StatusOf(row) /\ life.at = row.at
            /\ life.hist = FALSE /\ Len(life.marks) <= MarkCap
            /\ Stored(st, life, res)
      BY <1>2, <2>2 DEF Told
    <3>3. LifeOK(life, res, ps, dk, t)
      BY <1>1, <1>4, <3>2 DEF LifeOK, StatusOf
    <3>4. ASSUME NEW k \in DOMAIN res.lives PROVE LifeOK(res.lives[k], res, ps, dk, t)
      <4>1. CASE res.lives[k] = life
        BY <3>3, <4>1
      <4>2. CASE res.lives[k] # life
        <5>1. PICK i \in DOMAIN st.lives : st.lives[i] = res.lives[k]
          BY <3>2, <4>2 DEF Stored, Has
        <5>2. res.lives[k].id \in 1..N
          BY <1>1, <5>1 DEF LifeRecs
        <5>3. res.stamps[res.lives[k].id] = st.stamps[res.lives[k].id]
          BY <3>2, <5>2 DEF Stored, HasId
        <5>4. LifeOK(st.lives[i], st, ps, dk, t)
          BY <1>1
        <5> QED
          BY <5>1, <5>3, <5>4 DEF LifeOK
      <4> QED
        BY <4>1, <4>2
    <3>10. Stamped(res)
      <4>1. SUFFICES ASSUME NEW l \in 1..N, res.stamps[l] # NoRow
                     PROVE  \E k \in DOMAIN res.lives : res.lives[k].id = l /\ res.lives[k].status = "closed"
        BY DEF Stamped
      <4>2. /\ res.stamps[l] = st.stamps[l]
            /\ l = life.id => Has(res.lives, life)
            /\ l # life.id => \A i \in DOMAIN st.lives :
                 st.lives[i].id = l => Has(res.lives, st.lives[i])
        BY <3>2, <4>1 DEF Stored
      <4>3. PICK i \in DOMAIN st.lives : st.lives[i].id = l /\ st.lives[i].status = "closed"
        BY <4>1, <4>2 DEF Ingested, StoreOK, Stamped
      <4>4. CASE l = life.id
        <5>1. life.status = "closed"
          BY <3>1, <3>2, <4>3, <4>4 DEF StatusOf
        <5> QED
          BY <4>2, <4>4, <5>1 DEF Has
      <4>5. CASE l # life.id
        BY <4>2, <4>3, <4>5 DEF Has
      <4> QED
        BY <4>4, <4>5
    <3>5. StoreOK(res, ps, dk, t)
      BY <3>2, <3>4, <3>10 DEF StoreOK, Stored, Ingested
    <3>6. ASSUME NEW k \in DOMAIN res.lives, res.lives[k].status # "closed"
          PROVE  ps[res.lives[k].id] # NoRow /\ ~ps[res.lives[k].id].closed
      <4>1. CASE res.lives[k] = life
        BY <1>4, <3>2, <3>6, <4>1 DEF StatusOf
      <4>2. CASE res.lives[k] # life
        <5>1. PICK i \in DOMAIN st.lives : st.lives[i] = res.lives[k]
          BY <3>2, <4>2 DEF Stored, Has
        <5> QED
          BY <3>6, <5>1 DEF Ingested
      <4> QED
        BY <4>1, <4>2
    <3>7. ASSUME NEW i \in DOMAIN st0.lives, st0.lives[i].hist,
                 ps[st0.lives[i].id] = NoRow \/ ~ps[st0.lives[i].id].closed
          PROVE  Has(res.lives, st0.lives[i])
      <4>1. PICK j \in DOMAIN st.lives : st.lives[j] = st0.lives[i]
        BY <3>7 DEF Ingested, Has
      <4>2. st.lives[j].hist /\ st.lives[j].status = "closed"
        BY <1>1, <3>7, <4>1 DEF LifeOK
      <4>3. st.lives[j].id # life.id
        BY <1>4, <3>1, <3>2, <3>7, <4>1, <4>2
      <4>4. st.lives[j].hist # life.hist
        BY <3>2, <4>2
      <4> QED
        BY <3>2, <4>1, <4>3, <4>4 DEF Stored
    <3>8. res.changed = TRUE
      BY <3>2 DEF Stored
    <3>9. Ingested(st0, res, ps, dk, t)
      BY <3>5, <3>6, <3>7, <3>8 DEF Ingested
    <3> QED
      BY <3>9 DEF res
  <2> QED
    BY <2>1, <2>2
<1>5. NoRow \notin RowRecs
  BY ViewAssumption DEF RowRecs
<1> QED
  BY <1>1, <1>3, <1>4, <1>5 DEF RowOK

\* The first loop lets lives go whose position is no longer open.
LEMMA DropStart ==
  ASSUME NEW st, NEW ps \in Positions, NEW dk, NEW t, StoreOK(st, ps, dk, t), st.changed = FALSE,
         NEW rows \in Seq(RowRecs), \A i \in DOMAIN rows : RowOK(rows[i], st.lives, ps, t)
  PROVE  Ingested(st, View!DropStale(st, rows), ps, dk, t)
<1> DEFINE ls == st.lives
           openIds == {r.id : r \in {x \in View!ToSet(rows) : ~x.closed}}
           I == {i \in DOMAIN ls : ls[i].status = "closed" \/ ls[i].id \in openIds}
           kept == Only(ls, I)
           res == [st EXCEPT !.lives = kept, !.changed = @ \/ Len(kept) < Len(ls)]
<1>1. View!DropStale(st, rows) = res
  BY ViewOnly DEF View!DropStale
<1>2. /\ st \in Stores /\ ls \in Seq(LifeRecs) /\ Unique(ls) /\ I \subseteq DOMAIN ls
      /\ \A i \in I : ls[i].status = "closed" \/ ls[i].id \in openIds
      /\ \A i \in DOMAIN ls : ls[i].status = "closed" => i \in I
      /\ \A i \in DOMAIN ls : ls[i] \in LifeRecs
  BY DEF StoreOK, Stores
<1>3. \A l \in openIds : ps[l] # NoRow /\ ~ps[l].closed
  <2>1. SUFFICES ASSUME NEW i \in DOMAIN rows, ~rows[i].closed
                 PROVE  ps[rows[i].id] # NoRow /\ ~ps[rows[i].id].closed
    BY DEF View!ToSet
  <2>2. RowOK(rows[i], ls, ps, t)
    OBVIOUS
  <2>3. NoRow \notin RowRecs
    BY ViewAssumption DEF RowRecs
  <2> QED
    BY <2>1, <2>2, <2>3 DEF RowOK
<1> HIDE DEF ls, openIds, I, LifeRecs
<1>4. /\ kept \in Seq(LifeRecs) /\ Unique(kept)
      /\ \A k \in DOMAIN kept : \E i \in I : kept[k] = ls[i]
      /\ \A i \in I : Has(kept, ls[i])
      /\ \A h \in BOOLEAN :
           /\ Cardinality(ClassOf(kept, h)) <= Cardinality(ClassOf(ls, h))
           /\ Cardinality(ClassOf(kept, h)) \in Nat /\ Cardinality(ClassOf(ls, h)) \in Nat
  BY <1>2, OnlyLives
<1>5. Len(kept) < Len(ls) \/ kept = ls
  <2>1. IsFiniteSet(DOMAIN ls) /\ Cardinality(DOMAIN ls) = Len(ls) /\ Len(ls) \in Nat
    BY <1>2, PlacesCount
  <2>2. /\ Len(kept) = Cardinality(I) /\ Cardinality(I) \in Nat
        /\ Cardinality(I) <= Cardinality(DOMAIN ls)
        /\ Cardinality(I) = Cardinality(DOMAIN ls) => I = DOMAIN ls
    <3>1. Cardinality(I) <= Cardinality(DOMAIN ls)
      BY <1>2, <2>1, FS_Subset
    <3>2. Cardinality(I) = Cardinality(DOMAIN ls) => I = DOMAIN ls
      BY <1>2, <2>1, FS_Subset
    <3>3. Len(kept) = Cardinality(I) /\ Cardinality(I) \in Nat
      BY <1>2, OnlyKeeps
    <3> QED
      BY <3>1, <3>2, <3>3
  <2>3. I = DOMAIN ls => kept = ls
    BY <1>2, OnlyAll
  <2> QED
    BY <2>1, <2>2, <2>3
<1> HIDE DEF kept
<1>6. /\ res \in Stores /\ res.lives = kept /\ res.stamps = st.stamps
      /\ res.changed = (Len(kept) < Len(ls))
  <2> DEFINE flag == Len(kept) < Len(ls)
             half == [st EXCEPT !.lives = kept]
  <2>1. flag \in BOOLEAN
    OBVIOUS
  <2>2. res = [half EXCEPT !.changed = half.changed \/ flag]
    BY DEF ls
  <2>3. /\ half \in Stores /\ half.lives = kept /\ half.stamps = st.stamps
        /\ half.changed = FALSE
    BY <1>2, <1>4 DEF Stores
  <2> HIDE DEF half, flag, res
  <2>4. res = [half EXCEPT !.changed = flag]
    BY <2>1, <2>2, <2>3
  <2>5. /\ res \in Stores /\ res.lives = half.lives /\ res.stamps = half.stamps
        /\ res.changed = flag
    BY <2>1, <2>3, <2>4 DEF Stores
  <2> QED
    BY <2>3, <2>5 DEF flag
<1> HIDE DEF res
<1>7. ASSUME NEW k \in DOMAIN kept PROVE LifeOK(kept[k], res, ps, dk, t)
  <2>1. PICK i \in I : kept[k] = ls[i]
    BY <1>4
  <2>2. LifeOK(ls[i], st, ps, dk, t)
    BY <1>2 DEF StoreOK, ls
  <2> QED
    BY <1>6, <2>1, <2>2 DEF LifeOK
<1>8. ASSUME NEW h \in BOOLEAN PROVE Within(kept, h)
  <2>1. Within(ls, h)
    BY DEF StoreOK, ls
  <2>2. \A k \in DOMAIN kept : kept[k].hist = h => Has(ls, kept[k])
    BY <1>2, <1>4 DEF Has
  <2> QED
    BY <1>4, <2>1, <2>2, StaysWithin
<1>14. Stamped(res)
  <2>1. SUFFICES ASSUME NEW l \in 1..N, st.stamps[l] # NoRow
                 PROVE  \E k \in DOMAIN kept : kept[k].id = l /\ kept[k].status = "closed"
    BY <1>6 DEF Stamped
  <2>2. PICK i \in DOMAIN ls : ls[i].id = l /\ ls[i].status = "closed"
    BY <2>1 DEF StoreOK, Stamped, ls
  <2> QED
    BY <1>2, <1>4, <2>2 DEF Has
<1>9. StoreOK(res, ps, dk, t)
  BY <1>4, <1>6, <1>7, <1>8, <1>14 DEF StoreOK
<1>10. \A k \in DOMAIN kept :
         kept[k].status # "closed" => ps[kept[k].id] # NoRow /\ ~ps[kept[k].id].closed
  BY <1>2, <1>3, <1>4
<1>11. ASSUME NEW i \in DOMAIN ls, ls[i].hist PROVE Has(kept, ls[i])
  <2>1. LifeOK(ls[i], st, ps, dk, t)
    BY DEF StoreOK, ls
  <2> QED
    BY <1>2, <1>4, <1>11, <2>1 DEF LifeOK
<1>12. res.changed = FALSE => res.lives = ls
  BY <1>5, <1>6
<1>13. Ingested(st, res, ps, dk, t)
  BY <1>6, <1>9, <1>10, <1>11, <1>12 DEF Ingested, ls
<1> QED
  BY <1>1, <1>13

\* All the rows.
LEMMA IngestAll ==
  ASSUME NEW st, NEW ps \in Positions, NEW dk, NEW t, StoreOK(st, ps, dk, t), st.changed = FALSE,
         NEW rows \in Seq(RowRecs), \A i \in DOMAIN rows : RowOK(rows[i], st.lives, ps, t)
  PROVE  Ingested(st, View!ingestDeskClosedLots(st, rows), ps, dk, t)
<1> DEFINE C == {s \in Stores : Ingested(st, s, ps, dk, t)}
           base == View!DropStale(st, rows)
           n == Len(rows)
           step(T, h) == IF T = {} THEN base ELSE View!IngestRow(h[T \ {Greatest(T)}], rows[Greatest(T)])
           Runs(h) == h = [T \in SUBSET (1..n) |-> step(T, h)]
           run == CHOOSE h : Runs(h)
           g == [c \in (1..n) \X C |-> View!IngestRow(c[2], rows[c[1]])]
<1>1. n \in Nat /\ DOMAIN rows = 1..n
  OBVIOUS
<1>2. View!ingestDeskClosedLots(st, rows) = run[1..n]
  BY <1>1 DEF View!ingestDeskClosedLots, View!FoldLeft, View!MapThenFoldSet, View!Max, Greatest
<1>3. base \in C
  BY DropStart DEF Ingested, StoreOK
<1>4. ASSUME NEW k \in 1..n, NEW s \in C PROVE View!IngestRow(s, rows[k]) \in C
  <2>1. Ingested(st, View!IngestRow(s, rows[k]), ps, dk, t)
    BY <1>1, <1>4, IngestStep
  <2> QED
    BY <2>1 DEF Ingested, StoreOK
<1> HIDE DEF C, base, n
<1>5. \E h : Runs(h)
  <2>1. g \in [(1..n) \X C -> C] /\ \A k \in 1..n, s \in C : g[<<k, s>>] = View!IngestRow(s, rows[k])
    BY <1>4
  <2> HIDE DEF g
  <2>2. PICK h \in [SUBSET (1..n) -> C] : Folds(n, base, g, h)
    BY <1>1, <1>3, <2>1, FoldExists
  <2>3. ASSUME NEW T \in SUBSET (1..n), T # {}
        PROVE  g[<<Greatest(T), h[T \ {Greatest(T)}]>>] = View!IngestRow(h[T \ {Greatest(T)}], rows[Greatest(T)])
    <3>1. \E j \in T : \A i \in T : j >= i
      BY <1>1, <2>3, GreatestNumber
    <3>2. Greatest(T) \in 1..n
      BY <2>3, <3>1 DEF Greatest
    <3>3. h[T \ {Greatest(T)}] \in C
      OBVIOUS
    <3> QED
      BY <2>1, <3>2, <3>3
  <2>4. Runs(h)
    BY <2>2, <2>3 DEF Folds
  <2> QED
    BY <2>4
<1>6. Runs(run)
  BY <1>5
<1> HIDE DEF run
<1>7. run[1..0] \in C
  <2>1. 1..0 = {} /\ 1..0 \in SUBSET (1..n)
    BY <1>1
  <2> QED
    BY <1>3, <1>6, <2>1
<1>8. ASSUME NEW k \in 0..(n - 1), run[1..k] \in C PROVE run[1..(k + 1)] \in C
  <2>1. /\ k \in Nat /\ k + 1 \in 1..n /\ 1..(k + 1) \in SUBSET (1..n)
    BY <1>1
  <2>2. /\ 1..(k + 1) # {} /\ Greatest(1..(k + 1)) = k + 1
        /\ 1..(k + 1) \ {Greatest(1..(k + 1))} = 1..k
    BY <2>1, GreatestOfAll
  <2>3. run[1..(k + 1)] = View!IngestRow(run[1..k], rows[k + 1])
    BY <1>6, <2>1, <2>2
  <2> QED
    BY <1>4, <1>8, <2>1, <2>3
<1> HIDE DEF Runs
<1>9. run[1..n] \in C
  BY <1>1, <1>7, <1>8, FoldStays
<1> QED
  BY <1>2, <1>9 DEF C

-----------------------------------------------------------------------------
(* The entries of a closed listing (ingestHistoryClosedEntry). *)

EntryOK(e, dk, t) ==
  /\ e \in [id : 1..N, stamp : Stamps, at : Nat] /\ e.at <= t
  /\ e.at = dk[e.id].at /\ dk[e.id].st \in {"closed", "gone"}

\* What holds while entries are ingested, the store being st0 before: nothing
\* is changed unannounced and a life of the session was there as it is.
Listed(st0, st, ps, dk, t) ==
  /\ StoreOK(st, ps, dk, t)
  /\ st.changed = FALSE => st.lives = st0.lives
  /\ \A k \in DOMAIN st.lives : ~st.lives[k].hist => Has(st0.lives, st.lives[k])

LEMMA ListStep ==
  ASSUME NEW st0, NEW st, NEW ps, NEW dk, NEW t, Listed(st0, st, ps, dk, t), NEW e, EntryOK(e, dk, t)
  PROVE  Listed(st0, View!ingestHistoryClosedEntry(st, e), ps, dk, t)
<1> DEFINE was == View!LifeOf(st.lives, e.id)
           row == View!Row(e.id, TRUE, NoRow, PctOf[e.stamp], e.at)
           known == View!Known(st.lives, e.id)
           st2 == [st EXCEPT !.stamps[e.id] = e.stamp]
           marks == IF known THEN was.marks ELSE <<>>
           life == View!Life(row, marks, TRUE)
           res == View!storeLife(st2, life)
           after == View!ingestHistoryClosedEntry(st, e)
<1>1. \/ after = st
      \/ after = res /\ (known => was.hist)
  BY DEF View!ingestHistoryClosedEntry
<1>2. /\ st \in Stores /\ Unique(st.lives) /\ e.id \in 1..N /\ e.stamp \in Stamps
      /\ e.at \in Nat /\ e.at <= t /\ e.at = dk[e.id].at /\ dk[e.id].st \in {"closed", "gone"}
      /\ \A k \in DOMAIN st.lives : LifeOK(st.lives[k], st, ps, dk, t) /\ st.lives[k] \in LifeRecs
  BY DEF Listed, StoreOK, EntryOK, Stores
<1>3. row \in RowRecs /\ row.id = e.id /\ row.closed /\ row.at = e.at /\ row.pct = PctOf[e.stamp]
  BY <1>2, ViewAssumption DEF View!Row, RowRecs
<1>4. /\ marks \in Seq(Bids) /\ Len(marks) <= MarkCap
      /\ (known => was.hist) => marks = <<>>
  <2>1. CASE ~known
    BY <2>1, ViewAssumption
  <2>2. CASE known
    <3>1. PICK i \in DOMAIN st.lives : st.lives[i].id = e.id
      BY <2>2 DEF View!Known
    <3>2. was = st.lives[i]
      BY <1>2, <3>1, LifeFound
    <3>3. was \in LifeRecs /\ Len(was.marks) <= MarkCap /\ (was.hist => was.marks = <<>>)
      BY <1>2, <3>2 DEF LifeOK
    <3>4. was.marks \in Seq(Bids)
      BY <3>3 DEF LifeRecs
    <3> HIDE DEF was, known
    <3> QED
      BY <2>2, <3>3, <3>4
  <2> QED
    BY <2>1, <2>2
<1>5. /\ st2 \in Stores /\ st2.lives = st.lives /\ st2.changed = st.changed
      /\ st2.stamps[e.id] = e.stamp
      /\ \A l \in 1..N : l # e.id => st2.stamps[l] = st.stamps[l]
  BY <1>2 DEF Stores
<1> HIDE DEF row, marks, st2
<1>6. /\ life \in LifeRecs /\ life.id = e.id /\ life.status = "closed" /\ life.at = e.at
      /\ life.marks = marks /\ life.hist = TRUE /\ life.pct = PctOf[e.stamp] /\ life.bid = NoRow
  BY <1>3, <1>4, LifeTyped DEF StatusOf
<1> HIDE DEF life, was, known, res, after
<1>7. e.stamp # NoRow
  BY <1>2, ViewAssumption
<1>8. CASE after = st
  BY <1>8 DEF after
<1>9. CASE after = res /\ (known => was.hist)
  <2>1. \/ /\ res = st2 /\ known /\ ~View!deskLifeChanged(was, life)
        \/ Stored(st2, life, res)
    <3>1. Unique(st2.lives)
      BY <1>2, <1>5
    <3> QED
      BY <1>5, <1>6, <3>1, StoreLife DEF res, was, known
  <2>2. CASE res = st2 /\ known /\ ~View!deskLifeChanged(was, life)
    <3>1. PICK i \in DOMAIN st.lives : st.lives[i].id = e.id
      BY <2>2 DEF View!Known, known
    <3>2. was = st.lives[i] /\ \A j \in DOMAIN st.lives : st.lives[j].id = e.id => j = i
      BY <1>2, <3>1, LifeFound DEF was, Unique
    <3>3. st.lives[i].pct = PctOf[e.stamp]
      BY <1>6, <2>2, <3>2 DEF View!deskLifeChanged
    <3>4. ASSUME NEW k \in DOMAIN st.lives PROVE LifeOK(st.lives[k], st2, ps, dk, t)
      <4>1. LifeOK(st.lives[k], st, ps, dk, t) /\ st.lives[k].id \in 1..N
        BY <1>2 DEF LifeRecs
      <4> QED
        BY <1>5, <1>7, <3>1, <3>2, <3>3, <4>1 DEF LifeOK
    <3>7. Stamped(st2)
      <4>1. st.lives[i].status = "closed"
        BY <1>2, <1>9, <2>2, <3>2 DEF LifeOK
      <4> QED
        BY <1>5, <3>1, <4>1 DEF Stamped, Listed, StoreOK
    <3>5. StoreOK(st2, ps, dk, t)
      BY <1>5, <3>4, <3>7 DEF StoreOK, Listed
    <3>6. Listed(st0, st2, ps, dk, t)
      BY <1>5, <3>5 DEF Listed
    <3> QED
      BY <1>9, <2>2, <3>6 DEF after
  <2>3. CASE Stored(st2, life, res)
    <3>1. ASSUME NEW k \in DOMAIN res.lives PROVE LifeOK(res.lives[k], res, ps, dk, t)
      <4>1. res.lives[k].id \in 1..N
        <5>1. res.lives \in Seq(LifeRecs)
          BY <2>3 DEF Stored, Stores
        <5>2. res.lives[k] \in LifeRecs
          BY <5>1
        <5> QED
          BY <5>2 DEF LifeRecs
      <4>2. res.stamps[res.lives[k].id] = st2.stamps[res.lives[k].id]
        BY <2>3, <4>1 DEF Stored, HasId
      <4>3. CASE res.lives[k] = life
        BY <1>2, <1>4, <1>5, <1>6, <1>7, <1>9, <4>2, <4>3 DEF LifeOK
      <4>4. CASE res.lives[k] # life
        <5>1. PICK i \in DOMAIN st.lives : st.lives[i] = res.lives[k] /\ st.lives[i].id # e.id
          BY <1>5, <1>6, <2>3, <4>4 DEF Stored, Has
        <5>2. LifeOK(st.lives[i], st, ps, dk, t)
          BY <1>2
        <5> QED
          BY <1>5, <4>1, <4>2, <5>1, <5>2 DEF LifeOK
      <4> QED
        BY <4>3, <4>4
    <3>2. ASSUME NEW h \in BOOLEAN PROVE Within(res.lives, h)
      BY <1>5, <2>3 DEF Stored, Listed, StoreOK
    <3>7. Stamped(res)
      <4>1. SUFFICES ASSUME NEW l \in 1..N, res.stamps[l] # NoRow
                     PROVE  \E k \in DOMAIN res.lives : res.lives[k].id = l /\ res.lives[k].status = "closed"
        BY DEF Stamped
      <4>2. /\ res.stamps[l] = st2.stamps[l]
            /\ l = e.id => Has(res.lives, life)
            /\ l # e.id => \A i \in DOMAIN st.lives :
                 st.lives[i].id = l => Has(res.lives, st.lives[i])
        BY <1>5, <1>6, <2>3, <4>1 DEF Stored
      <4>3. CASE l = e.id
        BY <1>6, <4>2, <4>3 DEF Has
      <4>4. CASE l # e.id
        <5>1. PICK i \in DOMAIN st.lives : st.lives[i].id = l /\ st.lives[i].status = "closed"
          BY <1>5, <4>1, <4>2, <4>4 DEF Listed, StoreOK, Stamped
        <5> QED
          BY <4>2, <4>4, <5>1 DEF Has
      <4> QED
        BY <4>3, <4>4
    <3>3. StoreOK(res, ps, dk, t)
      BY <2>3, <3>1, <3>2, <3>7 DEF StoreOK, Stored
    <3>4. ASSUME NEW k \in DOMAIN res.lives, ~res.lives[k].hist
          PROVE  Has(st0.lives, res.lives[k])
      <4>1. Has(st.lives, res.lives[k])
        BY <1>5, <1>6, <2>3, <3>4 DEF Stored
      <4> QED
        BY <3>4, <4>1 DEF Listed, Has
    <3>5. res.changed = TRUE
      BY <2>3 DEF Stored
    <3>6. Listed(st0, res, ps, dk, t)
      BY <3>3, <3>4, <3>5 DEF Listed
    <3> QED
      BY <1>9, <3>6 DEF after
  <2> QED
    BY <2>1, <2>2, <2>3
<1> QED
  BY <1>1, <1>8, <1>9

LEMMA ListAll ==
  ASSUME NEW st, NEW ps, NEW dk, NEW t, StoreOK(st, ps, dk, t), NEW T, NEW es \in Seq(T),
         \A i \in DOMAIN es : EntryOK(es[i], dk, t)
  PROVE  Listed(st, View!FoldLeft(View!ingestHistoryClosedEntry, st, es), ps, dk, t)
<1> DEFINE C == {s \in Stores : Listed(st, s, ps, dk, t)}
           n == Len(es)
           step(U, h) == IF U = {} THEN st
                         ELSE View!ingestHistoryClosedEntry(h[U \ {Greatest(U)}], es[Greatest(U)])
           Runs(h) == h = [U \in SUBSET (1..n) |-> step(U, h)]
           run == CHOOSE h : Runs(h)
           g == [c \in (1..n) \X C |-> View!ingestHistoryClosedEntry(c[2], es[c[1]])]
<1>1. n \in Nat /\ DOMAIN es = 1..n
  OBVIOUS
<1>2. View!FoldLeft(View!ingestHistoryClosedEntry, st, es) = run[1..n]
  BY <1>1 DEF View!FoldLeft, View!MapThenFoldSet, View!Max, Greatest
<1>3. st \in C
  BY DEF Listed, StoreOK, Has
<1>4. ASSUME NEW k \in 1..n, NEW s \in C PROVE View!ingestHistoryClosedEntry(s, es[k]) \in C
  <2>1. Listed(st, View!ingestHistoryClosedEntry(s, es[k]), ps, dk, t)
    BY <1>1, <1>4, ListStep
  <2> QED
    BY <2>1 DEF Listed, StoreOK
<1> HIDE DEF C, n
<1>5. \E h : Runs(h)
  <2>1. /\ g \in [(1..n) \X C -> C]
        /\ \A k \in 1..n, s \in C : g[<<k, s>>] = View!ingestHistoryClosedEntry(s, es[k])
    BY <1>4
  <2> HIDE DEF g
  <2>2. PICK h \in [SUBSET (1..n) -> C] : Folds(n, st, g, h)
    BY <1>1, <1>3, <2>1, FoldExists
  <2>3. ASSUME NEW U \in SUBSET (1..n), U # {}
        PROVE  g[<<Greatest(U), h[U \ {Greatest(U)}]>>]
                 = View!ingestHistoryClosedEntry(h[U \ {Greatest(U)}], es[Greatest(U)])
    <3>1. \E j \in U : \A i \in U : j >= i
      BY <1>1, <2>3, GreatestNumber
    <3>2. Greatest(U) \in 1..n
      BY <2>3, <3>1 DEF Greatest
    <3>3. h[U \ {Greatest(U)}] \in C
      OBVIOUS
    <3> QED
      BY <2>1, <3>2, <3>3
  <2>4. Runs(h)
    BY <2>2, <2>3 DEF Folds
  <2> QED
    BY <2>4
<1>6. Runs(run)
  BY <1>5
<1> HIDE DEF run
<1>7. run[1..0] \in C
  <2>1. 1..0 = {} /\ 1..0 \in SUBSET (1..n)
    BY <1>1
  <2> QED
    BY <1>3, <1>6, <2>1
<1>8. ASSUME NEW k \in 0..(n - 1), run[1..k] \in C PROVE run[1..(k + 1)] \in C
  <2>1. /\ k \in Nat /\ k + 1 \in 1..n /\ 1..(k + 1) \in SUBSET (1..n)
    BY <1>1
  <2>2. /\ 1..(k + 1) # {} /\ Greatest(1..(k + 1)) = k + 1
        /\ 1..(k + 1) \ {Greatest(1..(k + 1))} = 1..k
    BY <2>1, GreatestOfAll
  <2>3. run[1..(k + 1)] = View!ingestHistoryClosedEntry(run[1..k], es[k + 1])
    BY <1>6, <2>1, <2>2
  <2> QED
    BY <1>4, <1>8, <2>1, <2>3
<1> HIDE DEF Runs
<1>9. run[1..n] \in C
  BY <1>1, <1>7, <1>8, FoldStays
<1> QED
  BY <1>2, <1>9 DEF C

-----------------------------------------------------------------------------
(* The rows the counts are made of. *)

LEMMA RowsOfPositions ==
  ASSUME NEW ps \in Positions, NEW rows, rows = View!positionRows(ps)
  PROVE  /\ DOMAIN rows = 1..Len(rows) /\ Len(rows) \in Nat
         /\ rows \in Seq(RowRecs)
         /\ \A k \in DOMAIN rows : \E l \in 1..N : ps[l] # NoRow /\ rows[k] = ps[l]
         /\ \A l \in 1..N : ps[l] # NoRow => \E k \in DOMAIN rows : rows[k] = ps[l]
         /\ \A j, k \in DOMAIN rows : j # k =>
              \E a, b \in 1..N : a # b /\ ps[a] # NoRow /\ ps[b] # NoRow
                                 /\ rows[j] = ps[a] /\ rows[k] = ps[b]
<1> DEFINE I == {l \in 1..N : ps[l] # NoRow}
           some == RowRecs \cup {NoRow}
<1>1. N \in Nat /\ ps \in [1..N -> some] /\ rows = Only(ps, I)
  BY ViewAssumption, ViewOnly DEF View!positionRows, View!Lots, Positions
<1>2. ps \in Seq(some) /\ DOMAIN ps = 1..N
  BY <1>1
<1>3. /\ I \subseteq DOMAIN ps /\ \A l \in I : ps[l] \in RowRecs
      /\ \A l \in I : l \in 1..N /\ ps[l] # NoRow
      /\ \A l \in 1..N : ps[l] # NoRow => l \in I
  BY <1>1, <1>2
<1> HIDE DEF some, I
<1>4. ps \in Seq(some) /\ I \subseteq DOMAIN ps /\ rows = Only(ps, I)
  BY <1>1, <1>2, <1>3
<1>5. /\ rows \in Seq(some) /\ DOMAIN rows = 1..Len(rows) /\ Len(rows) \in Nat
      /\ \A k \in DOMAIN rows : \E l \in I : rows[k] = ps[l]
      /\ \A l \in I : \E k \in DOMAIN rows : rows[k] = ps[l]
      /\ \A j, k \in DOMAIN rows : j # k =>
           \E a, b \in I : a # b /\ rows[j] = ps[a] /\ rows[k] = ps[b]
  BY ONLY <1>4, OnlyOf
<1>6. rows \in Seq(RowRecs)
  BY <1>3, <1>5
<1>7. \A j, k \in DOMAIN rows : j # k =>
        \E a, b \in I : a # b /\ rows[j] = ps[a] /\ rows[k] = ps[b]
  BY <1>5
<1>8. \A k \in DOMAIN rows : \E l \in 1..N : ps[l] # NoRow /\ rows[k] = ps[l]
  BY <1>3, <1>5
<1>9. \A l \in 1..N : ps[l] # NoRow => \E k \in DOMAIN rows : rows[k] = ps[l]
  BY <1>3, <1>5
<1>10. ASSUME NEW j \in DOMAIN rows, NEW k \in DOMAIN rows, j # k
       PROVE  \E a, b \in 1..N : a # b /\ ps[a] # NoRow /\ ps[b] # NoRow
                                 /\ rows[j] = ps[a] /\ rows[k] = ps[b]
  BY <1>3, <1>7, <1>10
<1> QED
  BY <1>5, <1>6, <1>8, <1>9, <1>10

\* The rows of deskRowsForStats: the positions, then the settled lives that
\* are not among them, each lot once when its position is under its own name.
LEMMA RowsForStats ==
  ASSUME NEW ps \in Positions, \A l \in 1..N : ps[l] # NoRow => ps[l].id = l,
         NEW ls \in Seq(LifeRecs), Unique(ls),
         NEW rows, rows = View!deskRowsForStats(ps, ls)
  PROVE  /\ rows \in Seq(RowRecs)
         /\ \A k \in DOMAIN rows :
              \/ \E l \in 1..N : ps[l] # NoRow /\ rows[k] = ps[l]
              \/ \E i \in DOMAIN ls : /\ ls[i].status = "closed" /\ ps[ls[i].id] = NoRow
                                      /\ rows[k] = View!deskRowFromClosedLife(ls[i])
         /\ \A i, j \in DOMAIN rows : rows[i].id = rows[j].id => i = j
         /\ \A i \in DOMAIN ls : ls[i].status = "closed" /\ ls[i].pct # NoRow =>
              \E k \in DOMAIN rows : rows[k].id = ls[i].id
<1> DEFINE I == {i \in DOMAIN ls : ls[i].status = "closed" /\ ls[i].pct # NoRow
                                   /\ ps[ls[i].id] = NoRow}
           held == Only(ls, I)
           front == View!positionRows(ps)
           back == [i \in DOMAIN held |-> View!deskRowFromClosedLife(held[i])]
<1>1. rows = front \o back
  BY ViewOnly DEF View!deskRowsForStats
<1>2. /\ DOMAIN front = 1..Len(front) /\ Len(front) \in Nat /\ front \in Seq(RowRecs)
      /\ \A k \in DOMAIN front : \E l \in 1..N : ps[l] # NoRow /\ front[k] = ps[l]
      /\ \A l \in 1..N : ps[l] # NoRow => \E k \in DOMAIN front : front[k] = ps[l]
      /\ \A j, k \in DOMAIN front : j # k =>
           \E a, b \in 1..N : a # b /\ ps[a] # NoRow /\ ps[b] # NoRow
                              /\ front[j] = ps[a] /\ front[k] = ps[b]
  BY RowsOfPositions
<1>3. /\ I \subseteq DOMAIN ls
      /\ \A i \in I : /\ i \in DOMAIN ls /\ ls[i].status = "closed" /\ ls[i].pct # NoRow
                      /\ ps[ls[i].id] = NoRow
      /\ \A i \in DOMAIN ls : ls[i].status = "closed" /\ ls[i].pct # NoRow
                              /\ ps[ls[i].id] = NoRow => i \in I
      /\ \A i \in DOMAIN ls : ls[i] \in LifeRecs /\ ls[i].id \in 1..N
  <2>1. \A i \in DOMAIN ls : ls[i] \in LifeRecs
    OBVIOUS
  <2>2. \A i \in DOMAIN ls : ls[i].id \in 1..N
    BY <2>1 DEF LifeRecs
  <2> HIDE DEF LifeRecs
  <2> QED
    BY <2>1, <2>2
<1>4. ASSUME NEW x \in LifeRecs
      PROVE  /\ View!deskRowFromClosedLife(x) \in RowRecs
             /\ View!deskRowFromClosedLife(x).id = x.id
  BY DEF View!deskRowFromClosedLife, View!Row, LifeRecs, RowRecs
<1> HIDE DEF I, held, front, LifeRecs, RowRecs, Positions
<1>5. /\ held \in Seq(LifeRecs) /\ Unique(held)
      /\ \A k \in DOMAIN held : \E i \in I : held[k] = ls[i]
      /\ \A i \in I : Has(held, ls[i])
  BY <1>3, OnlyLives DEF held
<1>6. /\ DOMAIN held = 1..Len(held) /\ Len(held) \in Nat
      /\ back \in Seq(RowRecs) /\ Len(back) = Len(held) /\ DOMAIN back = DOMAIN held
      /\ \A k \in DOMAIN held : back[k] = View!deskRowFromClosedLife(held[k]) /\ back[k].id = held[k].id
  <2>1. DOMAIN held = 1..Len(held) /\ Len(held) \in Nat
    BY <1>5
  <2>2. \A k \in DOMAIN held : held[k] \in LifeRecs
    BY <1>5
  <2>3. /\ DOMAIN back = DOMAIN held
        /\ \A k \in DOMAIN held : back[k] = View!deskRowFromClosedLife(held[k])
    OBVIOUS
  <2>4. back \in [1..Len(held) -> RowRecs]
    BY <1>4, <2>1, <2>2
  <2> HIDE DEF back
  <2>5. back \in Seq(RowRecs) /\ Len(back) = Len(held)
    BY <2>1, <2>4
  <2> QED
    BY <1>4, <2>1, <2>2, <2>3, <2>5
<1> HIDE DEF back
<1>7. /\ rows \in Seq(RowRecs)
      /\ \A k \in DOMAIN rows : \/ k \in DOMAIN front /\ rows[k] = front[k]
                                \/ k - Len(front) \in DOMAIN back /\ rows[k] = back[k - Len(front)]
                                   /\ k \in Int /\ k \notin DOMAIN front
      /\ \A k \in DOMAIN front : k \in DOMAIN rows /\ rows[k] = front[k]
      /\ \A k \in DOMAIN back : k + Len(front) \in DOMAIN rows /\ rows[k + Len(front)] = back[k]
  <2>1. /\ front \in Seq(RowRecs) /\ back \in Seq(RowRecs)
        /\ DOMAIN front = 1..Len(front) /\ Len(front) \in Nat
        /\ DOMAIN back = 1..Len(back) /\ Len(back) \in Nat
    BY <1>2, <1>6
  <2>2. rows \in Seq(RowRecs)
    BY <1>1, <2>1
  <2> DEFINE m == Len(front)
             n == Len(back)
  <2>3. /\ rows = front \o back /\ m \in Nat /\ n \in Nat
        /\ DOMAIN rows = 1..(m + n)
        /\ \A k \in 1..(m + n) : rows[k] = IF k <= m THEN front[k] ELSE back[k - m]
    BY <1>1, <2>1
  <2> HIDE DEF m, n
  <2>4. DOMAIN front = 1..m /\ DOMAIN back = 1..n
    BY <2>1 DEF m, n
  <2>5. ASSUME NEW k \in DOMAIN rows
        PROVE  \/ k \in DOMAIN front /\ rows[k] = front[k]
               \/ /\ k - m \in DOMAIN back /\ rows[k] = back[k - m]
                  /\ k \in Int /\ k \notin DOMAIN front
    <3>1. k \in 1..(m + n)
      BY <2>3
    <3>2. CASE k <= m
      BY <2>3, <2>4, <3>1, <3>2
    <3>3. CASE ~(k <= m)
      <4>1. k - m \in 1..n /\ k \in Int /\ k \notin 1..m
        BY <2>3, <3>1, <3>3
      <4>2. rows[k] = back[k - m]
        BY <2>3, <3>1, <3>3
      <4> QED
        BY <2>4, <4>1, <4>2
    <3> QED
      BY <3>2, <3>3
  <2>6. ASSUME NEW k \in DOMAIN front PROVE k \in DOMAIN rows /\ rows[k] = front[k]
    <3>1. k \in 1..(m + n) /\ k <= m
      BY <2>3, <2>4
    <3> QED
      BY <2>3, <3>1
  <2>7. ASSUME NEW k \in DOMAIN back PROVE k + m \in DOMAIN rows /\ rows[k + m] = back[k]
    <3>1. k + m \in 1..(m + n) /\ ~(k + m <= m) /\ (k + m) - m = k
      BY <2>3, <2>4
    <3> QED
      BY <2>3, <3>1
  <2> QED
    BY <2>2, <2>5, <2>6, <2>7 DEF m
<1>8. \A k \in DOMAIN back : \E i \in DOMAIN ls :
        /\ ls[i].status = "closed" /\ ps[ls[i].id] = NoRow
        /\ back[k] = View!deskRowFromClosedLife(ls[i]) /\ back[k].id = ls[i].id
  BY <1>3, <1>5, <1>6
<1>9. \A k \in DOMAIN rows :
        \/ \E l \in 1..N : ps[l] # NoRow /\ rows[k] = ps[l]
        \/ \E i \in DOMAIN ls : /\ ls[i].status = "closed" /\ ps[ls[i].id] = NoRow
                                /\ rows[k] = View!deskRowFromClosedLife(ls[i])
  <2> TAKE k \in DOMAIN rows
  <2>1. CASE k \in DOMAIN front /\ rows[k] = front[k]
    BY <1>2, <2>1
  <2>2. CASE k - Len(front) \in DOMAIN back /\ rows[k] = back[k - Len(front)]
    BY <1>8, <2>2
  <2> QED
    BY <1>7, <2>1, <2>2
<1>10. ASSUME NEW i \in DOMAIN ls, ls[i].status = "closed", ls[i].pct # NoRow
       PROVE  \E k \in DOMAIN rows : rows[k].id = ls[i].id
  <2>1. CASE ps[ls[i].id] = NoRow
    <3>1. i \in I
      BY <1>3, <1>10, <2>1
    <3>2. PICK k \in DOMAIN held : held[k] = ls[i]
      BY <1>5, <3>1 DEF Has
    <3> QED
      BY <1>6, <1>7, <3>2
  <2>2. CASE ps[ls[i].id] # NoRow
    <3>1. ls[i].id \in 1..N /\ ps[ls[i].id].id = ls[i].id
      BY <1>3, <2>2
    <3> QED
      BY <1>2, <1>7, <2>2, <3>1
  <2> QED
    BY <2>1, <2>2
<1>11. ASSUME NEW j \in DOMAIN rows, NEW k \in DOMAIN rows, rows[j].id = rows[k].id
       PROVE  j = k
  <2>1. ASSUME NEW a \in DOMAIN front, NEW b \in DOMAIN front, front[a].id = front[b].id
        PROVE  a = b
    <3>1. SUFFICES ASSUME a # b PROVE FALSE
      OBVIOUS
    <3>2. PICK c \in 1..N, d \in 1..N : c # d /\ ps[c] # NoRow /\ ps[d] # NoRow
                                       /\ front[a] = ps[c] /\ front[b] = ps[d]
      BY <1>2, <3>1
    <3>3. front[a].id = c /\ front[b].id = d
      BY <3>2
    <3> QED
      BY <2>1, <3>2, <3>3
  <2>2. ASSUME NEW a \in DOMAIN front, NEW b \in DOMAIN back PROVE front[a].id # back[b].id
    BY <1>2, <1>8, <2>2
  <2>3. ASSUME NEW a \in DOMAIN back, NEW b \in DOMAIN back, back[a].id = back[b].id
        PROVE  a = b
    BY <1>5, <1>6, <2>3 DEF Unique
  <2>4. CASE j \in DOMAIN front /\ k \in DOMAIN front
    BY <1>7, <1>11, <2>1, <2>4
  <2>5. CASE j \notin DOMAIN front /\ k \notin DOMAIN front
    <3>1. /\ j - Len(front) \in DOMAIN back /\ rows[j] = back[j - Len(front)] /\ j \in Int
          /\ k - Len(front) \in DOMAIN back /\ rows[k] = back[k - Len(front)] /\ k \in Int
      BY <1>7, <2>5
    <3>2. j - Len(front) = k - Len(front)
      BY <1>11, <2>3, <3>1
    <3> QED
      BY <1>2, <3>1, <3>2
  <2> QED
    BY <1>7, <1>11, <2>2, <2>4, <2>5
<1> QED
  BY <1>7, <1>9, <1>10, <1>11

-----------------------------------------------------------------------------
(* The chart's window. *)

Samples == [at : Nat, books : [Books -> [closed : Nat, open : Nat, wins : Nat]]]

\* A window of samples that runs forward and ends by time t.
Forward(w, t) ==
  /\ w \in Seq(Samples)
  /\ \A i, j \in DOMAIN w : i < j => w[i].at <= w[j].at
  /\ \A i \in DOMAIN w : w[i].at <= t

LEMMA SampleTyped ==
  ASSUME NEW rows \in Seq(RowRecs), NEW t \in Nat
  PROVE  View!Sample(t, rows) \in Samples /\ View!Sample(t, rows).at = t
<1>1. ASSUME NEW I, I \subseteq DOMAIN rows PROVE View!Cardinality(I) \in Nat
  <2>1. IsFiniteSet(DOMAIN rows)
    BY PlacesCount
  <2>2. IsFiniteSet(I)
    BY <1>1, <2>1, FS_Subset
  <2> QED
    BY <2>2, ViewCardinality, FS_CardinalityType
<1>2. ASSUME NEW b \in Books PROVE View!summarizeBook(rows, b) \in [closed : Nat, open : Nat, wins : Nat]
  <2> DEFINE mine == {i \in DOMAIN rows : BookOf[rows[i].id] = b}
             scored == {i \in mine : rows[i].closed /\ rows[i].pct # NoRow}
             opened == {i \in mine : ~rows[i].closed}
             won == {i \in scored : rows[i].pct > 0}
  <2>1. View!summarizeBook(rows, b) = [closed |-> View!Cardinality(scored),
                                       open |-> View!Cardinality(opened),
                                       wins |-> View!Cardinality(won)]
    BY DEF View!summarizeBook
  <2>2. scored \subseteq DOMAIN rows /\ opened \subseteq DOMAIN rows /\ won \subseteq DOMAIN rows
    OBVIOUS
  <2> HIDE DEF scored, opened, won
  <2>3. View!Cardinality(scored) \in Nat /\ View!Cardinality(opened) \in Nat /\ View!Cardinality(won) \in Nat
    BY <1>1, <2>2
  <2> QED
    BY <2>1, <2>3
<1>3. [b \in Books |-> View!summarizeBook(rows, b)] \in [Books -> [closed : Nat, open : Nat, wins : Nat]]
  BY <1>2
<1> QED
  BY <1>3 DEF View!Sample, Samples

\* The samples made of closed rows run forward.
LEMMA TrajectoryForward ==
  ASSUME NEW t \in Nat, NEW rows \in Seq(RowRecs), \A i \in DOMAIN rows : rows[i].at <= t
  PROVE  Forward(View!Trajectory(rows), t)
<1> DEFINE n == Len(rows)
           key == [i \in 1..n |-> rows[i].at]
           places == SortedPlaces(n, key)
           dated == [k \in 1..n |-> rows[places[k]]]
           step == View!Max({1, (n + ChartSamples - 1) \div ChartSamples})
           ends == {i \in 1..n : i % step = 0 \/ i = n}
           sampled(k) == View!Sample(dated[InOrder(ends)[k]].at, SubSeq(dated, 1, InOrder(ends)[k]))
           made == [k \in 1..Cardinality(ends) |-> sampled(k)]
<1>1. View!Trajectory(rows) = made
  <2>1. View!SortedPlaces(n, key) = places
    BY ViewByKey DEF View!SortedPlaces, SortedPlaces
  <2>2. View!InOrder(ends) = InOrder(ends) /\ View!Cardinality(ends) = Cardinality(ends)
    BY ViewOnly, ViewCardinality
  <2> DEFINE viewed(ps, es, c) ==
               LET ds == [k \in 1..n |-> rows[ps[k]]]
               IN  [k \in 1..c |-> View!Sample(ds[es[k]].at, SubSeq(ds, 1, es[k]))]
  <2>3. View!Trajectory(rows) =
          viewed(View!SortedPlaces(n, key), View!InOrder(ends), View!Cardinality(ends))
    BY DEF View!Trajectory
  <2>4. made = viewed(places, InOrder(ends), Cardinality(ends))
    OBVIOUS
  <2> HIDE DEF viewed, places, ends, made, n, key
  <2> QED
    BY <2>1, <2>2, <2>3, <2>4
<1>2. /\ n \in Nat /\ DOMAIN rows = 1..n /\ \A i \in 1..n : rows[i] \in RowRecs
      /\ key \in [1..n -> Nat] /\ \A i \in 1..n : key[i] = rows[i].at /\ key[i] <= t
  <2>1. n \in Nat /\ DOMAIN rows = 1..n /\ \A i \in 1..n : rows[i] \in RowRecs
    OBVIOUS
  <2>2. \A i \in 1..n : rows[i].at \in Nat
    BY <2>1 DEF RowRecs
  <2> HIDE DEF n
  <2> QED
    BY <2>1, <2>2
<1>3. ends \subseteq 1..n
  OBVIOUS
<1> HIDE DEF n, key, ends
<1>4. /\ places \in [1..n -> 1..n]
      /\ \A j, k \in 1..n : j < k => key[places[j]] <= key[places[k]]
  BY <1>2, PlacesSorted
<1> HIDE DEF places
<1>5. /\ dated \in [1..n -> RowRecs]
      /\ \A k \in 1..n : dated[k].at = key[places[k]] /\ dated[k].at <= t /\ dated[k].at \in Nat
      /\ \A j, k \in 1..n : j < k => dated[j].at <= dated[k].at
  <2>1. \A k \in 1..n : dated[k] = rows[places[k]] /\ dated[k].at = key[places[k]]
    BY <1>2, <1>4
  <2>2. dated \in [1..n -> RowRecs]
    BY <1>2, <1>4
  <2> HIDE DEF dated
  <2> QED
    BY <1>2, <1>4, <2>1, <2>2
<1> HIDE DEF dated
<1>6. /\ IsFiniteSet(ends) /\ Cardinality(ends) \in Nat /\ ends \subseteq Int
  <2>1. IsFiniteSet(1..n)
    BY <1>2, FS_Interval
  <2>2. IsFiniteSet(ends)
    BY <1>3, <2>1, FS_Subset
  <2>3. Cardinality(ends) \in Nat
    BY <2>2, FS_CardinalityType
  <2> QED
    BY <1>3, <2>2, <2>3
<1>7. /\ InOrder(ends) \in [1..Cardinality(ends) -> ends]
      /\ \A j, k \in 1..Cardinality(ends) : j < k => InOrder(ends)[j] < InOrder(ends)[k]
  BY <1>6, InOrderSorts
<1>8. ASSUME NEW k \in 1..Cardinality(ends)
      PROVE  sampled(k) \in Samples /\ sampled(k).at = dated[InOrder(ends)[k]].at
  <2> DEFINE e == InOrder(ends)[k]
  <2>1. e \in 1..n
    BY <1>3, <1>7
  <2> HIDE DEF e
  <2>2. SubSeq(dated, 1, e) \in Seq(RowRecs)
    <3>1. dated \in Seq(RowRecs) /\ Len(dated) = n
      BY <1>2, <1>5
    <3> HIDE DEF RowRecs
    <3> QED
      BY <1>2, <2>1, <3>1
  <2>3. dated[e].at \in Nat
    BY <1>5, <2>1
  <2>4. /\ View!Sample(dated[e].at, SubSeq(dated, 1, e)) \in Samples
        /\ View!Sample(dated[e].at, SubSeq(dated, 1, e)).at = dated[e].at
    BY <2>2, <2>3, SampleTyped
  <2> QED
    BY <2>4 DEF e
<1> DEFINE m == Cardinality(ends)
<1>9. /\ made \in [1..m -> Samples] /\ m \in Nat
      /\ \A k \in 1..m : made[k].at = dated[InOrder(ends)[k]].at
  BY <1>6, <1>8
<1> HIDE DEF made, m, Samples
<1>10. made \in Seq(Samples) /\ DOMAIN made = 1..m
  BY <1>9
<1>11. \A j, k \in 1..m : j < k => made[j].at <= made[k].at
  <2> SUFFICES ASSUME NEW j \in 1..m, NEW k \in 1..m, j < k PROVE made[j].at <= made[k].at
    OBVIOUS
  <2>1. /\ InOrder(ends)[j] \in 1..n /\ InOrder(ends)[k] \in 1..n
        /\ InOrder(ends)[j] < InOrder(ends)[k]
    BY <1>3, <1>7 DEF m
  <2> QED
    BY <1>5, <1>9, <2>1
<1>12. \A k \in 1..m : made[k].at <= t
  <2>1. \A k \in 1..m : InOrder(ends)[k] \in 1..n
    BY <1>3, <1>7 DEF m
  <2> QED
    BY <1>5, <1>9, <2>1
<1> QED
  BY <1>1, <1>10, <1>11, <1>12 DEF Forward

\* What is kept of a window runs forward.
LEMMA LastForward ==
  ASSUME NEW t \in Nat, NEW w, Forward(w, t), NEW n \in Nat
  PROVE  Forward(View!LastN(w, n), t)
<1> DEFINE v == View!LastN(w, n)
<1> HIDE DEF Samples
<1>1. w \in Seq(Samples)
  BY DEF Forward
<1>2. v \in Seq(Samples)
  BY <1>1, LastKeeps
<1>3. PICK d \in Nat : \A k \in DOMAIN v : k + d \in DOMAIN w /\ v[k] = w[k + d]
  BY <1>1, LastKeeps
<1> HIDE DEF v
<1>4. DOMAIN v \subseteq Nat
  BY <1>2
<1>5. ASSUME NEW i \in DOMAIN v, NEW j \in DOMAIN v, i < j PROVE v[i].at <= v[j].at
  <2>1. i + d < j + d
    BY <1>4, <1>5
  <2> QED
    BY <1>3, <2>1 DEF Forward
<1>6. \A i \in DOMAIN v : v[i].at <= t
  BY <1>3 DEF Forward
<1>7. Forward(v, t)
  BY <1>2, <1>5, <1>6 DEF Forward
<1> QED
  BY <1>7 DEF v

\* A sample taken at time t comes last.
LEMMA AppendForward ==
  ASSUME NEW t \in Nat, NEW w, Forward(w, t), NEW x \in Samples, x.at = t
  PROVE  Forward(Append(w, x), t)
<1> DEFINE v == Append(w, x)
           n == Len(w)
<1> HIDE DEF Samples
<1>1. w \in Seq(Samples)
  BY DEF Forward
<1>2. /\ v \in Seq(Samples) /\ n \in Nat /\ DOMAIN v = 1..(n + 1) /\ DOMAIN w = 1..n
      /\ v[n + 1] = x /\ \A k \in 1..n : v[k] = w[k]
  BY <1>1
<1> HIDE DEF v, n
<1>3. \A k \in DOMAIN v : k \in DOMAIN w \/ k = n + 1
  BY <1>2
<1>4. \A k \in DOMAIN v : v[k].at <= t
  BY <1>2, <1>3 DEF Forward
<1>5. ASSUME NEW i \in DOMAIN v, NEW j \in DOMAIN v, i < j PROVE v[i].at <= v[j].at
  <2>1. i \in DOMAIN w
    BY <1>2, <1>5
  <2>2. CASE j \in DOMAIN w
    BY <1>2, <1>5, <2>1, <2>2 DEF Forward
  <2>3. CASE j = n + 1
    BY <1>2, <1>4, <2>3
  <2> QED
    BY <1>3, <2>2, <2>3
<1>6. Forward(v, t)
  BY <1>2, <1>4, <1>5 DEF Forward
<1> QED
  BY <1>6 DEF v

\* Seeding leaves a window that runs forward.
LEMMA SeedForward ==
  ASSUME NEW t \in Nat, NEW w, Forward(w, t), NEW at,
         NEW ps \in Positions, \A l \in 1..N : ps[l] # NoRow => ps[l].id = l /\ ps[l].at <= t,
         NEW ls \in Seq(LifeRecs), Unique(ls), \A i \in DOMAIN ls : ls[i].at <= t
  PROVE  Forward(View!seedFromClosedLots(w, at, ps, ls).w, t)
<1> DEFINE all == View!deskRowsForStats(ps, ls)
           I == {i \in DOMAIN all : all[i].closed}
           rows == Only(all, I)
           made == View!Trajectory(rows)
<1>1. /\ all \in Seq(RowRecs)
      /\ \A k \in DOMAIN all :
           \/ \E l \in 1..N : ps[l] # NoRow /\ all[k] = ps[l]
           \/ \E i \in DOMAIN ls : /\ ls[i].status = "closed" /\ ps[ls[i].id] = NoRow
                                   /\ all[k] = View!deskRowFromClosedLife(ls[i])
  BY RowsForStats
<1> HIDE DEF all
<1>2. \A k \in DOMAIN all : all[k].at <= t
  BY <1>1 DEF View!deskRowFromClosedLife, View!Row
<1>3. rows \in Seq(RowRecs) /\ \A k \in DOMAIN rows : \E i \in I : rows[k] = all[i]
  <2>1. I \subseteq DOMAIN all
    OBVIOUS
  <2> HIDE DEF I, RowRecs
  <2>2. rows = Only(all, I)
    OBVIOUS
  <2> HIDE DEF rows
  <2> QED
    BY ONLY <1>1, <2>1, <2>2, OnlyOf
<1>4. \A k \in DOMAIN rows : rows[k].at <= t
  BY <1>2, <1>3
<1> HIDE DEF rows
<1>5. Forward(made, t)
  BY <1>3, <1>4, TrajectoryForward
<1>6. View!seedFromClosedLots(w, at, ps, ls).w \in {w, View!LastN(made, ChartSamples)}
  BY ViewOnly DEF View!seedFromClosedLots, all, rows
<1> HIDE DEF made
<1>7. Forward(View!LastN(made, ChartSamples), t)
  BY <1>5, LastForward, ViewAssumption
<1> QED
  BY <1>6, <1>7

-----------------------------------------------------------------------------
(* The view: its invariant, and what no step undoes. *)

DeskRecs == [st : {"unborn", "open", "closed", "gone"}, bid : Bids \cup {NoRow},
             pct : Int \cup {NoRow}, at : Nat]

PositionsOK(ps, dk, t) ==
  /\ ps \in Positions
  /\ \A l \in 1..N : ps[l] # NoRow =>
       /\ ps[l].id = l /\ ps[l].at <= t
       /\ ps[l].closed => dk[l].st \in {"closed", "gone"}

StoreOf(ls, ss) == [lives |-> ls, stamps |-> ss, changed |-> FALSE]

ViewInv ==
  /\ now \in Nat
  /\ desk \in [1..N -> DeskRecs] /\ \A l \in 1..N : desk[l].at <= now
  /\ PositionsOK(positions, desk, now)
  /\ StoreOK(StoreOf(lives, stamps), positions, desk, now)
  /\ report = View!summarize(lives)
  /\ Forward(window, now)

\* Rows of the positions and of deskRowsForStats can be ingested.
LEMMA RowsOK ==
  ASSUME NEW ps, NEW dk, NEW t \in Nat, PositionsOK(ps, dk, t),
         NEW st, StoreOK(st, ps, dk, t),
         NEW row \in RowRecs,
         \/ \E l \in 1..N : ps[l] # NoRow /\ row = ps[l]
         \/ \E i \in DOMAIN st.lives :
              /\ st.lives[i].status = "closed" /\ ps[st.lives[i].id] = NoRow
              /\ row = View!deskRowFromClosedLife(st.lives[i])
  PROVE  RowOK(row, st.lives, ps, t)
<1>1. CASE \E l \in 1..N : ps[l] # NoRow /\ row = ps[l]
  BY <1>1 DEF RowOK, PositionsOK
<1>2. ASSUME NEW i \in DOMAIN st.lives,
             st.lives[i].status = "closed", ps[st.lives[i].id] = NoRow,
             row = View!deskRowFromClosedLife(st.lives[i])
      PROVE  RowOK(row, st.lives, ps, t)
  <2>1. LifeOK(st.lives[i], st, ps, dk, t)
    BY DEF StoreOK
  <2>2. st.lives[i].hist /\ st.lives[i].at <= t
    <3>1. st.lives[i] \in LifeRecs
      BY DEF StoreOK, Stores
    <3>2. st.lives[i].hist \in BOOLEAN
      BY <3>1 DEF LifeRecs
    <3> QED
      BY <1>2, <2>1, <3>2 DEF LifeOK
  <2>3. /\ row.id = st.lives[i].id /\ row.closed /\ row.at = st.lives[i].at
        /\ row.pct = st.lives[i].pct
    BY <1>2 DEF View!deskRowFromClosedLife, View!Row
  <2> QED
    BY <1>2, <2>2, <2>3 DEF RowOK
<1> QED
  BY <1>1, <1>2

\* After the rows a settled life is still settled, and one that only the
\* life-cycles have is still there.
LEMMA IngestedSettled ==
  ASSUME NEW st0, NEW st, NEW ps, NEW dk, NEW t, StoreOK(st0, ps, dk, t),
         Ingested(st0, st, ps, dk, t),
         NEW i \in DOMAIN st0.lives, st0.lives[i].status = "closed"
  PROVE  /\ \A j \in DOMAIN st.lives :
              st.lives[j].id = st0.lives[i].id => st.lives[j].status = "closed"
         /\ ps[st0.lives[i].id] = NoRow => Has(st.lives, st0.lives[i])
<1>1. LifeOK(st0.lives[i], st0, ps, dk, t) /\ st0.lives[i].hist \in BOOLEAN /\ Unique(st.lives)
  <2>1. st0.lives[i] \in LifeRecs
    BY DEF StoreOK, Stores
  <2>2. st0.lives[i].hist \in BOOLEAN
    BY <2>1 DEF LifeRecs
  <2> QED
    BY <2>2 DEF StoreOK, Ingested
<1>2. ps[st0.lives[i].id] = NoRow => Has(st.lives, st0.lives[i])
  BY <1>1 DEF LifeOK, Ingested
<1>3. ASSUME NEW j \in DOMAIN st.lives, st.lives[j].id = st0.lives[i].id,
             st.lives[j].status # "closed"
      PROVE  FALSE
  <2>1. ps[st0.lives[i].id] # NoRow /\ ~ps[st0.lives[i].id].closed
    BY <1>3 DEF Ingested
  <2>2. st0.lives[i].hist
    BY <1>1, <2>1 DEF LifeOK
  <2>3. PICK k \in DOMAIN st.lives : st.lives[k] = st0.lives[i]
    BY <2>1, <2>2 DEF Ingested, Has
  <2>4. k = j
    BY <1>1, <1>3, <2>3 DEF Unique
  <2> QED
    BY <1>3, <2>3, <2>4
<1> QED
  BY <1>2, <1>3

\* After a listing too; a restored life whose frame is still the newest is as
\* it was, even if it was evicted on the way.
LEMMA ListedSettled ==
  ASSUME NEW st0, NEW st, NEW ps, NEW dk, NEW t, StoreOK(st0, ps, dk, t),
         Listed(st0, st, ps, dk, t),
         NEW i \in DOMAIN st0.lives, st0.lives[i].status = "closed"
  PROVE  /\ \A j \in DOMAIN st.lives :
              st.lives[j].id = st0.lives[i].id => st.lives[j].status = "closed"
         /\ ps[st0.lives[i].id] = NoRow /\ st.stamps = st0.stamps => Has(st.lives, st0.lives[i])
<1>1. /\ Unique(st0.lives) /\ LifeOK(st0.lives[i], st0, ps, dk, t)
      /\ st0.lives[i] \in LifeRecs
      /\ \A k \in DOMAIN st.lives : st.lives[k] \in LifeRecs /\ LifeOK(st.lives[k], st, ps, dk, t)
  BY DEF StoreOK, Listed, Stores
<1>2. \A x \in LifeRecs : x.hist \in BOOLEAN /\ x.id \in 1..N
  BY DEF LifeRecs
<1>3. ASSUME NEW j \in DOMAIN st.lives, st.lives[j].id = st0.lives[i].id
      PROVE  st.lives[j] = st0.lives[i] \/ st.lives[j].hist
  <2>1. SUFFICES ASSUME ~st.lives[j].hist PROVE st.lives[j] = st0.lives[i]
    BY <1>1, <1>2
  <2>2. PICK k \in DOMAIN st0.lives : st0.lives[k] = st.lives[j]
    BY <2>1 DEF Listed, Has
  <2>3. k = i
    BY <1>1, <1>3, <2>2 DEF Unique
  <2> QED
    BY <2>2, <2>3
<1>4. ASSUME NEW j \in DOMAIN st.lives, st.lives[j].id = st0.lives[i].id
      PROVE  st.lives[j].status = "closed"
  BY <1>1, <1>3, <1>4 DEF LifeOK
<1>5. ASSUME ps[st0.lives[i].id] = NoRow, st.stamps = st0.stamps
      PROVE  Has(st.lives, st0.lives[i])
  <2> DEFINE x == st0.lives[i]
  <2>1. x.hist = TRUE /\ st.stamps[x.id] # NoRow
    BY <1>1, <1>2, <1>5 DEF LifeOK
  <2>2. PICK j \in DOMAIN st.lives : st.lives[j].id = x.id
    BY <1>1, <1>2, <2>1 DEF Listed, StoreOK, Stamped
  <2> DEFINE y == st.lives[j]
  <2>3. CASE y.hist
    <3>1. /\ x \in LifeRecs /\ y \in LifeRecs /\ y.hist = TRUE
          /\ x.id = y.id /\ x.status = y.status /\ x.bid = y.bid /\ x.marks = y.marks
          /\ x.pct = y.pct /\ x.at = y.at
      BY <1>1, <1>2, <1>5, <2>1, <2>2, <2>3 DEF LifeOK
    <3> HIDE DEF x, y
    <3>2. /\ x = [id |-> x.id, status |-> x.status, bid |-> x.bid, marks |-> x.marks,
                  pct |-> x.pct, at |-> x.at, hist |-> x.hist]
          /\ y = [id |-> y.id, status |-> y.status, bid |-> y.bid, marks |-> y.marks,
                  pct |-> y.pct, at |-> y.at, hist |-> y.hist]
      BY <3>1 DEF LifeRecs
    <3>3. x = y
      BY <2>1, <3>1, <3>2
    <3> QED
      BY <3>3 DEF x, y, Has
  <2>4. CASE ~y.hist
    <3>1. y = x
      BY <1>3, <2>2, <2>4
    <3> QED
      BY <3>1 DEF Has
  <2> QED
    BY <2>3, <2>4
<1> QED
  BY <1>4, <1>5

Settles == View!ClosedStaysClosed /\ View!SamplingKeepsSettled

\* What is sound at a time is sound later.
LEMMA LaterOK ==
  ASSUME NEW st, NEW ps, NEW dk, NEW s \in Nat, NEW t \in Nat, s <= t, StoreOK(st, ps, dk, s)
  PROVE  StoreOK(st, ps, dk, t)
<1>1. ASSUME NEW k \in DOMAIN st.lives PROVE LifeOK(st.lives[k], st, ps, dk, t)
  <2>1. LifeOK(st.lives[k], st, ps, dk, s) /\ st.lives[k] \in LifeRecs
    BY DEF StoreOK, Stores
  <2>2. st.lives[k].at \in Nat
    BY <2>1 DEF LifeRecs
  <2>3. st.lives[k].at <= t
    BY <2>1, <2>2 DEF LifeOK
  <2> QED
    BY <2>1, <2>3 DEF LifeOK
<1> QED
  BY <1>1 DEF StoreOK

\* The store that was published is sound.
LEMMA PublishedOK ==
  ASSUME NEW st, NEW ps, NEW dk, NEW t, StoreOK(st, ps, dk, t),
         NEW ls, NEW ss, ls = st.lives, ss = st.stamps
  PROVE  StoreOK(StoreOf(ls, ss), ps, dk, t)
<1> DEFINE new == StoreOf(ls, ss)
<1>1. new \in Stores /\ new.lives = st.lives /\ new.stamps = st.stamps
  BY DEF StoreOK, Stores, StoreOf
<1> HIDE DEF new
<1>2. \A x : LifeOK(x, st, ps, dk, t) => LifeOK(x, new, ps, dk, t)
  BY <1>1 DEF LifeOK
<1>3. Stamped(new)
  BY <1>1 DEF StoreOK, Stamped
<1>4. StoreOK(new, ps, dk, t)
  BY <1>1, <1>2, <1>3 DEF StoreOK
<1> QED
  BY <1>4 DEF new

LEMMA PublishSound ==
  ASSUME report = View!summarize(lives), NEW st, NEW ps, View!Publish(st, ps),
         st.changed \in BOOLEAN, st.changed = FALSE => st.lives = lives
  PROVE  report' = View!summarize(lives')
BY DEF View!Publish

\* Ingesting rows, by either timer.
LEMMA RowsStep ==
  ASSUME ViewInv, NEW t \in Nat, now <= t, NEW rows \in Seq(RowRecs),
         \A k \in DOMAIN rows : RowOK(rows[k], lives, positions, t),
         View!Publish(View!ingestDeskClosedLots(View!Store, rows), positions),
         positions' = positions
  PROVE  /\ StoreOK(StoreOf(lives', stamps'), positions, desk, t)
         /\ report' = View!summarize(lives')
         /\ Settles
<1> DEFINE st0 == StoreOf(lives, stamps)
           st == View!ingestDeskClosedLots(st0, rows)
<1>0. View!Store = st0 /\ st0.lives = lives /\ st0.stamps = stamps /\ st0.changed = FALSE
  BY DEF View!Store, StoreOf
<1>a. positions \in Positions /\ report = View!summarize(lives) /\ now \in Nat
  BY DEF ViewInv, PositionsOK
<1> HIDE DEF st0
<1>1. StoreOK(st0, positions, desk, t)
  <2>1. StoreOK(st0, positions, desk, now)
    BY DEF ViewInv, st0
  <2> QED
    BY <1>a, <2>1, LaterOK
<1>2. Ingested(st0, st, positions, desk, t)
  BY <1>0, <1>1, <1>a, IngestAll
<1>3. View!Publish(st, positions)
  BY <1>0
<1> HIDE DEF st
<1>4. lives' = st.lives /\ stamps' = st.stamps
  BY <1>3 DEF View!Publish
<1>5. StoreOK(StoreOf(lives', stamps'), positions, desk, t)
  BY <1>2, <1>4, PublishedOK DEF Ingested
<1>6. report' = View!summarize(lives')
  <2>1. st.changed \in BOOLEAN /\ (st.changed = FALSE => st.lives = lives)
    BY <1>0, <1>2 DEF Ingested, StoreOK, Stores
  <2> QED
    BY <1>3, <1>a, <2>1, PublishSound
<1>7. ASSUME NEW i \in DOMAIN lives, lives[i].status = "closed"
      PROVE  /\ \A j \in DOMAIN lives' : lives'[j].id = lives[i].id => lives'[j].status = "closed"
             /\ positions[lives[i].id] = NoRow => \E j \in DOMAIN lives' : lives'[j] = lives[i]
  BY <1>0, <1>1, <1>2, <1>4, <1>7, IngestedSettled DEF Has
<1>8. Settles
  BY <1>7 DEF Settles, View!ClosedStaysClosed, View!SamplingKeepsSettled
<1> QED
  BY <1>5, <1>6, <1>8

\* A step that leaves the lives alone unsettles nothing.
LEMMA LivesStill ==
  ASSUME Unique(lives), lives' = lives
  PROVE  Settles
BY DEF Unique, Settles, View!ClosedStaysClosed, View!SamplingKeepsSettled

LEMMA FeedTickStep ==
  ASSUME ViewInv, View!FeedTick
  PROVE  ViewInv' /\ Settles
<1> DEFINE rows == View!positionRows(positions)
<1>1. /\ rows \in Seq(RowRecs)
      /\ \A k \in DOMAIN rows : \E l \in 1..N : positions[l] # NoRow /\ rows[k] = positions[l]
  BY RowsOfPositions DEF ViewInv, PositionsOK
<1>2. /\ View!Publish(View!ingestDeskClosedLots(View!Store, rows), positions)
      /\ desk' = desk /\ positions' = positions /\ window' = window /\ now' = now /\ now \in Nat
  BY DEF View!FeedTick, ViewInv
<1> HIDE DEF rows
<1>3. \A k \in DOMAIN rows : RowOK(rows[k], lives, positions, now)
  <2>1. StoreOf(lives, stamps).lives = lives
    BY DEF StoreOf
  <2> QED
    BY <1>1, <1>2, <2>1, RowsOK DEF ViewInv
<1>4. /\ StoreOK(StoreOf(lives', stamps'), positions, desk, now)
      /\ report' = View!summarize(lives') /\ Settles
  BY <1>1, <1>2, <1>3, RowsStep
<1> QED
  BY <1>2, <1>4 DEF ViewInv

\* A window that runs forward by a time does so by a later one.
LEMMA LaterForward ==
  ASSUME NEW w, NEW s \in Nat, NEW t \in Nat, s <= t, Forward(w, s)
  PROVE  Forward(w, t)
<1>1. \A i \in DOMAIN w : w[i].at \in Nat
  <2>1. \A i \in DOMAIN w : w[i] \in Samples
    BY DEF Forward
  <2> QED
    BY <2>1 DEF Samples
<1> QED
  BY <1>1 DEF Forward

LEMMA RecorderStep ==
  ASSUME ViewInv, NEW dt \in 0..1, View!RecorderTick(dt)
  PROVE  ViewInv' /\ Settles
<1> DEFINE t == now + dt
           rows == View!deskRowsForStats(positions, lives)
           seeded == View!seedFromClosedLots(window, lastAt, positions, lives)
           st0 == StoreOf(lives, stamps)
<1>1. /\ now \in Nat /\ t \in Nat /\ now <= t /\ now' = t
      /\ desk' = desk /\ positions' = positions
      /\ \/ /\ window' = seeded.w
            /\ lives' = lives /\ stamps' = stamps /\ report' = report
         \/ View!RecordAt(t, seeded.w)
  BY DEF View!RecorderTick, ViewInv
<1> HIDE DEF t
<1>2. /\ positions \in Positions
      /\ \A l \in 1..N : positions[l] # NoRow => positions[l].id = l /\ positions[l].at <= now
      /\ PositionsOK(positions, desk, now)
  BY DEF ViewInv, PositionsOK
<1>3. \A l \in 1..N : positions[l] # NoRow => positions[l].id = l /\ positions[l].at <= t
  <2>1. \A l \in 1..N : positions[l] # NoRow => positions[l].at \in Nat
    BY <1>2 DEF Positions, RowRecs
  <2> QED
    BY <1>1, <1>2, <2>1
<1>4. PositionsOK(positions, desk, t)
  BY <1>2, <1>3 DEF PositionsOK
<1>5. StoreOK(st0, positions, desk, t)
  BY <1>1, LaterOK DEF ViewInv
<1>6. /\ lives \in Seq(LifeRecs) /\ Unique(lives) /\ \A i \in DOMAIN lives : lives[i].at <= t
  BY <1>5 DEF StoreOK, StoreOf, Stores, LifeOK
<1>7. Forward(window, t)
  BY <1>1, LaterForward DEF ViewInv
<1>8. Forward(seeded.w, t)
  BY <1>1, <1>2, <1>3, <1>6, <1>7, SeedForward
<1>9. \A l \in 1..N : desk[l].at <= t
  <2>1. \A l \in 1..N : desk[l].at \in Nat /\ desk[l].at <= now
    BY DEF ViewInv, DeskRecs
  <2> QED
    BY <1>1, <2>1
<1> HIDE DEF seeded
<1>10. CASE /\ window' = seeded.w
            /\ lives' = lives /\ stamps' = stamps /\ report' = report
  <2>1. ViewInv'
    BY <1>1, <1>4, <1>5, <1>8, <1>9, <1>10 DEF ViewInv
  <2>2. Settles
    BY <1>6, <1>10, LivesStill
  <2> QED
    BY <2>1, <2>2
<1>11. CASE View!RecordAt(t, seeded.w)
  <2>1. /\ rows \in Seq(RowRecs)
        /\ \A k \in DOMAIN rows :
             \/ \E l \in 1..N : positions[l] # NoRow /\ rows[k] = positions[l]
             \/ \E i \in DOMAIN lives :
                  /\ lives[i].status = "closed" /\ positions[lives[i].id] = NoRow
                  /\ rows[k] = View!deskRowFromClosedLife(lives[i])
    BY <1>2, <1>6, RowsForStats
  <2>2. /\ View!Publish(View!ingestDeskClosedLots(View!Store, rows), positions)
        /\ window' = View!LastN(Append(seeded.w, View!Sample(t, rows)), ChartSamples)
    BY <1>11 DEF View!RecordAt
  <2> HIDE DEF rows
  <2>3. \A k \in DOMAIN rows : RowOK(rows[k], lives, positions, t)
    <3>1. st0.lives = lives
      BY DEF StoreOf
    <3> HIDE DEF st0
    <3>2. ASSUME NEW k \in DOMAIN rows PROVE RowOK(rows[k], st0.lives, positions, t)
      <4>1. rows[k] \in RowRecs
        BY <2>1
      <4> QED
        BY <1>1, <1>4, <1>5, <2>1, <3>1, <4>1, RowsOK
    <3> QED
      BY <3>1, <3>2
  <2>4. /\ StoreOK(StoreOf(lives', stamps'), positions, desk, t)
        /\ report' = View!summarize(lives') /\ Settles
    BY <1>1, <2>1, <2>2, <2>3, RowsStep
  <2>5. Forward(window', t)
    <3>1. View!Sample(t, rows) \in Samples /\ View!Sample(t, rows).at = t
      BY <1>1, <2>1, SampleTyped
    <3>2. Forward(Append(seeded.w, View!Sample(t, rows)), t)
      BY <1>1, <1>8, <3>1, AppendForward
    <3>3. Forward(View!LastN(Append(seeded.w, View!Sample(t, rows)), ChartSamples), t)
      BY <1>1, <3>2, LastForward, ViewAssumption
    <3> QED
      BY <2>2, <3>3
  <2> QED
    BY <1>1, <1>4, <1>9, <2>4, <2>5 DEF ViewInv
<1> QED
  BY <1>1, <1>10, <1>11

LEMMA ListingStep ==
  ASSUME ViewInv, NEW ids \in SUBSET (1..N), NEW s \in Stamps, View!ClosedListing(ids, s)
  PROVE  ViewInv' /\ Settles
<1> DEFINE es == [i \in 1..Cardinality(ids) |->
                    [id |-> InOrder(ids)[i], stamp |-> s, at |-> desk[InOrder(ids)[i]].at]]
           st0 == StoreOf(lives, stamps)
           st == View!FoldLeft(View!ingestHistoryClosedEntry, st0, es)
           seeded == View!seedFromClosedLots(window, lastAt, positions, st.lives)
<1>0. View!Store = st0 /\ st0.lives = lives /\ st0.stamps = stamps /\ st0.changed = FALSE
  BY DEF View!Store, StoreOf
<1>1. /\ View!Publish(st, positions) /\ window' = seeded.w
      /\ desk' = desk /\ positions' = positions /\ now' = now
      /\ \A l \in ids : desk[l].st \in {"closed", "gone"}
  <2>1. View!InOrder(ids) = InOrder(ids) /\ View!Cardinality(ids) = Cardinality(ids)
    BY ViewOnly, ViewCardinality
  <2> HIDE DEF st0
  <2> QED
    BY <1>0, <2>1 DEF View!ClosedListing
<1>2. /\ now \in Nat /\ desk \in [1..N -> DeskRecs] /\ \A l \in 1..N : desk[l].at <= now
      /\ StoreOK(st0, positions, desk, now) /\ PositionsOK(positions, desk, now)
      /\ report = View!summarize(lives) /\ Forward(window, now)
  BY DEF ViewInv
<1> HIDE DEF st0, st, seeded
<1>3. IsFiniteSet(ids) /\ ids \subseteq Int /\ Cardinality(ids) \in Nat
  <2>1. IsFiniteSet(1..N) /\ 1..N \subseteq Int
    <3>1. N \in Nat
      BY ViewAssumption
    <3> QED
      BY <3>1, FS_Interval
  <2>2. IsFiniteSet(ids)
    BY <2>1, FS_Subset
  <2>3. Cardinality(ids) \in Nat
    BY <2>2, FS_CardinalityType
  <2> QED
    BY <2>1, <2>2, <2>3
<1>4. \A i \in 1..Cardinality(ids) : InOrder(ids)[i] \in ids
  BY <1>3, InOrderSorts
<1> DEFINE Entries == [id : 1..N, stamp : Stamps, at : Nat]
<1>5. /\ es \in Seq(Entries) /\ \A i \in DOMAIN es : EntryOK(es[i], desk, now)
  <2>1. \A l \in ids : l \in 1..N /\ desk[l].at \in Nat
    BY <1>2 DEF DeskRecs
  <2>2. es \in [1..Cardinality(ids) -> Entries]
    BY <1>4, <2>1
  <2>3. ASSUME NEW i \in 1..Cardinality(ids) PROVE EntryOK(es[i], desk, now)
    <3>1. InOrder(ids)[i] \in ids
      BY <1>4
    <3>2. es[i] = [id |-> InOrder(ids)[i], stamp |-> s, at |-> desk[InOrder(ids)[i]].at]
      OBVIOUS
    <3> QED
      BY <1>1, <1>2, <2>1, <3>1, <3>2 DEF EntryOK
  <2> HIDE DEF es, Entries
  <2>4. es \in Seq(Entries) /\ DOMAIN es = 1..Cardinality(ids)
    BY <1>3, <2>2
  <2> QED
    BY <2>3, <2>4
<1> HIDE DEF es, Entries
<1>6. Listed(st0, st, positions, desk, now)
  BY <1>2, <1>5, ListAll DEF st
<1>7. lives' = st.lives /\ stamps' = st.stamps
  BY <1>1 DEF View!Publish
<1>8. StoreOK(StoreOf(lives', stamps'), positions, desk, now)
  BY <1>6, <1>7, PublishedOK DEF Listed
<1>9. report' = View!summarize(lives')
  <2>1. st.changed \in BOOLEAN /\ (st.changed = FALSE => st.lives = lives)
    BY <1>0, <1>6 DEF Listed, StoreOK, Stores
  <2> QED
    BY <1>1, <1>2, <2>1, PublishSound
<1>10. Forward(seeded.w, now)
  <2>1. /\ positions \in Positions
        /\ \A l \in 1..N : positions[l] # NoRow => positions[l].id = l /\ positions[l].at <= now
    BY <1>2 DEF PositionsOK
  <2>2. /\ st.lives \in Seq(LifeRecs) /\ Unique(st.lives) /\ \A i \in DOMAIN st.lives : st.lives[i].at <= now
    BY <1>6 DEF Listed, StoreOK, Stores, LifeOK
  <2> QED
    BY <1>2, <2>1, <2>2, SeedForward DEF seeded
<1>11. ViewInv'
  BY <1>1, <1>2, <1>8, <1>9, <1>10 DEF ViewInv
<1>12. ASSUME NEW i \in DOMAIN lives, lives[i].status = "closed"
       PROVE  /\ \A j \in DOMAIN lives' : lives'[j].id = lives[i].id => lives'[j].status = "closed"
              /\ positions[lives[i].id] = NoRow /\ stamps' = stamps
                 => \E j \in DOMAIN lives' : lives'[j] = lives[i]
  BY <1>0, <1>2, <1>6, <1>7, <1>12, ListedSettled DEF Has
<1>13. Settles
  BY <1>12 DEF Settles, View!ClosedStaysClosed, View!SamplingKeepsSettled
<1> QED
  BY <1>11, <1>13

LEMMA HelloStep ==
  ASSUME ViewInv, View!Hello
  PROVE  ViewInv' /\ Settles
<1> DEFINE st0 == StoreOf(lives, stamps)
           row(l) == View!Row(l, desk[l].st = "closed", desk[l].bid, desk[l].pct, desk[l].at)
<1>1. /\ positions' = [l \in 1..N |-> IF desk[l].st \in {"open", "closed"} THEN row(l) ELSE positions[l]]
      /\ desk' = desk /\ now' = now /\ lives' = lives /\ stamps' = stamps
      /\ report' = report /\ window' = window
  BY DEF View!Hello, View!Lots
<1>2. /\ now \in Nat /\ desk \in [1..N -> DeskRecs] /\ \A l \in 1..N : desk[l].at <= now
      /\ StoreOK(st0, positions, desk, now) /\ PositionsOK(positions, desk, now)
  BY DEF ViewInv
<1>3. ASSUME NEW l \in 1..N
      PROVE  /\ row(l) \in RowRecs /\ row(l).id = l /\ row(l).at = desk[l].at
             /\ row(l).closed = (desk[l].st = "closed")
  <2>1. desk[l] \in DeskRecs
    BY <1>2
  <2> DEFINE shut == desk[l].st = "closed"
  <2>2. shut \in BOOLEAN
    OBVIOUS
  <2> HIDE DEF shut
  <2>3. row(l) = [id |-> l, closed |-> shut, bid |-> desk[l].bid, pct |-> desk[l].pct, at |-> desk[l].at]
    BY DEF View!Row, shut
  <2>4. row(l) \in RowRecs /\ row(l).id = l /\ row(l).at = desk[l].at /\ row(l).closed = shut
    BY <2>1, <2>2, <2>3 DEF RowRecs, DeskRecs
  <2> QED
    BY <2>4 DEF shut
<1> HIDE DEF row
<1>4. ASSUME NEW l \in 1..N
      PROVE  /\ positions'[l] \in RowRecs \cup {NoRow}
             /\ positions'[l] # NoRow => /\ positions'[l].id = l /\ positions'[l].at <= now
                                         /\ positions'[l].closed => desk[l].st \in {"closed", "gone"}
             /\ positions[l] # NoRow => positions'[l] # NoRow
             /\ positions[l] # NoRow /\ positions[l].closed => positions'[l].closed
  <2>1. NoRow \notin RowRecs
    BY ViewAssumption DEF RowRecs
  <2>2. CASE desk[l].st \in {"open", "closed"}
    <3>1. positions'[l] = row(l)
      BY <1>1, <2>2
    <3>2. /\ row(l) \in RowRecs /\ row(l).id = l /\ row(l).at = desk[l].at
          /\ row(l).closed = (desk[l].st = "closed")
      BY <1>3
    <3>3. positions[l] # NoRow /\ positions[l].closed => desk[l].st = "closed"
      BY <1>2, <2>2 DEF PositionsOK
    <3> QED
      BY <1>2, <2>1, <3>1, <3>2, <3>3
  <2>3. CASE desk[l].st \notin {"open", "closed"}
    BY <1>1, <1>2, <2>3 DEF PositionsOK, Positions
  <2> QED
    BY <2>2, <2>3
<1>5. PositionsOK(positions', desk, now)
  <2>1. positions' \in Positions
    BY <1>1, <1>4 DEF Positions
  <2> QED
    BY <1>4, <2>1 DEF PositionsOK
<1>6. ASSUME NEW k \in DOMAIN lives PROVE LifeOK(lives[k], st0, positions', desk, now)
  <2>1. LifeOK(lives[k], st0, positions, desk, now) /\ lives[k] \in LifeRecs
    <3>1. st0.lives = lives
      BY DEF StoreOf
    <3> HIDE DEF st0
    <3> QED
      BY <1>2, <3>1 DEF StoreOK, Stores
  <2>2. lives[k].id \in 1..N
    BY <2>1 DEF LifeRecs
  <2> QED
    BY <1>4, <2>1, <2>2 DEF LifeOK
<1>7. StoreOK(st0, positions', desk, now)
  BY <1>2, <1>6 DEF StoreOK, StoreOf
<1>8. Unique(lives)
  BY <1>2 DEF StoreOK, StoreOf
<1>9. ViewInv'
  BY <1>1, <1>2, <1>5, <1>7 DEF ViewInv
<1> QED
  BY <1>1, <1>8, <1>9, LivesStill

LEMMA DeskStep ==
  ASSUME ViewInv, NEW l \in 1..N, View!DeskSteps(l)
  PROVE  ViewInv' /\ Settles
<1> DEFINE st0 == StoreOf(lives, stamps)
<1>1. /\ positions' = positions /\ now' = now /\ lives' = lives /\ stamps' = stamps
      /\ report' = report /\ window' = window
  BY DEF View!DeskSteps
<1>2. /\ now \in Nat /\ desk \in [1..N -> DeskRecs] /\ \A k \in 1..N : desk[k].at <= now
      /\ StoreOK(st0, positions, desk, now) /\ PositionsOK(positions, desk, now)
  BY DEF ViewInv
<1>3. /\ desk' \in [1..N -> DeskRecs] /\ \A k \in 1..N : desk'[k].at <= now
      /\ \A k \in 1..N : desk[k].st \in {"closed", "gone"} =>
           desk'[k].st \in {"closed", "gone"} /\ desk'[k].at = desk[k].at
  <2>1. CASE /\ desk[l].st = "unborn"
             /\ \E b \in Bids \cup {NoRow} :
                  desk' = [desk EXCEPT ![l].st = "open", ![l].bid = b]
    <3>1. PICK b \in Bids \cup {NoRow} : desk' = [desk EXCEPT ![l].st = "open", ![l].bid = b]
      BY <2>1
    <3> DEFINE half == [desk EXCEPT ![l].st = "open"]
    <3>2. desk' = [half EXCEPT ![l].bid = b]
      BY <3>1
    <3>3. /\ half \in [1..N -> DeskRecs]
          /\ \A k \in 1..N : half[k].at = desk[k].at /\ (k # l => half[k] = desk[k])
      BY <1>2 DEF DeskRecs
    <3> HIDE DEF half
    <3>4. /\ desk' \in [1..N -> DeskRecs]
          /\ \A k \in 1..N : desk'[k].at = half[k].at /\ (k # l => desk'[k] = half[k])
      BY <3>2, <3>3 DEF DeskRecs
    <3> QED
      BY <1>2, <2>1, <3>3, <3>4
  <2>2. CASE /\ desk[l].st = "open" /\ \E b \in Bids : desk' = [desk EXCEPT ![l].bid = b]
    BY <1>2, <2>2 DEF DeskRecs
  <2>3. CASE /\ desk[l].st = "open"
             /\ \E pct \in Pcts : desk' = [desk EXCEPT ![l] = [st |-> "closed", bid |-> NoRow,
                                                               pct |-> pct, at |-> now]]
    BY <1>2, <2>3, ViewAssumption DEF DeskRecs
  <2>4. CASE desk[l].st = "closed" /\ desk' = [desk EXCEPT ![l].st = "gone"]
    BY <1>2, <2>4 DEF DeskRecs
  <2> QED
    BY <2>1, <2>2, <2>3, <2>4 DEF View!DeskSteps
<1>4. PositionsOK(positions, desk', now)
  BY <1>2, <1>3 DEF PositionsOK
<1>5. ASSUME NEW k \in DOMAIN lives PROVE LifeOK(lives[k], st0, positions, desk', now)
  <2>1. LifeOK(lives[k], st0, positions, desk, now) /\ lives[k] \in LifeRecs
    <3>1. st0.lives = lives
      BY DEF StoreOf
    <3> HIDE DEF st0
    <3> QED
      BY <1>2, <3>1 DEF StoreOK, Stores
  <2>2. lives[k].id \in 1..N
    BY <2>1 DEF LifeRecs
  <2> QED
    BY <1>3, <2>1, <2>2 DEF LifeOK
<1>6. StoreOK(st0, positions, desk', now)
  BY <1>2, <1>5 DEF StoreOK, StoreOf
<1>7. Unique(lives)
  BY <1>2 DEF StoreOK, StoreOf
<1>8. ViewInv'
  BY <1>1, <1>2, <1>3, <1>4, <1>6 DEF ViewInv
<1> QED
  BY <1>1, <1>7, <1>8, LivesStill

\* Every action of the view keeps the invariant and undoes no settled trade.
LEMMA ViewStep == ViewInv /\ [View!Next]_viewVars => ViewInv' /\ Settles
<1> SUFFICES ASSUME ViewInv, [View!Next]_viewVars PROVE ViewInv' /\ Settles
  OBVIOUS
<1>0. Unique(lives)
  BY DEF ViewInv, StoreOK, StoreOf
<1>1. CASE UNCHANGED viewVars
  BY <1>0, <1>1, LivesStill DEF ViewInv, viewVars
<1>2. ASSUME NEW b \in Books, View!ChooseBook(b) PROVE ViewInv' /\ Settles
  BY <1>0, <1>2, LivesStill DEF ViewInv, View!ChooseBook
<1> QED
  BY <1>1, <1>2, DeskStep, HelloStep, FeedTickStep, ListingStep, RecorderStep
     DEF View!Next, View!Lots

LEMMA ViewStart == View!Init => ViewInv
<1> SUFFICES ASSUME View!Init PROVE ViewInv
  OBVIOUS
<1>1. /\ desk = [l \in 1..N |-> [st |-> "unborn", bid |-> NoRow, pct |-> NoRow, at |-> 0]]
      /\ positions = [l \in 1..N |-> NoRow]
      /\ lives = <<>> /\ stamps = [l \in 1..N |-> NoRow]
      /\ report = View!summarize(<<>>) /\ window = <<>> /\ now = 0
  BY DEF View!Init, View!Lots
<1>2. desk \in [1..N -> DeskRecs] /\ \A l \in 1..N : desk[l].at <= now
  BY <1>1 DEF DeskRecs
<1>3. PositionsOK(positions, desk, now)
  BY <1>1 DEF PositionsOK, Positions
<1> DEFINE st0 == StoreOf(lives, stamps)
<1>4. /\ st0 \in Stores /\ st0.lives = <<>> /\ \A l \in 1..N : st0.stamps[l] = NoRow
  BY <1>1 DEF StoreOf, Stores
<1> HIDE DEF st0
<1>5. StoreOK(st0, positions, desk, now)
  <2>1. \A h \in BOOLEAN : Within(st0.lives, h)
    BY <1>4 DEF Within, ClosedOf
  <2> QED
    BY <1>4, <2>1 DEF StoreOK, Unique, Stamped
<1>6. Forward(window, now)
  BY <1>1 DEF Forward
<1> QED
  BY <1>1, <1>2, <1>3, <1>5, <1>6 DEF ViewInv, st0

\* What ReportIsSound says of the view follows.
LEMMA ViewSound == ViewInv => View!ReportIsSound
<1> SUFFICES ASSUME ViewInv PROVE View!ReportIsSound
  OBVIOUS
<1> DEFINE st0 == StoreOf(lives, stamps)
<1>1. /\ st0.lives = lives /\ st0.stamps = stamps /\ StoreOK(st0, positions, desk, now)
      /\ lives \in Seq(LifeRecs) /\ Unique(lives)
  BY DEF ViewInv, StoreOK, Stores, StoreOf
<1> HIDE DEF st0
<1>2. View!ReportIsCurrent
  BY DEF ViewInv, View!ReportIsCurrent
<1>3. View!LivesBounded
  <2>1. Within(lives, FALSE) /\ Within(lives, TRUE)
    BY <1>1 DEF StoreOK
  <2>2. \A h : View!Class(h) = ClassOf(lives, h) /\ View!Closed(h) = ClosedOf(lives, h)
    BY DEF View!Class, View!Closed, ClassOf, ClosedOf
  <2>3. \A h : View!Cardinality(View!Class(h)) = Cardinality(ClassOf(lives, h))
    BY <2>2, ViewCardinality
  <2> QED
    BY <2>1, <2>2, <2>3 DEF View!LivesBounded, Within, Limit
<1>4. View!WindowRunsForward
  BY DEF ViewInv, Forward, View!WindowRunsForward
<1>5. View!HistoryIsNewest
  BY <1>1 DEF StoreOK, LifeOK, View!HistoryIsNewest
<1>6. View!CountedOnce
  <2> DEFINE rows == View!deskRowsForStats(positions, lives)
  <2>1. positions \in Positions /\ \A l \in 1..N : positions[l] # NoRow => positions[l].id = l
    BY DEF ViewInv, PositionsOK
  <2>2. /\ \A i, j \in DOMAIN rows : rows[i].id = rows[j].id => i = j
        /\ \A i \in DOMAIN lives : lives[i].status = "closed" /\ lives[i].pct # NoRow =>
             \E k \in DOMAIN rows : rows[k].id = lives[i].id
    BY <1>1, <2>1, RowsForStats
  <2> QED
    BY <2>2 DEF View!CountedOnce
<1> QED
  BY <1>2, <1>3, <1>4, <1>5, <1>6 DEF View!ReportIsSound

-----------------------------------------------------------------------------
(* The edges together. *)

edgesVars == <<part, nonceVars, hubVars, socketVars, viewVars>>

\* Each part keeps its own invariant, and the nonces, the client and the view
\* theirs while others run.
EdgesInv ==
  /\ NonceInv
  /\ ClientInv
  /\ ViewInv
  /\ part = "frames" => FeedInv
  /\ part = "streams" => StreamInv

\* In a step of the edges every part takes a step of its own or stutters.
LEMMA EdgesStep ==
  ASSUME [EdgesNext]_edgesVars
  PROVE  /\ part' = part
         /\ [Next]_vars
         /\ [Client!Next]_(Client!vars)
         /\ part = "frames" => [Framed!Next]_(Framed!vars)
         /\ part = "streams" => [Streamed!Next]_(Streamed!vars)
         /\ [View!Next]_viewVars
BY DEF EdgesNext, edgesVars, nonceVars, hubVars, socketVars, viewVars, Client!vars,
       Framed!vars, Streamed!vars

\* The parts start in their invariants.
LEMMA EdgesStart == EdgesInit => EdgesInv
<1> SUFFICES ASSUME EdgesInit PROVE EdgesInv
  OBVIOUS
<1>1. NonceInv
  <2>1. Init
    BY DEF EdgesInit
  <2>2. Booleans
    BY Zenon, <2>1 DEF Booleans, Init
  <2> QED
    BY <2>1, <2>2 DEF Booleans, Init, NonceInv, TypeOK, Held, Covered, Fresh,
                      MarkCoversDisk, IncreasingUnlessRewound, Labels
<1>2. ClientInv
  <2>1. Client!Init
    BY DEF EdgesInit
  <2> QED
    BY <2>1 DEF Client!Init, ClientInv, CallsOK, Calls, CallPlaces, NestIsRedial, Outside,
                Attended, WillHook, Numbers, Client!Procs, Client!None, Client!Idle
<1>3. ASSUME part = "frames" PROVE FeedInv
  BY <1>3 DEF EdgesInit, Framed!Init, FeedInv, PlacesOK, Places, SocketsOK, OneAttaches,
              NoneAttached, OldIsClosed, Fed, Framed!Attaching, SwappedOut, Attached
<1>4. ASSUME part = "streams" PROVE StreamInv
  <2>1. Streamed!Init
    BY <1>4 DEF EdgesInit
  <2>2. PlacesOK
    BY <2>1 DEF Streamed!Init, PlacesOK, Places
  <2>3. /\ stream.state = [n \in Streamed!Streams |-> "none"] /\ stream.reg = 0
        /\ stream.held = [s \in Dashboards |-> 0]
    BY <2>1 DEF Streamed!Init
  <2>4. StreamsOK
    BY <2>1, <2>3 DEF Streamed!Init, StreamsOK, StreamStates
  <2> QED
    BY <2>2, <2>3, <2>4 DEF StreamInv, OneGeneration, HeldIsCalled,
                            Streamed!StreamsAreReachable
<1>5. ViewInv
  BY ViewStart DEF EdgesInit
<1> QED
  BY <1>1, <1>2, <1>3, <1>4, <1>5 DEF EdgesInv

\* The invariant holds in every reachable state.
THEOREM EdgesInvariance == EdgesSpec => []EdgesInv
<1>1. EdgesInv /\ [EdgesNext]_edgesVars => EdgesInv'
  <2> SUFFICES ASSUME EdgesInv, [EdgesNext]_edgesVars PROVE EdgesInv'
    OBVIOUS
  <2>1. NonceInv' /\ ClientInv'
    BY EdgesStep, NonceStep, ClientStep DEF EdgesInv
  <2>5. ViewInv'
    BY EdgesStep, ViewStep DEF EdgesInv
  <2>2. part' = part
    BY EdgesStep
  <2>3. ASSUME part = "frames" PROVE FeedInv'
    BY <2>3, EdgesStep, FeedStep DEF EdgesInv
  <2>4. ASSUME part = "streams" PROVE StreamInv'
    BY <2>4, EdgesStep, StreamStep DEF EdgesInv
  <2> QED
    BY <2>1, <2>2, <2>3, <2>4, <2>5 DEF EdgesInv
<1> QED
  BY <1>1, EdgesStart, PTL DEF EdgesSpec, edgesVars

\* Every variable keeps its type: the seed of NewAuthNonce never underflows.
THEOREM TypeCorrect == EdgesSpec => []TypeOK
<1>1. EdgesInv => TypeOK
  BY DEF EdgesInv, NonceInv
<1> QED
  BY <1>1, EdgesInvariance, PTL

\* Next: nonces increase strictly over goroutines and restarts, unless a
\* process starts from a clock that was set back.
THEOREM NoncesIncrease == EdgesSpec => []IncreasingUnlessRewound
<1>1. EdgesInv => IncreasingUnlessRewound
  BY DEF EdgesInv, NonceInv
<1> QED
  BY <1>1, EdgesInvariance, PTL

\* NewAuthNonce and persistValue: the mark is never below the file.
THEOREM MarkAboveFile == EdgesSpec => []MarkCoversDisk
<1>1. EdgesInv => MarkCoversDisk
  BY DEF EdgesInv, NonceInv
<1> QED
  BY <1>1, EdgesInvariance, PTL

\* runHook: a connection that looks healthy carries the subscription, however
\* many goroutines dial, overwrite and close each other's connections.
THEOREM LiveSubscribed == EdgesSpec => []LiveIsSubscribed
<1>1. EdgesInv => LiveIsSubscribed
  BY DEF EdgesInv, ClientInv, Attended, WillHook, LiveIsSubscribed,
         Client!LiveIsSubscribed, Client!Redialling, Client!Dialling, Client!Procs
<1> QED
  BY <1>1, EdgesInvariance, PTL

\* wsHandler: while dashboards attach one after the other, an open socket
\* whose handler reads commands is the attached one or about to be closed by
\* its successor.
THEOREM Feeds == EdgesSpec => []OpenSocketIsFed
<1>1. EdgesInv => OpenSocketIsFed
  BY DEF EdgesInv, FeedInv, Fed, Attached, OpenSocketIsFed, Framed!OpenSocketIsFed
<1> QED
  BY <1>1, EdgesInvariance, PTL

\* cancelStream and startStream: a stream that still runs uncancelled is the
\* registered one or is about to be cancelled by the handler that took it.
THEOREM Reachable == EdgesSpec => []StreamsAreReachable
<1>1. EdgesInv => StreamsAreReachable
  BY DEF EdgesInv, StreamInv, StreamsAreReachable
<1> QED
  BY <1>1, EdgesInvariance, PTL

\* publish, storeLife, ingestHistoryClosedEntry and seedFromClosedLots: the
\* report is always that of the store, each class of lives is within its limit
\* or has no closed one left, a restored life shows its newest frame, a settled
\* lot is counted once and the chart's window runs forward.
THEOREM ReportSound == EdgesSpec => []ReportIsSound
<1>1. EdgesInv => ReportIsSound
  BY ViewSound DEF EdgesInv, ReportIsSound
<1> QED
  BY <1>1, EdgesInvariance, PTL

\* ingestDeskClosedLots and ingestHistoryClosedEntry: no step shows a settled
\* trade as open again, and recording a sample, which feeds the reconstructed
\* rows back into the store, leaves settled lots as they were.
THEOREM SettledStay == EdgesSpec => SettledStays
<1>1. EdgesInv /\ [EdgesNext]_edgesVars => [View!ClosedStaysClosed /\ View!SamplingKeepsSettled]_(View!vars)
  <2> SUFFICES ASSUME EdgesInv, [EdgesNext]_edgesVars
               PROVE  View!ClosedStaysClosed /\ View!SamplingKeepsSettled
    OBVIOUS
  <2>1. Settles
    BY EdgesStep, ViewStep DEF EdgesInv
  <2> QED
    BY <2>1 DEF Settles
<1> QED
  BY <1>1, EdgesInvariance, PTL DEF EdgesSpec, edgesVars, SettledStays, View!SettledStays
=============================================================================
