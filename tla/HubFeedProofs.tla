--------------------------- MODULE HubFeedProofs ---------------------------
(***************************************************************************)
(* Proofs about HubFeed for any number of clicks, mounts, broken           *)
(* connections and hub restarts.                                           *)
(***************************************************************************)
EXTENDS HubFeed, TLAPS

-----------------------------------------------------------------------------
(* Messages in flight. *)

Lacks(q, kind) == \A i \in 1..Len(q) : q[i].kind # kind

EndsOn(q, kind, v) ==
  \E i \in 1..Len(q) :
    /\ q[i].kind = kind /\ q[i].val = v
    /\ \A j \in 1..Len(q) : j > i => q[j].kind # kind

\* A receiver that holds base and reads all of q comes to hold v: the last
\* message of the kind says v, or there is none and base is v.
Carries(q, kind, base, v) == EndsOn(q, kind, v) \/ (Lacks(q, kind) /\ base = v)

\* Nothing in flight: sender and receiver agree.
LEMMA CarriesEmpty ==
  ASSUME NEW kind, NEW base, NEW v
  PROVE  Carries(<<>>, kind, base, v) <=> base = v
  BY DEF Carries, EndsOn, Lacks

\* Messages of other kinds do not matter.
LEMMA CarriesOthers ==
  ASSUME NEW S, NEW q \in Seq(S), NEW r \in Seq(S), NEW kind, NEW base, NEW v,
         Lacks(r, kind), Carries(q, kind, base, v)
  PROVE  Carries(q \o r, kind, base, v)
<1> DEFINE b == q \o r
<1>1. /\ Len(q) \in Nat /\ Len(r) \in Nat /\ Len(b) = Len(q) + Len(r)
      /\ \A i \in 1..Len(q) : b[i] = q[i]
      /\ \A i \in 1..Len(b) : i > Len(q) => b[i] = r[i - Len(q)]
  OBVIOUS
<1> HIDE DEF b
<1>2. \A i \in 1..Len(b) : i > Len(q) => b[i].kind # kind
  <2> SUFFICES ASSUME NEW i \in 1..Len(b), i > Len(q) PROVE b[i].kind # kind
    OBVIOUS
  <2>1. i - Len(q) \in 1..Len(r)
    BY <1>1
  <2> QED
    BY <1>1, <2>1 DEF Lacks
<1>3. CASE EndsOn(q, kind, v)
  <2>1. PICK i \in 1..Len(q) :
               /\ q[i].kind = kind /\ q[i].val = v
               /\ \A j \in 1..Len(q) : j > i => q[j].kind # kind
    BY <1>3 DEF EndsOn
  <2>2. i \in 1..Len(b) /\ b[i] = q[i]
    BY <1>1
  <2>3. ASSUME NEW j \in 1..Len(b), j > i PROVE b[j].kind # kind
    BY <1>1, <1>2, <2>1, <2>3
  <2> QED
    BY <2>1, <2>2, <2>3 DEF EndsOn, Carries, b
<1>4. CASE Lacks(q, kind) /\ base = v
  <2>1. Lacks(b, kind)
    BY <1>1, <1>2, <1>4 DEF Lacks
  <2> QED
    BY <1>4, <2>1 DEF Carries, b
<1> QED
  BY <1>3, <1>4 DEF Carries

\* What is posted last is what the receiver comes to hold.
LEMMA CarriesLast ==
  ASSUME NEW S, NEW q \in Seq(S), NEW r \in Seq(S), Len(r) > 0, NEW kind, NEW base, NEW v,
         r[Len(r)].kind = kind, r[Len(r)].val = v
  PROVE  Carries(q \o r, kind, base, v)
<1> DEFINE b == q \o r
<1>1. /\ Len(b) \in 1..Len(b) /\ b[Len(b)] = r[Len(r)]
      /\ \A j \in 1..Len(b) : ~(j > Len(b))
  OBVIOUS
<1> QED
  BY <1>1 DEF Carries, EndsOn

\* What is posted first, and not again, too.
LEMMA CarriesFirst ==
  ASSUME NEW S, NEW m \in S, NEW r \in Seq(S), NEW base, Lacks(r, m.kind)
  PROVE  Carries(<<m>> \o r, m.kind, base, m.val)
<1>1. <<m>> \in Seq(S)
  OBVIOUS
<1>2. Carries(<<m>>, m.kind, base, m.val)
  BY DEF Carries, EndsOn
<1> QED
  BY <1>1, <1>2, CarriesOthers

\* The receiver reads a message: of the kind, and it holds what that says; of
\* another, and it holds what it did.
LEMMA CarriesTail ==
  ASSUME NEW S, NEW q \in Seq(S), q # <<>>, NEW kind, NEW base, NEW v,
         Carries(q, kind, base, v)
  PROVE  Carries(Tail(q), kind, IF Head(q).kind = kind THEN Head(q).val ELSE base, v)
<1> DEFINE b == Tail(q)
           held == IF Head(q).kind = kind THEN Head(q).val ELSE base
<1>1. /\ Len(q) \in Nat \ {0} /\ Len(b) = Len(q) - 1 /\ Head(q) = q[1]
      /\ \A i \in 1..Len(b) : b[i] = q[i + 1]
  OBVIOUS
<1> HIDE DEF b
<1>2. CASE Lacks(q, kind) /\ base = v
  <2>1. Lacks(b, kind) /\ Head(q).kind # kind
    BY <1>1, <1>2 DEF Lacks
  <2> QED
    BY <1>2, <2>1 DEF Carries, b
<1>3. CASE EndsOn(q, kind, v)
  <2>1. PICK i \in 1..Len(q) :
               /\ q[i].kind = kind /\ q[i].val = v
               /\ \A j \in 1..Len(q) : j > i => q[j].kind # kind
    BY <1>3 DEF EndsOn
  <2>2. CASE i = 1
    <3>1. Head(q).kind = kind /\ Head(q).val = v
      BY <1>1, <2>1, <2>2
    <3>2. Lacks(b, kind)
      <4> SUFFICES ASSUME NEW j \in 1..Len(b) PROVE b[j].kind # kind
        BY DEF Lacks
      <4>1. j + 1 \in 1..Len(q) /\ j + 1 > i
        BY <1>1, <2>2
      <4> QED
        BY <1>1, <2>1, <4>1
    <3> QED
      BY <3>1, <3>2 DEF Carries, b
  <2>3. CASE i # 1
    <3>1. i - 1 \in 1..Len(b) /\ (i - 1) + 1 = i
      BY <1>1, <2>3
    <3>2. b[i - 1] = q[i]
      BY <1>1, <3>1
    <3>3. ASSUME NEW j \in 1..Len(b), j > i - 1 PROVE b[j].kind # kind
      <4>1. j + 1 \in 1..Len(q) /\ j + 1 > i
        BY <1>1, <3>3
      <4> QED
        BY <1>1, <2>1, <4>1
    <3>4. EndsOn(b, kind, v)
      BY <2>1, <3>1, <3>2, <3>3 DEF EndsOn
    <3> QED
      BY <3>4 DEF Carries, b
  <2> QED
    BY <2>2, <2>3
<1> QED
  BY <1>2, <1>3 DEF Carries

-----------------------------------------------------------------------------
(* The invariant. *)

Statuses == {"ONLINE", "OFFLINE"}
Vals == Routes \cup Symbols \cup Prefixes \cup Statuses \cup {"url"}
Message == [kind : {"ROUTE", "FOCUS", "CONNECT", "s3", "STATUS", "ENVELOPE"}, val : Vals]

Pages ==
  [focus : Vals, route : Vals, online : Statuses, bound : BOOLEAN, recorder : BOOLEAN,
   closedAsked : BOOLEAN, sourcesAsked : BOOLEAN, sourcesReady : BOOLEAN,
   listed : SUBSET Vals]

Workers ==
  [alive : BOOLEAN, sock : {"none", "connecting", "open", "closed"}, timer : BOOLEAN,
   armed : BOOLEAN, attempts : Nat, route : Vals, pending : Seq(Message)]

StateOK == page \in Pages /\ worker \in Workers /\ hub \in [focus : Vals, route : Vals]

ChannelsOK ==
  /\ toWorker \in Seq(Message) /\ toPage \in Seq(Message) /\ up \in Seq(Message)
  /\ down \in Seq(Vals)

\* pendingCommands holds nothing that would overtake the route.
PendingIsCommands == Lacks(worker.pending, "ROUTE")

\* What is on its way to the worker ends in the page's route, ...
RouteToWorker == page.bound => Carries(toWorker, "ROUTE", worker.route, page.route)

\* ... what is on an open socket in the worker's ...
RouteToHub == worker.sock = "open" => Carries(up, "ROUTE", hub.route, worker.route)

\* ... and what is on its way to the page in the state of the socket.
StatusToPage ==
  page.bound =>
    /\ worker.sock = "open" => Carries(toPage, "STATUS", page.online, "ONLINE")
    /\ worker.sock = "closed" => Carries(toPage, "STATUS", page.online, "OFFLINE")

IInv ==
  /\ StateOK /\ ChannelsOK
  /\ PendingIsCommands /\ RouteToWorker /\ RouteToHub /\ StatusToPage

-----------------------------------------------------------------------------
(* What the operators of the page and the worker return. *)

\* Messages of s3 commands only.
Asks(q) == q \in Seq(Message) /\ \A i \in 1..Len(q) : q[i].kind = "s3"

\* Commands and trySendCommand post s3 commands.
LEMMA CommandsAsk ==
  ASSUME NEW s \in Seq(Prefixes)
  PROVE  Asks(Commands(s))
<1>1. Len(Commands(s)) = Len(s) /\ Commands(s) \in Seq(Message)
  BY DEF Commands, Msg, Message, Vals
<1> QED
  BY <1>1 DEF Asks, Commands, Msg

\* The prefixes the two guards ask for.
LEMMA PrefixesAsked == ClosedHistory \in Seq(Prefixes) /\ <<Paths>> \in Seq(Prefixes)
<1>1. /\ ClosedHistory[1] \in Prefixes /\ ClosedHistory[2] \in Prefixes
      /\ ClosedHistory[3] \in Prefixes /\ Paths \in Prefixes
  BY DEF Prefixes
<1> QED
  BY <1>1 DEF ClosedHistory

\* Two batches of messages that ask, sent one after the other.
LEMMA AsksConcat ==
  ASSUME NEW q, NEW r, Asks(q), Asks(r)
  PROVE  Asks(q \o r)
  BY DEF Asks

\* requestClosedPositionHistory changes its guard only, and posts commands.
LEMMA ClosedAsks ==
  ASSUME NEW p \in Pages
  PROVE  /\ requestClosedPositionHistory(p).page \in Pages
         /\ requestClosedPositionHistory(p).page.route = p.route
         /\ requestClosedPositionHistory(p).page.online = p.online
         /\ requestClosedPositionHistory(p).page.bound = p.bound
         /\ Asks(requestClosedPositionHistory(p).sent)
<1>1. [p EXCEPT !.closedAsked = TRUE] \in Pages
  BY DEF Pages
<1>2. Asks(<<>>)
  BY DEF Asks
<1>3. Asks(trySendCommand(p, ClosedHistory))
  BY <1>2, CommandsAsk, PrefixesAsked DEF trySendCommand
<1> QED
  BY <1>1, <1>2, <1>3 DEF requestClosedPositionHistory, Pages

\* requestLongtailSources changes its guards only, and posts commands.
LEMMA SourcesAsk ==
  ASSUME NEW p \in Pages
  PROVE  /\ requestLongtailSources(p).page \in Pages
         /\ requestLongtailSources(p).page.route = p.route
         /\ requestLongtailSources(p).page.online = p.online
         /\ requestLongtailSources(p).page.bound = p.bound
         /\ Asks(requestLongtailSources(p).sent)
<1> DEFINE closed == requestClosedPositionHistory(p)
           asked == [closed.page EXCEPT !.sourcesAsked = TRUE, !.sourcesReady = TRUE]
<1>1. /\ closed.page \in Pages /\ closed.page.route = p.route
      /\ closed.page.online = p.online /\ closed.page.bound = p.bound
      /\ Asks(closed.sent)
  BY ClosedAsks
<1> HIDE DEF closed
<1>2. /\ asked \in Pages /\ asked.route = p.route
      /\ asked.online = p.online /\ asked.bound = p.bound
  BY <1>1 DEF Pages
<1>3. Asks(<<>>)
  BY DEF Asks
<1>4. Asks(trySendCommand(p, <<Paths>>))
  BY <1>3, CommandsAsk, PrefixesAsked DEF trySendCommand
<1>5. Asks(closed.sent \o trySendCommand(p, <<Paths>>))
  BY <1>1, <1>4, AsksConcat
<1> HIDE DEF asked
<1>6. requestLongtailSources(p) =
        IF p.sourcesAsked THEN [page |-> p, sent |-> <<>>]
        ELSE [page |-> asked, sent |-> closed.sent \o trySendCommand(p, <<Paths>>)]
  BY DEF requestLongtailSources, asked, closed
<1> QED
  BY <1>2, <1>3, <1>5, <1>6

\* Commands posted to the worker do not touch the route.
LEMMA AsksCarry ==
  ASSUME NEW q \in Seq(Message), NEW r, Asks(r), NEW base, NEW v,
         Carries(q, "ROUTE", base, v)
  PROVE  q \o r \in Seq(Message) /\ Carries(q \o r, "ROUTE", base, v)
<1>1. r \in Seq(Message) /\ Lacks(r, "ROUTE")
  BY DEF Asks, Lacks
<1> QED
  BY <1>1, CarriesOthers

-----------------------------------------------------------------------------
(* The page, the worker and the hub agree. *)

\* The page does something that leaves worker, hub and sockets alone: it
\* keeps its badge and posts what ends in its route, if it is mounted.
LEMMA PagePosts ==
  ASSUME IInv, page' \in Pages, page'.online = page.online, page'.bound = page.bound,
         toWorker' \in Seq(Message),
         page.bound => Carries(toWorker', "ROUTE", worker.route, page'.route),
         UNCHANGED <<worker, toPage, up, down, hub>>
  PROVE  IInv'
<1>1. StateOK' /\ ChannelsOK' /\ PendingIsCommands' /\ RouteToHub'
  BY DEF IInv, StateOK, ChannelsOK, PendingIsCommands, RouteToHub
<1>2. RouteToWorker'
  BY DEF RouteToWorker
<1>3. StatusToPage'
  BY DEF IInv, StatusToPage
<1> QED
  BY <1>1, <1>2, <1>3 DEF IInv

\* Every action keeps the three channels ending in what their senders hold.
LEMMA Step == IInv /\ [Next]_vars => IInv'
<1> SUFFICES ASSUME IInv, [Next]_vars PROVE IInv'
  OBVIOUS
<1>0. /\ page \in Pages /\ worker \in Workers /\ hub \in [focus : Vals, route : Vals]
      /\ toWorker \in Seq(Message) /\ toPage \in Seq(Message) /\ up \in Seq(Message)
      /\ down \in Seq(Vals) /\ worker.pending \in Seq(Message)
      /\ page.route \in Vals /\ worker.route \in Vals /\ hub.route \in Vals
  BY DEF IInv, StateOK, ChannelsOK, Pages, Workers
<1>v. /\ DefaultRoute \in Vals /\ DefaultFocus \in Vals
      /\ Routes \subseteq Vals /\ Symbols \subseteq Vals /\ "url" \in Vals
      /\ "ONLINE" \in Vals /\ "OFFLINE" \in Vals
  BY FeedAssumption DEF Vals, Statuses
<1>m. ASSUME NEW v \in Vals,
             NEW k \in {"ROUTE", "FOCUS", "CONNECT", "s3", "STATUS", "ENVELOPE"}
      PROVE  /\ Msg(k, v) \in Message /\ Msg(k, v).kind = k /\ Msg(k, v).val = v
             /\ <<Msg(k, v)>> \in Seq(Message)
  BY DEF Msg, Message
<1>1. CASE Mount
  <2> DEFINE p == IF page.recorder THEN page
                  ELSE requestLongtailSources([page EXCEPT !.recorder = TRUE]).page
             q == <<Msg("ROUTE", page.route), Msg("CONNECT", "url")>>
  <2>1. /\ page' = [p EXCEPT !.bound = TRUE] /\ worker' = FreshWorker /\ toWorker' = q
        /\ UNCHANGED <<toPage, up, down, hub>>
    BY <1>1 DEF Mount
  <2>2. p \in Pages /\ p.route = page.route
    <3>1. [page EXCEPT !.recorder = TRUE] \in Pages
          /\ [page EXCEPT !.recorder = TRUE].route = page.route
      BY <1>0 DEF Pages
    <3> QED
      BY <1>0, <3>1, SourcesAsk
  <2> HIDE DEF p
  <2>3. page' \in Pages /\ page'.route = page.route
    BY <2>1, <2>2 DEF Pages
  <2>4. /\ worker' \in Workers /\ worker'.sock = "none" /\ worker'.pending = <<>>
    <3>1. NoWorker \in Workers /\ NoWorker.sock = "none" /\ NoWorker.pending = <<>>
      BY <1>v DEF NoWorker, Workers
    <3> QED
      BY <2>1, <3>1 DEF FreshWorker, Workers
  <2>5. q \in Seq(Message) /\ Carries(q, "ROUTE", worker'.route, page.route)
    <3> DEFINE a == Msg("ROUTE", page.route)
               b == Msg("CONNECT", "url")
    <3>1. a \in Message /\ b \in Message /\ a.kind = "ROUTE" /\ a.val = page.route
          /\ b.kind = "CONNECT"
      BY <1>0, <1>v, <1>m
    <3> HIDE DEF a, b
    <3>2. <<a, b>> \in Seq(Message)
      BY <3>1
    <3>3. /\ Len(<<a, b>>) = 2 /\ <<a, b>>[1] = a /\ <<a, b>>[2] = b
      OBVIOUS
    <3>4. EndsOn(<<a, b>>, "ROUTE", page.route)
      BY <3>1, <3>3 DEF EndsOn
    <3> QED
      BY <3>2, <3>4 DEF Carries, a, b
  <2> HIDE DEF q
  <2>6. StateOK' /\ ChannelsOK'
    BY <1>0, <2>1, <2>3, <2>4, <2>5 DEF StateOK, ChannelsOK
  <2>7. PendingIsCommands'
    BY <2>4 DEF PendingIsCommands, Lacks
  <2>8. RouteToWorker'
    BY <2>1, <2>3, <2>5 DEF RouteToWorker
  <2>9. RouteToHub' /\ StatusToPage'
    BY <2>4 DEF RouteToHub, StatusToPage
  <2> QED
    BY <2>6, <2>7, <2>8, <2>9 DEF IInv
<1>2. CASE Unmount
  <2>1. /\ page' = [page EXCEPT !.bound = FALSE] /\ worker' = NoWorker
        /\ toWorker' = <<>> /\ toPage' = <<>> /\ up' = <<>> /\ down' = <<>> /\ hub' = hub
    BY <1>2 DEF Unmount
  <2>2. page' \in Pages /\ page'.bound = FALSE
    BY <1>0, <2>1 DEF Pages
  <2>3. worker' \in Workers /\ worker'.sock = "none" /\ worker'.pending = <<>>
    BY <1>v, <2>1 DEF NoWorker, Workers
  <2>4. StateOK' /\ ChannelsOK'
    BY <1>0, <2>1, <2>2, <2>3 DEF StateOK, ChannelsOK
  <2>5. PendingIsCommands'
    BY <2>3 DEF PendingIsCommands, Lacks
  <2>6. RouteToWorker' /\ RouteToHub' /\ StatusToPage'
    BY <2>2, <2>3 DEF RouteToWorker, RouteToHub, StatusToPage
  <2> QED
    BY <2>4, <2>5, <2>6 DEF IInv
<1>3. ASSUME NEW s \in Symbols, PickFocus(s) PROVE IInv'
  <2>1. /\ page' = [page EXCEPT !.focus = s]
        /\ toWorker' = IF page.bound THEN toWorker \o <<Msg("FOCUS", s)>> ELSE toWorker
        /\ UNCHANGED <<worker, toPage, up, down, hub>>
    BY <1>3 DEF PickFocus, Pick, PostIfBound
  <2>2. /\ page' \in Pages /\ page'.online = page.online /\ page'.bound = page.bound
        /\ page'.route = page.route
    BY <1>0, <1>v, <2>1 DEF Pages
  <2>3. <<Msg("FOCUS", s)>> \in Seq(Message) /\ Lacks(<<Msg("FOCUS", s)>>, "ROUTE")
    BY <1>v, <1>m DEF Lacks
  <2>4. toWorker' \in Seq(Message)
    BY <1>0, <2>1, <2>3
  <2>5. page.bound => Carries(toWorker', "ROUTE", worker.route, page'.route)
    BY <1>0, <2>1, <2>2, <2>3, CarriesOthers DEF IInv, RouteToWorker
  <2> QED
    BY <2>1, <2>2, <2>4, <2>5, PagePosts
<1>4. ASSUME NEW r \in Routes, PickRoute(r) PROVE IInv'
  <2> DEFINE q == <<Msg("ROUTE", r), Msg("ROUTE", r)>>
  <2>1. /\ page' = [page EXCEPT !.route = r]
        /\ toWorker' = IF page.bound THEN toWorker \o q ELSE toWorker
        /\ UNCHANGED <<worker, toPage, up, down, hub>>
    BY <1>4 DEF PickRoute, Pick, PostIfBound
  <2>2. /\ page' \in Pages /\ page'.online = page.online /\ page'.bound = page.bound
        /\ page'.route = r
    BY <1>0, <1>v, <2>1 DEF Pages
  <2>3. Msg("ROUTE", r) \in Message /\ Msg("ROUTE", r).kind = "ROUTE" /\ Msg("ROUTE", r).val = r
    BY <1>v, <1>m
  <2>4. /\ q \in Seq(Message) /\ Len(q) > 0 /\ q[Len(q)].kind = "ROUTE" /\ q[Len(q)].val = r
    BY <2>3
  <2> HIDE DEF q
  <2>5. toWorker' \in Seq(Message)
    BY <1>0, <2>1, <2>4
  <2>6. page.bound => Carries(toWorker', "ROUTE", worker.route, page'.route)
    <3>1. ASSUME NEW base PROVE Carries(toWorker \o q, "ROUTE", base, r)
      BY <1>0, <2>4, CarriesLast
    <3> QED
      BY <2>1, <2>2, <3>1
  <2> QED
    BY <2>1, <2>2, <2>5, <2>6, PagePosts
<1>5. CASE OpenLifecycles
  <2> DEFINE asked == requestClosedPositionHistory(page)
  <2>1. /\ page' = asked.page /\ toWorker' = toWorker \o asked.sent
        /\ UNCHANGED <<worker, toPage, up, down, hub>>
    BY <1>5 DEF OpenLifecycles, Pick
  <2>2. /\ asked.page \in Pages /\ asked.page.online = page.online
        /\ asked.page.bound = page.bound /\ asked.page.route = page.route
        /\ Asks(asked.sent)
    BY <1>0, ClosedAsks
  <2> HIDE DEF asked
  <2>3. toWorker' \in Seq(Message)
    BY <1>0, <2>1, <2>2 DEF Asks
  <2>4. page.bound => Carries(toWorker', "ROUTE", worker.route, page'.route)
    BY <1>0, <2>1, <2>2, AsksCarry DEF IInv, RouteToWorker
  <2> QED
    BY <2>1, <2>2, <2>3, <2>4, PagePosts
<1>6. CASE OpenTree
  <2>1. /\ page' = page
        /\ toWorker' = IF page.bound THEN toWorker \o Commands(<<Paths>>) ELSE toWorker
        /\ UNCHANGED <<worker, toPage, up, down, hub>>
    BY <1>6 DEF OpenTree, Pick, PostIfBound
  <2>2. Asks(Commands(<<Paths>>))
    BY PrefixesAsked, CommandsAsk
  <2>3. toWorker' \in Seq(Message)
    BY <1>0, <2>1, <2>2 DEF Asks
  <2>4. page.bound => Carries(toWorker', "ROUTE", worker.route, page'.route)
    BY <1>0, <2>1, <2>2, AsksCarry DEF IInv, RouteToWorker
  <2> QED
    BY <1>0, <2>1, <2>3, <2>4, PagePosts
<1>r. ASSUME NEW q \in Seq(Message), q # <<>>
      PROVE  /\ Tail(q) \in Seq(Message) /\ Head(q).val \in Vals
             /\ \A k \in {"ROUTE", "STATUS"} : \A base, v :
                  Carries(q, k, base, v) =>
                    Carries(Tail(q), k, IF Head(q).kind = k THEN Head(q).val ELSE base, v)
  <2>1. Tail(q) \in Seq(Message) /\ Head(q) \in Message
    BY <1>r
  <2> QED
    BY <1>r, <2>1, CarriesTail DEF Message
<1>7. CASE PageReceives
  <2> DEFINE msg == Head(toPage)
             old == resetRequests(page)
             asked == requestLongtailSources(old)
  <2>1. /\ toPage # <<>> /\ toPage' = Tail(toPage)
        /\ UNCHANGED <<worker, up, down, hub>>
    BY <1>7 DEF PageReceives
  <2>2. PendingIsCommands' /\ RouteToHub'
    BY <2>1 DEF IInv, PendingIsCommands, RouteToHub
  <2>3. /\ toPage' \in Seq(Message) /\ msg.val \in Vals
        /\ \A base, v : Carries(toPage, "STATUS", base, v) =>
             Carries(toPage', "STATUS", IF msg.kind = "STATUS" THEN msg.val ELSE base, v)
    BY <1>0, <1>r, <2>1
  <2>4. \/ /\ msg.kind = "STATUS" /\ msg.val = "ONLINE"
           /\ page' = [asked.page EXCEPT !.online = "ONLINE", !.listed = {}]
           /\ toWorker' = toWorker \o asked.sent
        \/ /\ msg.kind = "STATUS" /\ msg.val = "OFFLINE"
           /\ page' = [page EXCEPT !.online = "OFFLINE"] /\ toWorker' = toWorker
        \/ /\ msg.kind = "ENVELOPE"
           /\ page' = [page EXCEPT !.listed = @ \cup {msg.val}] /\ toWorker' = toWorker
    BY <1>7 DEF PageReceives
  <2>5. old \in Pages /\ old.route = page.route /\ old.bound = page.bound
    BY <1>0 DEF resetRequests, Pages
  <2>6. /\ asked.page \in Pages /\ asked.page.route = page.route
        /\ asked.page.bound = page.bound /\ Asks(asked.sent)
    BY <2>5, SourcesAsk
  <2> HIDE DEF msg, asked
  <2>7. /\ page' \in Pages /\ page'.route = page.route /\ page'.bound = page.bound
        /\ page'.online = IF msg.kind = "STATUS" THEN msg.val ELSE page.online
    <3>1. CASE msg.kind = "STATUS" /\ msg.val = "ONLINE"
      BY <2>4, <2>6, <3>1 DEF Pages, Statuses
    <3>2. CASE msg.kind = "STATUS" /\ msg.val = "OFFLINE"
      BY <1>0, <2>4, <3>2 DEF Pages, Statuses
    <3>3. CASE msg.kind = "ENVELOPE"
      <4>1. page' = [page EXCEPT !.listed = page.listed \cup {msg.val}]
        BY <2>4, <3>3
      <4>2. page.listed \cup {msg.val} \in SUBSET Vals
        BY <1>0, <2>3 DEF Pages
      <4> QED
        BY <1>0, <3>3, <4>1, <4>2 DEF Pages
    <3> QED
      BY <2>4, <3>1, <3>2, <3>3
  <2>8. toWorker' = toWorker \/ toWorker' = toWorker \o asked.sent
    BY <2>4
  <2>9. toWorker' \in Seq(Message)
    <3>1. asked.sent \in Seq(Message)
      BY <2>6 DEF Asks
    <3>2. toWorker \o asked.sent \in Seq(Message)
      BY <1>0, <3>1
    <3> QED
      BY <1>0, <2>8, <3>2
  <2>10. RouteToWorker'
    <3> SUFFICES ASSUME page.bound
                 PROVE  Carries(toWorker', "ROUTE", worker.route, page.route)
      BY <2>1, <2>7 DEF RouteToWorker
    <3>1. Carries(toWorker, "ROUTE", worker.route, page.route)
      BY DEF IInv, RouteToWorker
    <3>2. Carries(toWorker \o asked.sent, "ROUTE", worker.route, page.route)
      BY <1>0, <2>6, <3>1, AsksCarry
    <3> QED
      BY <2>8, <3>1, <3>2
  <2>11. StatusToPage'
    BY <2>1, <2>3, <2>7 DEF IInv, StatusToPage
  <2>12. StateOK' /\ ChannelsOK'
    BY <1>0, <2>1, <2>3, <2>7, <2>9 DEF StateOK, ChannelsOK
  <2> QED
    BY <2>2, <2>10, <2>11, <2>12 DEF IInv
<1>8. CASE WorkerReceives
  <2> DEFINE msg == Head(toWorker)
  <2>1. /\ toWorker # <<>> /\ toWorker' = Tail(toWorker)
        /\ UNCHANGED <<page, toPage, hub>>
    BY <1>8 DEF WorkerReceives
  <2>2. /\ toWorker' \in Seq(Message) /\ msg \in Message /\ msg.val \in Vals
        /\ \A base, v : Carries(toWorker, "ROUTE", base, v) =>
             Carries(toWorker', "ROUTE", IF msg.kind = "ROUTE" THEN msg.val ELSE base, v)
    BY <1>0, <1>r, <2>1
  <2>3. \/ /\ msg.kind = "CONNECT" /\ worker' = connect(worker)
           /\ up' = <<>> /\ down' = <<>>
        \/ /\ msg.kind = "ROUTE" /\ worker' = [worker EXCEPT !.route = msg.val]
           /\ Send(<<msg>>) /\ down' = down
        \/ /\ msg.kind = "FOCUS" /\ Send(<<msg>>) /\ worker' = worker /\ down' = down
        \/ /\ msg.kind = "s3"
           /\ worker' = [worker EXCEPT !.pending = Append(@, msg)]
           /\ Send(<<msg>>) /\ down' = down
    BY <1>8 DEF WorkerReceives
  <2> HIDE DEF msg
  <2>4. <<msg>> \in Seq(Message)
    BY <2>2
  <2>5. worker.pending \o <<msg>> = Append(worker.pending, msg)
    BY <1>0, <2>2
  <2>6. CASE msg.kind = "CONNECT"
    <3>1. /\ worker' = [worker EXCEPT !.sock = "connecting"] /\ up' = <<>> /\ down' = <<>>
      BY <2>3, <2>6 DEF connect
    <3>2. /\ worker' \in Workers /\ worker'.sock = "connecting"
          /\ worker'.route = worker.route /\ worker'.pending = worker.pending
      BY <1>0, <3>1 DEF Workers
    <3>3. StateOK' /\ ChannelsOK'
      BY <1>0, <2>1, <2>2, <3>1, <3>2 DEF StateOK, ChannelsOK
    <3>4. PendingIsCommands' /\ RouteToHub' /\ StatusToPage'
      BY <3>2 DEF IInv, PendingIsCommands, RouteToHub, StatusToPage
    <3>5. RouteToWorker'
      BY <2>1, <2>2, <2>6, <3>2 DEF IInv, RouteToWorker
    <3> QED
      BY <3>3, <3>4, <3>5 DEF IInv
  <2>7. CASE msg.kind # "CONNECT"
    <3>1. Send(<<msg>>) /\ down' = down
      BY <2>3, <2>7
    <3>2. up' \in Seq(Message)
      BY <1>0, <2>4, <3>1 DEF Send
    <3>3. /\ worker' \in Workers /\ worker'.sock = worker.sock
          /\ worker'.route = IF msg.kind = "ROUTE" THEN msg.val ELSE worker.route
          /\ worker'.pending = IF msg.kind = "s3" THEN worker.pending \o <<msg>>
                               ELSE worker.pending
      <4>1. CASE msg.kind = "ROUTE"
        BY <1>0, <2>2, <2>3, <4>1 DEF Workers
      <4>2. CASE msg.kind = "FOCUS"
        BY <1>0, <2>3, <4>2
      <4>3. CASE msg.kind = "s3"
        <5>1. worker' = [worker EXCEPT !.pending = worker.pending \o <<msg>>]
          BY <2>3, <2>5, <4>3
        <5>2. worker.pending \o <<msg>> \in Seq(Message)
          BY <1>0, <2>4
        <5> QED
          BY <1>0, <4>3, <5>1, <5>2 DEF Workers
      <4> QED
        BY <2>3, <2>7, <4>1, <4>2, <4>3
    <3>4. StateOK' /\ ChannelsOK'
      BY <1>0, <2>1, <2>2, <3>1, <3>2, <3>3 DEF StateOK, ChannelsOK
    <3>5. PendingIsCommands'
      <4>1. msg.kind = "s3" => Lacks(worker.pending \o <<msg>>, "ROUTE")
        BY <1>0, <2>4 DEF IInv, PendingIsCommands, Lacks
      <4> QED
        BY <3>3, <4>1 DEF IInv, PendingIsCommands
    <3>6. RouteToWorker'
      BY <2>1, <2>2, <3>3 DEF IInv, RouteToWorker
    <3>7. StatusToPage'
      BY <2>1, <3>3 DEF IInv, StatusToPage
    <3>8. RouteToHub'
      <4> SUFFICES ASSUME worker.sock = "open"
                   PROVE  Carries(up \o <<msg>>, "ROUTE", hub.route, worker'.route)
        BY <2>1, <3>1, <3>3 DEF RouteToHub, Send
      <4>1. CASE msg.kind = "ROUTE"
        <5>1. Len(<<msg>>) > 0 /\ <<msg>>[Len(<<msg>>)] = msg
          OBVIOUS
        <5> QED
          BY <1>0, <2>4, <3>3, <4>1, <5>1, CarriesLast
      <4>2. CASE msg.kind # "ROUTE"
        <5>1. Lacks(<<msg>>, "ROUTE")
          BY <4>2 DEF Lacks
        <5>2. Carries(up, "ROUTE", hub.route, worker.route)
          BY DEF IInv, RouteToHub
        <5> QED
          BY <1>0, <2>4, <3>3, <4>2, <5>1, <5>2, CarriesOthers
      <4> QED
        BY <4>1, <4>2
    <3> QED
      BY <3>4, <3>5, <3>6, <3>7, <3>8 DEF IInv
  <2> QED
    BY <2>6, <2>7
<1>s. ASSUME NEW v \in Statuses
      PROVE  /\ toPage \o <<Msg("STATUS", v)>> \in Seq(Message)
             /\ \A base : Carries(toPage \o <<Msg("STATUS", v)>>, "STATUS", base, v)
  <2> DEFINE m == Msg("STATUS", v)
  <2>1. <<m>> \in Seq(Message) /\ m.kind = "STATUS" /\ m.val = v
    BY <1>v, <1>m DEF Statuses
  <2>2. Len(<<m>>) > 0 /\ <<m>>[Len(<<m>>)] = m
    OBVIOUS
  <2> HIDE DEF m
  <2>3. ASSUME NEW base PROVE Carries(toPage \o <<m>>, "STATUS", base, v)
    BY <1>0, <2>1, <2>2, CarriesLast
  <2>4. toPage \o <<m>> \in Seq(Message)
    BY <1>0, <2>1
  <2> QED
    BY <2>3, <2>4 DEF m
<1>9. CASE SocketOpens
  <2> DEFINE route == Msg("ROUTE", worker.route)
  <2>1. /\ worker' = [worker EXCEPT !.sock = "open", !.attempts = 0]
        /\ toPage' = Append(toPage, Msg("STATUS", "ONLINE"))
        /\ up' = <<route>> \o worker.pending
        /\ UNCHANGED <<page, toWorker, down, hub>>
    BY <1>9 DEF SocketOpens, Opened
  <2>2. /\ worker' \in Workers /\ worker'.sock = "open"
        /\ worker'.route = worker.route /\ worker'.pending = worker.pending
    BY <1>0, <2>1 DEF Workers
  <2>3. /\ <<route>> \in Seq(Message) /\ route \in Message
        /\ route.kind = "ROUTE" /\ route.val = worker.route
    BY <1>0, <1>m
  <2> HIDE DEF route
  <2>4. up' \in Seq(Message)
    BY <1>0, <2>1, <2>3
  <2>5. RouteToHub'
    <3>1. Lacks(worker.pending, route.kind)
      BY <2>3 DEF IInv, PendingIsCommands
    <3>2. Carries(<<route>> \o worker.pending, route.kind, hub.route, route.val)
      BY <1>0, <2>3, <3>1, CarriesFirst
    <3> QED
      BY <2>1, <2>2, <2>3, <3>2 DEF RouteToHub
  <2>6. toPage' = toPage \o <<Msg("STATUS", "ONLINE")>>
    BY <1>0, <1>v, <1>m, <2>1
  <2>7. toPage' \in Seq(Message) /\ StatusToPage'
    BY <1>s, <2>2, <2>6 DEF StatusToPage, Statuses
  <2>8. StateOK' /\ ChannelsOK'
    BY <1>0, <2>1, <2>2, <2>4, <2>7 DEF StateOK, ChannelsOK
  <2>9. PendingIsCommands' /\ RouteToWorker'
    BY <2>1, <2>2 DEF IInv, PendingIsCommands, RouteToWorker
  <2> QED
    BY <2>5, <2>7, <2>8, <2>9 DEF IInv
<1>10. ASSUME NEW restart \in BOOLEAN, SocketCloses(restart) PROVE IInv'
  <2> DEFINE w == [worker EXCEPT !.sock = "closed"]
  <2>1. /\ worker' = scheduleReconnect(w)
        /\ toPage' = toPage \o <<Msg("STATUS", "OFFLINE")>>
        /\ up' = <<>> /\ down' = <<>>
        /\ hub' = hub \/ hub' = [focus |-> DefaultFocus, route |-> DefaultRoute]
        /\ UNCHANGED <<page, toWorker>>
    BY <1>10 DEF SocketCloses, ClosedStatus
  <2>2. /\ w \in Workers /\ w.sock = "closed"
        /\ w.route = worker.route /\ w.pending = worker.pending
    BY <1>0 DEF Workers
  <2> HIDE DEF w
  <2>3. /\ worker' \in Workers /\ worker'.sock = "closed"
        /\ worker'.route = worker.route /\ worker'.pending = worker.pending
    BY <2>1, <2>2 DEF scheduleReconnect, Workers
  <2>4. toPage' \in Seq(Message) /\ StatusToPage'
    BY <1>s, <2>1, <2>3 DEF StatusToPage, Statuses
  <2>5. StateOK' /\ ChannelsOK'
    BY <1>0, <1>v, <2>1, <2>3, <2>4 DEF StateOK, ChannelsOK
  <2>6. PendingIsCommands' /\ RouteToWorker' /\ RouteToHub'
    BY <2>1, <2>3 DEF IInv, PendingIsCommands, RouteToWorker, RouteToHub
  <2> QED
    BY <2>4, <2>5, <2>6 DEF IInv
<1>11. CASE TimerFires
  <2> DEFINE n == IF worker.attempts < MaxAttempts THEN worker.attempts + 1
                  ELSE worker.attempts
             w == [worker EXCEPT !.timer = FALSE, !.armed = FALSE, !.attempts = n]
  <2>1. /\ worker' = [w EXCEPT !.sock = "connecting"]
        /\ UNCHANGED <<page, toWorker, toPage, up, down, hub>>
    BY <1>11 DEF TimerFires, Reconnected, connect
  <2>2. w \in Workers /\ w.route = worker.route /\ w.pending = worker.pending
    <3>1. worker.attempts \in Nat
      BY <1>0 DEF Workers
    <3>2. n \in Nat
      BY <3>1 DEF MaxAttempts
    <3> HIDE DEF n
    <3> QED
      BY <1>0, <3>2 DEF Workers
  <2> HIDE DEF w
  <2>3. /\ worker' \in Workers /\ worker'.sock = "connecting"
        /\ worker'.route = worker.route /\ worker'.pending = worker.pending
    BY <2>1, <2>2 DEF Workers
  <2>4. StateOK' /\ ChannelsOK'
    BY <1>0, <2>1, <2>3 DEF StateOK, ChannelsOK
  <2>5. PendingIsCommands' /\ RouteToWorker' /\ RouteToHub' /\ StatusToPage'
    BY <2>1, <2>3 DEF IInv, PendingIsCommands, RouteToWorker, RouteToHub, StatusToPage
  <2> QED
    BY <2>4, <2>5 DEF IInv
<1>12. CASE FrameArrives
  <2> DEFINE m == Msg("ENVELOPE", Head(down))
  <2>1. /\ down # <<>> /\ down' = Tail(down) /\ toPage' = Append(toPage, m)
        /\ UNCHANGED <<page, worker, toWorker, up, hub>>
    BY <1>12 DEF FrameArrives
  <2>2. down' \in Seq(Vals) /\ Head(down) \in Vals
    BY <1>0, <2>1
  <2>3. m \in Message /\ m.kind = "ENVELOPE"
    BY <1>m, <2>2
  <2> HIDE DEF m
  <2>4. /\ <<m>> \in Seq(Message) /\ Lacks(<<m>>, "STATUS")
        /\ toPage' = toPage \o <<m>> /\ toPage' \in Seq(Message)
    BY <1>0, <2>1, <2>3 DEF Lacks
  <2>5. StatusToPage'
    BY <1>0, <2>1, <2>4, CarriesOthers DEF IInv, StatusToPage
  <2>6. StateOK' /\ ChannelsOK'
    BY <1>0, <2>1, <2>2, <2>4 DEF StateOK, ChannelsOK
  <2>7. PendingIsCommands' /\ RouteToWorker' /\ RouteToHub'
    BY <2>1 DEF IInv, PendingIsCommands, RouteToWorker, RouteToHub
  <2> QED
    BY <2>5, <2>6, <2>7 DEF IInv
<1>13. CASE HubReceives
  <2> DEFINE msg == Head(up)
  <2>1. /\ up # <<>> /\ up' = Tail(up)
        /\ hub' = CASE msg.kind = "ROUTE" -> [hub EXCEPT !.route = msg.val]
                    [] msg.kind = "FOCUS" -> [hub EXCEPT !.focus = msg.val]
                    [] OTHER -> hub
        /\ down' = IF msg.kind = "s3" THEN Append(down, msg.val) ELSE down
        /\ UNCHANGED <<page, worker, toWorker, toPage>>
    BY <1>13 DEF HubReceives
  <2>2. /\ up' \in Seq(Message) /\ msg.val \in Vals
        /\ \A base, v : Carries(up, "ROUTE", base, v) =>
             Carries(up', "ROUTE", IF msg.kind = "ROUTE" THEN msg.val ELSE base, v)
    BY <1>0, <1>r, <2>1
  <2> HIDE DEF msg
  <2>3. /\ hub' \in [focus : Vals, route : Vals]
        /\ hub'.route = IF msg.kind = "ROUTE" THEN msg.val ELSE hub.route
    <3>1. CASE msg.kind = "ROUTE"
      BY <1>0, <2>1, <2>2, <3>1
    <3>2. CASE msg.kind = "FOCUS"
      BY <1>0, <2>1, <2>2, <3>2
    <3>3. CASE msg.kind \notin {"ROUTE", "FOCUS"}
      BY <1>0, <2>1, <3>3
    <3> QED
      BY <3>1, <3>2, <3>3
  <2>4. RouteToHub'
    BY <2>1, <2>2, <2>3 DEF IInv, RouteToHub
  <2>5. StateOK' /\ ChannelsOK'
    BY <1>0, <2>1, <2>2, <2>3 DEF StateOK, ChannelsOK
  <2>6. PendingIsCommands' /\ RouteToWorker' /\ StatusToPage'
    BY <2>1 DEF IInv, PendingIsCommands, RouteToWorker, StatusToPage
  <2> QED
    BY <2>4, <2>5, <2>6 DEF IInv
<1>14. CASE UNCHANGED vars
  BY <1>14 DEF vars, IInv, StateOK, ChannelsOK, PendingIsCommands, RouteToWorker,
               RouteToHub, StatusToPage
<1> QED
  BY <1>1, <1>2, <1>3, <1>4, <1>5, <1>6, <1>7, <1>8, <1>9, <1>10, <1>11, <1>12, <1>13, <1>14
  DEF Next

\* The invariant holds in every reachable state.
THEOREM Invariance == Spec => []IInv
<1>1. Init => IInv
  <2> SUFFICES ASSUME Init PROVE IInv
    OBVIOUS
  <2>1. /\ DefaultRoute \in Vals /\ DefaultFocus \in Vals
    BY FeedAssumption DEF Vals
  <2>2. /\ page \in Pages /\ page.bound = FALSE
    BY <2>1 DEF Init, Pages, Statuses
  <2>3. worker \in Workers /\ worker.sock = "none" /\ worker.pending = <<>>
    BY <2>1 DEF Init, NoWorker, Workers
  <2>4. hub \in [focus : Vals, route : Vals]
    BY <2>1 DEF Init
  <2>5. ChannelsOK
    BY DEF Init, ChannelsOK
  <2>6. PendingIsCommands
    BY <2>3 DEF PendingIsCommands, Lacks
  <2> QED
    BY <2>2, <2>3, <2>4, <2>5, <2>6
    DEF IInv, StateOK, RouteToWorker, RouteToHub, StatusToPage
<1> QED
  BY <1>1, Step, PTL DEF Spec

\* sendRoute, connect and the STATUS messages: whatever was clicked, mounted,
\* broken or restarted, once nothing is in flight the hub publishes for the
\* surface on screen, and a page that has read its messages shows the state
\* of the socket.
THEOREM Agreement == Spec => []FeedAgrees
<1>1. IInv => FeedAgrees
  <2> SUFFICES ASSUME IInv PROVE FeedAgrees
    OBVIOUS
  <2>1. RouteFollowsPage
    BY CarriesEmpty DEF IInv, RouteToWorker, RouteToHub, RouteFollowsPage, Quiet
  <2>2. StatusFollowsSocket
    BY CarriesEmpty DEF IInv, StatusToPage, StatusFollowsSocket
  <2> QED
    BY <2>1, <2>2 DEF FeedAgrees
<1> QED
  BY <1>1, Invariance, PTL
=============================================================================
