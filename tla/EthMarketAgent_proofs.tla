------------------------ MODULE EthMarketAgent_proofs ------------------------
(***************************************************************************)
(* Proofs about the Ethereum market agent, for any number of connections,   *)
(* blocks and faults: however many reconnects run at once, the agent is     *)
(* watched and subscribed; a block is published once; and prices are the    *)
(* right way round until the adapter is rebuilt.                            *)
(***************************************************************************)
EXTENDS EthMarketAgent, TLAPS

-----------------------------------------------------------------------------
(* Every connection number in use is one that can be.                       *)

Loop == [id : Connections, saved : BOOLEAN, on : Connections]

RpcTypes ==
    /\ made \in Connections
    /\ provider \in Connections
    /\ watchers \in [Connections -> Nat]
    /\ loops \subseteq Loop
    /\ live \subseteq Connections /\ closing \subseteq Connections

LEMMA RpcTypesInit == FeedInit => RpcTypes
BY EthAssumption DEF FeedInit, RpcTypes, Connections, Loop

LEMMA ReconnectTypes ==
    ASSUME RpcTypes, NEW n \in Nat, n > 0,
           NEW open \in SUBSET Connections, NEW due \in SUBSET Connections,
           Reconnect(n, open, due)
    PROVE  RpcTypes'
<1>1. made + 1 .. made + n \subseteq Connections /\ made + n \in Connections
      BY EthAssumption DEF Reconnect, RpcTypes, Connections
<1>2. made' \in Connections /\ provider' \in Connections /\ watchers' \in [Connections -> Nat]
      BY <1>1 DEF Reconnect, RpcTypes
<1>3. ASSUME NEW k \in made + 1 .. made + n
      PROVE  [id |-> k, saved |-> callback /\ k = made + 1, on |-> k] \in Loop
  <2>1. (callback /\ k = made + 1) \in BOOLEAN
        OBVIOUS
  <2>2. QED BY <1>1, <2>1 DEF Loop
<1>4. loops' \subseteq Loop
      BY <1>3 DEF Reconnect, RpcTypes
<1>5. live' \subseteq Connections /\ closing' \subseteq Connections
      BY <1>1 DEF Reconnect, RpcTypes
<1>6. QED BY <1>2, <1>4, <1>5 DEF RpcTypes

LEMMA SocketEventTypes ==
    ASSUME RpcTypes, NEW p \in Connections,
           NEW open \in SUBSET Connections, NEW due \in SUBSET Connections,
           SocketEvent(p, open, due)
    PROVE  RpcTypes'
<1>1. CASE watchers[p] > 0
      BY <1>1, ReconnectTypes DEF SocketEvent, RpcTypes
<1>2. CASE ~(watchers[p] > 0)
      BY <1>2 DEF SocketEvent, RpcTypes
<1>3. QED BY <1>1, <1>2

LEMMA RpcTypesStep == RpcTypes /\ [FeedNext]_feedVars => RpcTypes'
<1> SUFFICES ASSUME RpcTypes, [FeedNext]_feedVars
             PROVE  RpcTypes'
    OBVIOUS
<1>1. ASSUME UNCHANGED rpcVars
      PROVE  RpcTypes'
      BY <1>1 DEF RpcTypes, rpcVars
<1>2. ASSUME NEW p \in live, SocketLost(p)
      PROVE  RpcTypes'
  <2>1. p \in Connections /\ live \ {p} \in SUBSET Connections
        /\ closing \union {p} \in SUBSET Connections
        BY <1>2 DEF RpcTypes
  <2>2. CASE SocketEvent(p, live \ {p}, closing \union {p})
        BY <2>1, <2>2, SocketEventTypes
  <2>3. CASE ~SocketEvent(p, live \ {p}, closing \union {p})
        BY <1>2, <2>1, <2>3 DEF SocketLost, RpcTypes
  <2>4. QED BY <2>2, <2>3
<1>3. ASSUME NEW p \in closing, CloseEvent(p)
      PROVE  RpcTypes'
  <2>1. p \in Connections /\ live \in SUBSET Connections /\ closing \ {p} \in SUBSET Connections
        BY <1>3 DEF RpcTypes
  <2>2. QED BY <1>3, <2>1, SocketEventTypes DEF CloseEvent
<1>4. ASSUME NEW l \in loops, ConnectFails(l)
      PROVE  RpcTypes'
  <2>1. made + 1 \in Connections
        BY <1>4, EthAssumption DEF ConnectFails, RpcTypes, Connections
  <2>2. l \in Loop
        BY <1>4 DEF RpcTypes
  <2>3. [l EXCEPT !.on = made + 1] \in Loop
        BY <2>1, <2>2 DEF Loop
  <2>4. QED BY <1>4, <2>1, <2>3 DEF ConnectFails, RpcTypes
<1>5. ASSUME NEW l \in loops, ConnectSucceeds(l)
      PROVE  RpcTypes'
  <2>1. watchers' \in [Connections -> Nat]
        BY <1>5 DEF ConnectSucceeds, RpcTypes
  <2>2. loops' \subseteq Loop
        BY <1>5 DEF ConnectSucceeds, RpcTypes
  <2>3. UNCHANGED <<made, provider, live, closing>>
        BY <1>5 DEF ConnectSucceeds
  <2>4. QED BY <2>1, <2>2, <2>3 DEF RpcTypes
<1>6. ASSUME PoolBuilt
      PROVE  RpcTypes'
      BY <1>1, <1>6 DEF PoolBuilt
<1>7. ASSUME Start
      PROVE  RpcTypes'
      BY <1>7 DEF Start, RpcTypes
<1>8. ASSUME NEW block, HandleNewBlock(block)
      PROVE  RpcTypes'
      BY <1>1, <1>8 DEF HandleNewBlock
<1>9. ASSUME NEW h \in handlers, PoolInitialised(h) \/ PublishSnapshot(h) \/ HandlerFails(h)
      PROVE  RpcTypes'
      BY <1>1, <1>9 DEF PoolInitialised, PublishSnapshot, HandlerFails
<1>10. ASSUME Restart
       PROVE  RpcTypes'
       BY <1>10, EthAssumption DEF Restart, RpcTypes, Connections, Loop
<1>11. ASSUME UNCHANGED feedVars
       PROVE  RpcTypes'
       BY <1>1, <1>11 DEF feedVars
<1>12. QED
       BY <1>2, <1>3, <1>4, <1>5, <1>6, <1>7, <1>8, <1>9, <1>10, <1>11 DEF FeedNext
-----------------------------------------------------------------------------
(* The agent is watched and subscribed.                                     *)

\* A reconnect in progress carries the callback.
CallbackCarried == \E l \in loops : l.saved

\* A connection that is watched has the listener and is open, or its close
\* event is still to come.
Subscribed ==
    callback /\ \E p \in listening \intersect (live \union closing) : watchers[p] > 0

\* The connection in use is watched, and open or about to be noticed closed.
ProviderWatched == provider \in live \union closing /\ watchers[provider] > 0

WatchInv ==
    /\ RpcTypes
    /\ stage = "running" => callback \/ CallbackCarried
    /\ stage = "running" /\ ~early => CallbackCarried \/ Subscribed
    /\ stage # "connecting" /\ loops = {} => ProviderWatched

LEMMA WatchInit == FeedInit => WatchInv
BY RpcTypesInit DEF FeedInit, WatchInv

\* A reconnect takes the callback over if there is one.
LEMMA ReconnectCarries ==
    ASSUME WatchInv, NEW n \in Nat, n > 0, NEW open, NEW due, Reconnect(n, open, due)
    PROVE  /\ loops' # {}
           /\ callback \/ CallbackCarried => CallbackCarried'
<1> DEFINE l == [id |-> made + 1, saved |-> callback /\ made + 1 = made + 1, on |-> made + 1]
<1>1. made + 1 \in made + 1 .. made + n
      BY DEF WatchInv, RpcTypes, Connections
<1>2. l \in loops' /\ loops \subseteq loops'
      BY <1>1 DEF Reconnect
<1>3. callback => l.saved
      OBVIOUS
<1>4. QED BY <1>2, <1>3 DEF CallbackCarried

\* Losing a socket, or noticing that it is lost, keeps the agent watched.
LEMMA SocketEventWatched ==
    ASSUME WatchInv, NEW p \in Connections, NEW open, NEW due,
           SocketEvent(p, open, due), UNCHANGED <<stage, early>>, RpcTypes',
           (live \union closing) \ {p} \subseteq open \union due
    PROVE  WatchInv'
<1>1. CASE watchers[p] > 0
  <2>1. watchers[p] \in Nat /\ Reconnect(watchers[p], open, due)
        BY <1>1 DEF SocketEvent, WatchInv, RpcTypes
  <2>2. loops' # {} /\ (callback \/ CallbackCarried => CallbackCarried')
        BY <1>1, <2>1, ReconnectCarries
  <2>3. Subscribed => callback
        BY DEF Subscribed
  <2>4. QED BY <2>2, <2>3 DEF WatchInv
<1>2. CASE ~(watchers[p] > 0)
  <2>1. live' = open /\ closing' = due
        /\ UNCHANGED <<provider, made, watchers, listening, callback, loops>>
        BY <1>2 DEF SocketEvent
  <2>2. CallbackCarried' = CallbackCarried
        BY <2>1 DEF CallbackCarried
  <2>3. Subscribed => Subscribed'
        BY <1>2, <2>1 DEF Subscribed
  <2>4. ProviderWatched => ProviderWatched'
        BY <1>2, <2>1 DEF ProviderWatched
  <2>5. QED BY <2>1, <2>2, <2>3, <2>4 DEF WatchInv
<1>3. QED BY <1>1, <1>2

LEMMA WatchStep == WatchInv /\ [FeedNext]_feedVars => WatchInv'
<1> SUFFICES ASSUME WatchInv, [FeedNext]_feedVars
             PROVE  WatchInv'
    OBVIOUS
<1>0. RpcTypes'
      BY RpcTypesStep DEF WatchInv
<1>1. ASSUME UNCHANGED rpcVars, UNCHANGED <<stage, early>>
      PROVE  WatchInv'
      BY <1>0, <1>1 DEF WatchInv, rpcVars, CallbackCarried, Subscribed, ProviderWatched
<1>2. ASSUME NEW p \in live, SocketLost(p)
      PROVE  WatchInv'
  <2>1. p \in Connections /\ UNCHANGED <<stage, early>>
        BY <1>2 DEF WatchInv, RpcTypes, SocketLost, agentVars
  <2>2. CASE SocketEvent(p, live \ {p}, closing \union {p})
        BY <1>0, <2>1, <2>2, SocketEventWatched
  <2>3. CASE ~SocketEvent(p, live \ {p}, closing \union {p})
    <3>1. live' = live \ {p} /\ closing' = closing \union {p}
          /\ UNCHANGED <<provider, made, watchers, listening, callback, loops>>
          BY <1>2, <2>3 DEF SocketLost
    <3>2. CallbackCarried' = CallbackCarried
          BY <3>1 DEF CallbackCarried
    <3>3. Subscribed => Subscribed'
          BY <3>1 DEF Subscribed
    <3>4. ProviderWatched => ProviderWatched'
          BY <3>1 DEF ProviderWatched
    <3>5. QED BY <1>0, <2>1, <3>1, <3>2, <3>3, <3>4 DEF WatchInv
  <2>4. QED BY <2>2, <2>3
<1>3. ASSUME NEW p \in closing, CloseEvent(p)
      PROVE  WatchInv'
      BY <1>0, <1>3, SocketEventWatched DEF CloseEvent, WatchInv, RpcTypes, agentVars
<1>4. ASSUME NEW l \in loops, ConnectFails(l)
      PROVE  WatchInv'
  <2>1. loops' # {} /\ UNCHANGED <<stage, early, callback, listening, watchers, closing>>
        /\ live \subseteq live'
        BY <1>4 DEF ConnectFails, agentVars
  <2>2. l \in Loop
        BY DEF WatchInv, RpcTypes
  <2>3. [l EXCEPT !.on = made + 1].saved = l.saved
        BY <2>2 DEF Loop
  <2>4. CallbackCarried => CallbackCarried'
        BY <1>4, <2>3 DEF ConnectFails, CallbackCarried
  <2>5. Subscribed => Subscribed'
        BY <2>1 DEF Subscribed
  <2>6. QED BY <1>0, <2>1, <2>4, <2>5 DEF WatchInv
<1>5. ASSUME NEW l \in loops, ConnectSucceeds(l)
      PROVE  WatchInv'
  <2>1. /\ provider \in live /\ loops' = loops \ {l}
        /\ watchers' = [watchers EXCEPT ![provider] = @ + 1]
        /\ UNCHANGED <<provider, live, closing, early>>
        BY <1>5 DEF ConnectSucceeds
  <2>2. watchers'[provider] > 0 /\ \A p \in Connections : watchers[p] > 0 => watchers'[p] > 0
        BY <2>1 DEF WatchInv, RpcTypes
  <2>3. ProviderWatched'
        BY <2>1, <2>2 DEF ProviderWatched
  <2>4. CASE l.saved
    <3>1. callback' /\ provider \in listening'
          BY <1>5, <2>4 DEF ConnectSucceeds, OnBlock
    <3>2. Subscribed'
          BY <2>1, <2>2, <3>1 DEF Subscribed
    <3>3. QED BY <1>0, <2>3, <3>1, <3>2 DEF WatchInv
  <2>5. CASE ~l.saved
    <3>1. UNCHANGED <<callback, listening>>
          BY <1>5, <2>5 DEF ConnectSucceeds
    <3>2. CallbackCarried => CallbackCarried'
          BY <2>1, <2>5 DEF CallbackCarried
    <3>3. Subscribed => Subscribed'
          BY <2>1, <2>2, <3>1 DEF Subscribed, WatchInv, RpcTypes
    <3>4. stage' = "running" => stage = "running"
          BY <1>5 DEF ConnectSucceeds
    <3>5. QED BY <1>0, <2>1, <2>3, <3>1, <3>2, <3>3, <3>4 DEF WatchInv
  <2>6. QED BY <2>4, <2>5
<1>6. ASSUME PoolBuilt
      PROVE  WatchInv'
      BY <1>0, <1>6 DEF PoolBuilt, WatchInv, rpcVars, ProviderWatched
<1>7. ASSUME Start
      PROVE  WatchInv'
  <2>1. callback' /\ provider \in listening'
        BY <1>7 DEF Start, OnBlock
  <2>2. UNCHANGED <<provider, live, watchers, closing, loops>> /\ early' = (loops # {})
        BY <1>7 DEF Start
  <2>3. loops = {} => ProviderWatched /\ ProviderWatched'
        BY <1>7, <2>2 DEF Start, WatchInv, ProviderWatched
  <2>4. ~early' => Subscribed'
        BY <2>1, <2>2, <2>3 DEF ProviderWatched, Subscribed
  <2>5. QED BY <1>0, <2>1, <2>2, <2>3, <2>4 DEF WatchInv
<1>8. ASSUME NEW block, HandleNewBlock(block)
      PROVE  WatchInv'
      BY <1>1, <1>8 DEF HandleNewBlock
<1>9. ASSUME NEW h \in handlers, PoolInitialised(h) \/ PublishSnapshot(h) \/ HandlerFails(h)
      PROVE  WatchInv'
      BY <1>1, <1>9 DEF PoolInitialised, PublishSnapshot, HandlerFails
<1>10. ASSUME Restart
       PROVE  WatchInv'
       BY <1>0, <1>10 DEF Restart, WatchInv
<1>11. ASSUME UNCHANGED feedVars
       PROVE  WatchInv'
       BY <1>1, <1>11 DEF feedVars, agentVars
<1>12. QED
       BY <1>2, <1>3, <1>4, <1>5, <1>6, <1>7, <1>8, <1>9, <1>10, <1>11 DEF FeedNext

\* However many sockets are lost, in whatever order their close events, failed
\* tests and reconnects come, a running agent keeps its callback, and hears of
\* blocks or is about to notice that it does not (rpc.ts:45-110).
THEOREM EthFeedWatched == FeedSpec => []FeedWatched
<1>1. WatchInv => FeedWatched
      BY DEF WatchInv, CallbackCarried, Subscribed, FeedWatched
<1>2. QED
      BY WatchInit, WatchStep, <1>1, PTL DEF FeedSpec
-----------------------------------------------------------------------------
(* The handlers of blocks have their types.                                 *)

Handler == [id : Nat, block : Nat, on : 0 .. MaxConnections, awaiting : {"pool", "data"}]

AgentTypes ==
    /\ adapter \in 0 .. MaxConnections
    /\ lastBlock \in Nat /\ events \in Nat /\ restarts \in Nat
    /\ handlers \subseteq Handler
    /\ \A s \in topic : s.block \in Nat

FeedTypes == RpcTypes /\ AgentTypes

LEMMA FeedTypesInit == FeedInit => FeedTypes
BY RpcTypesInit, EthAssumption DEF FeedInit, FeedTypes, AgentTypes

LEMMA FeedTypesStep == FeedTypes /\ [FeedNext]_feedVars => FeedTypes'
<1> SUFFICES ASSUME FeedTypes, [FeedNext]_feedVars
             PROVE  AgentTypes'
    BY RpcTypesStep DEF FeedTypes
<1>0. RpcTypes /\ AgentTypes /\ provider \in 0 .. MaxConnections
      BY EthAssumption DEF FeedTypes, RpcTypes, Connections
<1>1. ASSUME UNCHANGED agentVars
      PROVE  AgentTypes'
      BY <1>0, <1>1 DEF AgentTypes, agentVars
<1>2. ASSUME NEW p, SocketLost(p) \/ CloseEvent(p)
      PROVE  AgentTypes'
      BY <1>1, <1>2 DEF SocketLost, CloseEvent
<1>3. ASSUME NEW l, ConnectFails(l) \/ ConnectSucceeds(l)
      PROVE  AgentTypes'
  <2>1. CASE ConnectFails(l)
        BY <1>1, <2>1 DEF ConnectFails
  <2>2. CASE ConnectSucceeds(l)
        BY <1>0, <2>2 DEF ConnectSucceeds, AgentTypes
  <2>3. QED BY <1>3, <2>1, <2>2
<1>4. ASSUME PoolBuilt \/ Start
      PROVE  AgentTypes'
      BY <1>0, <1>4 DEF PoolBuilt, Start, AgentTypes
<1>5. ASSUME NEW block \in 1 .. MaxBlock, HandleNewBlock(block)
      PROVE  AgentTypes'
  <2> DEFINE new == [id |-> events, block |-> block, on |-> provider,
                     awaiting |-> IF provider = adapter THEN "data" ELSE "pool"]
  <2>1. block \in Nat
        BY EthAssumption
  <2>2. new \in Handler
        BY <1>0, <2>1 DEF AgentTypes, Handler
  <2>3. QED BY <1>0, <1>5, <2>1, <2>2 DEF HandleNewBlock, AgentTypes
<1>6. ASSUME NEW h \in handlers, PoolInitialised(h)
      PROVE  AgentTypes'
  <2>1. h \in Handler /\ adapter \in 0 .. MaxConnections
        BY <1>0 DEF AgentTypes
  <2>2. [h EXCEPT !.awaiting = "data", !.on = adapter] \in Handler
        BY <2>1 DEF Handler
  <2>3. QED BY <1>0, <1>6, <2>2 DEF PoolInitialised, AgentTypes
<1>7. ASSUME NEW h \in handlers, PublishSnapshot(h)
      PROVE  AgentTypes'
  <2>1. PoolSnapshot(h).block = h.block /\ h.block \in Nat
        BY <1>0 DEF PoolSnapshot, AgentTypes, Handler
  <2>2. QED BY <1>0, <1>7, <2>1 DEF PublishSnapshot, AgentTypes
<1>8. ASSUME NEW h \in handlers, HandlerFails(h)
      PROVE  AgentTypes'
      BY <1>0, <1>8 DEF HandlerFails, AgentTypes
<1>9. ASSUME Restart
      PROVE  AgentTypes'
      BY <1>0, <1>9, EthAssumption DEF Restart, AgentTypes
<1>10. ASSUME UNCHANGED feedVars
       PROVE  AgentTypes'
       BY <1>1, <1>10 DEF feedVars
<1>11. QED
       BY <1>2, <1>3, <1>4, <1>5, <1>6, <1>7, <1>8, <1>9, <1>10 DEF FeedNext
-----------------------------------------------------------------------------
(* A block is published once.                                               *)

\* What a block has is one handler or what this handler has published, and
\* there is none for a block not seen yet.
OneHandlerPerBlock ==
    restarts = 0 => \A x \in handlers \union topic :
        /\ x.block <= lastBlock
        /\ \A y \in handlers \union topic : x.block = y.block => x.id = y.id

BlockInv == FeedTypes /\ OneHandlerPerBlock

LEMMA BlockInit == FeedInit => BlockInv
BY FeedTypesInit DEF FeedInit, BlockInv, OneHandlerPerBlock

\* Steps that start no handler and publish nothing but for a handler keep it.
LEMMA BlockKept ==
    ASSUME OneHandlerPerBlock, UNCHANGED <<lastBlock, restarts>>,
           \A x \in (handlers \union topic)' :
              \E y \in handlers \union topic : x.block = y.block /\ x.id = y.id
    PROVE  OneHandlerPerBlock'
<1>1. ASSUME restarts = 0, NEW x \in (handlers \union topic)'
      PROVE  x.block <= lastBlock
  <2>1. PICK u \in handlers \union topic : x.block = u.block
        OBVIOUS
  <2>2. u.block <= lastBlock
        BY <1>1 DEF OneHandlerPerBlock
  <2>3. QED BY <2>1, <2>2
<1>2. ASSUME restarts = 0, NEW x \in (handlers \union topic)',
             NEW y \in (handlers \union topic)', x.block = y.block
      PROVE  x.id = y.id
  <2>1. PICK u \in handlers \union topic : x.block = u.block /\ x.id = u.id
        OBVIOUS
  <2>2. PICK v \in handlers \union topic : y.block = v.block /\ y.id = v.id
        OBVIOUS
  <2>3. u.block = v.block
        BY <1>2, <2>1, <2>2
  <2>4. u.id = v.id
        BY <1>2, <2>3 DEF OneHandlerPerBlock
  <2>5. QED BY <2>1, <2>2, <2>4
<1>3. QED BY <1>1, <1>2 DEF OneHandlerPerBlock

LEMMA BlockStep == BlockInv /\ [FeedNext]_feedVars => BlockInv'
<1> SUFFICES ASSUME BlockInv, [FeedNext]_feedVars
             PROVE  OneHandlerPerBlock'
    BY FeedTypesStep DEF BlockInv
<1>0. OneHandlerPerBlock /\ AgentTypes
      BY DEF BlockInv, FeedTypes
<1>1. ASSUME UNCHANGED <<handlers, topic, lastBlock, restarts>>
      PROVE  OneHandlerPerBlock'
      BY <1>0, <1>1, BlockKept
<1>2. ASSUME NEW p, SocketLost(p) \/ CloseEvent(p)
      PROVE  OneHandlerPerBlock'
      BY <1>1, <1>2 DEF SocketLost, CloseEvent, agentVars
<1>3. ASSUME NEW l, ConnectFails(l) \/ ConnectSucceeds(l)
      PROVE  OneHandlerPerBlock'
      BY <1>1, <1>3 DEF ConnectFails, ConnectSucceeds, agentVars
<1>4. ASSUME PoolBuilt \/ Start
      PROVE  OneHandlerPerBlock'
      BY <1>1, <1>4 DEF PoolBuilt, Start
<1>5. ASSUME NEW block \in 1 .. MaxBlock, HandleNewBlock(block)
      PROVE  OneHandlerPerBlock'
  <2> DEFINE new == [id |-> events, block |-> block, on |-> provider,
                     awaiting |-> IF provider = adapter THEN "data" ELSE "pool"]
  <2>1. /\ lastBlock' = block /\ UNCHANGED <<topic, restarts>>
        /\ handlers' = handlers \union {new}
        BY <1>5 DEF HandleNewBlock
  <2>2. block \in Nat /\ lastBlock \in Nat /\ lastBlock < block
        BY <1>0, <1>5, EthAssumption DEF HandleNewBlock, AgentTypes
  <2>3. new.block = block
        OBVIOUS
  <2>4. ASSUME restarts = 0, NEW x \in handlers \union topic
        PROVE  x.block < block
    <3>1. x.block \in Nat /\ x.block <= lastBlock
          BY <1>0, <2>4 DEF AgentTypes, Handler, OneHandlerPerBlock
    <3>2. QED BY <2>2, <3>1
  <2>5. ASSUME NEW x \in (handlers \union topic)'
        PROVE  x = new \/ x \in handlers \union topic
        BY <2>1
  <2>6. ASSUME NEW x \in (handlers \union topic)'
        PROVE  x.block \in Nat
        BY <1>0, <2>2, <2>3, <2>5 DEF AgentTypes, Handler
  <2>7. ASSUME restarts = 0, NEW x \in (handlers \union topic)'
        PROVE  x.block <= block
        BY <2>2, <2>3, <2>4, <2>5, <2>6, <2>7
  <2>8. ASSUME restarts = 0, NEW x \in (handlers \union topic)',
               NEW y \in (handlers \union topic)', x.block = y.block
        PROVE  x.id = y.id
    <3>1. CASE x = new /\ y = new
          BY <3>1
    <3>2. CASE x = new /\ y \in handlers \union topic
          BY <2>2, <2>3, <2>4, <2>8, <2>6, <3>2
    <3>3. CASE y = new /\ x \in handlers \union topic
          BY <2>2, <2>3, <2>4, <2>8, <2>6, <3>3
    <3>4. CASE x \in handlers \union topic /\ y \in handlers \union topic
          BY <1>0, <2>8, <3>4 DEF OneHandlerPerBlock
    <3>5. QED BY <2>5, <3>1, <3>2, <3>3, <3>4
  <2>9. QED BY <2>1, <2>7, <2>8 DEF OneHandlerPerBlock
<1>6. ASSUME NEW h \in handlers, PoolInitialised(h)
      PROVE  OneHandlerPerBlock'
  <2> DEFINE g == [h EXCEPT !.awaiting = "data", !.on = adapter]
  <2>1. h \in Handler
        BY <1>0 DEF AgentTypes
  <2>2. g.block = h.block /\ g.id = h.id
        BY <2>1 DEF Handler
  <2>3. handlers' = (handlers \ {h}) \union {g} /\ UNCHANGED <<topic, lastBlock, restarts>>
        BY <1>6 DEF PoolInitialised
  <2>4. ASSUME NEW x \in (handlers \union topic)'
        PROVE  \E y \in handlers \union topic : x.block = y.block /\ x.id = y.id
        BY <1>6, <2>2, <2>3
  <2>5. QED BY <1>0, <2>3, <2>4, BlockKept
<1>7. ASSUME NEW h \in handlers, PublishSnapshot(h)
      PROVE  OneHandlerPerBlock'
  <2>1. PoolSnapshot(h).block = h.block /\ PoolSnapshot(h).id = h.id
        BY DEF PoolSnapshot
  <2>2. ASSUME NEW x \in (handlers \union topic)'
        PROVE  \E y \in handlers \union topic : x.block = y.block /\ x.id = y.id
        BY <1>7, <2>1 DEF PublishSnapshot
  <2>3. QED BY <1>0, <1>7, <2>2, BlockKept DEF PublishSnapshot
<1>8. ASSUME NEW h \in handlers, HandlerFails(h)
      PROVE  OneHandlerPerBlock'
      BY <1>0, <1>8, BlockKept DEF HandlerFails
<1>9. ASSUME Restart
      PROVE  OneHandlerPerBlock'
      BY <1>0, <1>9 DEF Restart, AgentTypes, OneHandlerPerBlock
<1>10. ASSUME UNCHANGED feedVars
       PROVE  OneHandlerPerBlock'
       BY <1>1, <1>10 DEF feedVars, agentVars
<1>11. QED
       BY <1>2, <1>3, <1>4, <1>5, <1>6, <1>7, <1>8, <1>9, <1>10 DEF FeedNext

\* As long as the process lives, a block is published at most once, however
\* many connections deliver it and however long its handler waits
\* (agent.ts:69-92).
THEOREM EthBlockPublishedOnce == FeedSpec => []BlockPublishedOnce
<1>1. BlockInv => BlockPublishedOnce
      BY DEF BlockInv, OneHandlerPerBlock, BlockPublishedOnce
<1>2. QED
      BY BlockInit, BlockStep, <1>1, PTL DEF FeedSpec
-----------------------------------------------------------------------------
(* Prices are the right way round until the adapter is rebuilt.             *)

\* Blocks are handled once the pool of initialize is initialised: there is no
\* callback and no handler before, and the adapter is not replaced.
OrientInv ==
    /\ stage = "building" => first = adapter
    /\ stage \in {"joining", "running"} => first \in ready
    /\ callback \/ CallbackCarried \/ handlers # {} => stage = "running"
    /\ OrientedUntilRebuilt

LEMMA OrientInit == FeedInit => OrientInv
BY DEF FeedInit, OrientInv, CallbackCarried, OrientedUntilRebuilt

\* What the listeners of a socket do brings no callback that was not there.
LEMMA SocketEventCallback ==
    ASSUME NEW p, NEW open, NEW due, SocketEvent(p, open, due)
    PROVE  callback' \/ CallbackCarried' => callback \/ CallbackCarried
<1>1. CASE watchers[p] > 0
  <2>1. Reconnect(watchers[p], open, due)
        BY <1>1 DEF SocketEvent
  <2>2. SUFFICES ASSUME NEW l \in loops', l.saved, ~CallbackCarried
                 PROVE  callback
        BY <2>1 DEF Reconnect, CallbackCarried
  <2>3. l \notin loops
        BY <2>2 DEF CallbackCarried
  <2>4. PICK k \in made + 1 .. made + watchers[p] :
          l = [id |-> k, saved |-> callback /\ k = made + 1, on |-> k]
        BY <2>1, <2>3 DEF Reconnect
  <2>5. l.saved = (callback /\ k = made + 1)
        BY <2>4
  <2>6. QED BY <2>2, <2>5
<1>2. CASE ~(watchers[p] > 0)
      BY <1>2 DEF SocketEvent, CallbackCarried
<1>3. QED BY <1>1, <1>2

LEMMA OrientStep == RpcTypes /\ OrientInv /\ [FeedNext]_feedVars => OrientInv'
<1> SUFFICES ASSUME RpcTypes, OrientInv, [FeedNext]_feedVars
             PROVE  OrientInv'
    OBVIOUS
<1>1. ASSUME UNCHANGED agentVars,
             callback' \/ CallbackCarried' => callback \/ CallbackCarried
      PROVE  OrientInv'
      BY <1>1 DEF OrientInv, OrientedUntilRebuilt, agentVars
<1>2. ASSUME NEW p, SocketLost(p)
      PROVE  OrientInv'
  <2>1. UNCHANGED agentVars
        BY <1>2 DEF SocketLost
  <2>2. CASE SocketEvent(p, live \ {p}, closing \union {p})
        BY <1>1, <2>1, <2>2, SocketEventCallback
  <2>3. CASE UNCHANGED <<callback, loops>>
        BY <1>1, <2>1, <2>3 DEF CallbackCarried
  <2>4. QED BY <1>2, <2>2, <2>3 DEF SocketLost
<1>3. ASSUME NEW p, CloseEvent(p)
      PROVE  OrientInv'
      BY <1>1, <1>3, SocketEventCallback DEF CloseEvent
<1>4. ASSUME NEW l \in loops, ConnectFails(l)
      PROVE  OrientInv'
  <2>1. l \in Loop
        BY DEF RpcTypes
  <2>2. [l EXCEPT !.on = made + 1].saved = l.saved
        BY <2>1 DEF Loop
  <2>3. callback' \/ CallbackCarried' => callback \/ CallbackCarried
        BY <1>4, <2>2 DEF ConnectFails, CallbackCarried
  <2>4. QED BY <1>1, <1>4, <2>3 DEF ConnectFails
<1>5. ASSUME NEW l \in loops, ConnectSucceeds(l)
      PROVE  OrientInv'
  <2>1. /\ UNCHANGED <<ready, handlers, topic>> /\ loops' = loops \ {l}
        BY <1>5 DEF ConnectSucceeds
  <2>2. callback' \/ CallbackCarried' => callback \/ CallbackCarried
        BY <1>5, <2>1 DEF ConnectSucceeds, CallbackCarried
  <2>3. CASE stage = "connecting"
        BY <1>5, <2>1, <2>2, <2>3 DEF ConnectSucceeds, OrientInv, OrientedUntilRebuilt
  <2>4. CASE stage # "connecting"
    <3>1. UNCHANGED <<stage, adapter, first>>
          BY <1>5, <2>4 DEF ConnectSucceeds
    <3>2. QED BY <2>1, <2>2, <3>1 DEF OrientInv, OrientedUntilRebuilt
  <2>5. QED BY <2>3, <2>4
<1>6. ASSUME PoolBuilt
      PROVE  OrientInv'
      BY <1>6 DEF PoolBuilt, rpcVars, OrientInv, CallbackCarried, OrientedUntilRebuilt
<1>7. ASSUME Start
      PROVE  OrientInv'
      BY <1>7 DEF Start, OnBlock, OrientInv, CallbackCarried, OrientedUntilRebuilt
<1>8. ASSUME NEW block, HandleNewBlock(block)
      PROVE  OrientInv'
      BY <1>8 DEF HandleNewBlock, rpcVars, OrientInv, CallbackCarried, OrientedUntilRebuilt
<1>9. ASSUME NEW h \in handlers, PoolInitialised(h) \/ HandlerFails(h)
      PROVE  OrientInv'
  <2>1. stage = "running" /\ UNCHANGED <<rpcVars, first, stage, adapter, topic>>
        /\ ready \subseteq ready'
        BY <1>9 DEF OrientInv, PoolInitialised, HandlerFails
  <2>2. QED BY <2>1 DEF rpcVars, OrientInv, CallbackCarried, OrientedUntilRebuilt
<1>10. ASSUME NEW h \in handlers, PublishSnapshot(h)
       PROVE  OrientInv'
  <2>1. stage = "running" /\ first \in ready
        BY <1>10 DEF OrientInv
  <2>2. PoolSnapshot(h).oriented \/ PoolSnapshot(h).rebuilt
        BY <2>1 DEF PoolSnapshot
  <2>3. OrientedUntilRebuilt'
        BY <1>10, <2>2 DEF PublishSnapshot, OrientInv, OrientedUntilRebuilt
  <2>4. QED BY <1>10, <2>1, <2>3 DEF PublishSnapshot, rpcVars, OrientInv, CallbackCarried
<1>11. ASSUME Restart
       PROVE  OrientInv'
       BY <1>11 DEF Restart, OrientInv, CallbackCarried, OrientedUntilRebuilt
<1>12. ASSUME UNCHANGED feedVars
       PROVE  OrientInv'
       BY <1>1, <1>12 DEF feedVars, rpcVars, CallbackCarried
<1>13. QED
       BY <1>2, <1>3, <1>4, <1>5, <1>6, <1>7, <1>8, <1>9, <1>10, <1>11, <1>12 DEF FeedNext

\* As long as the adapter is the one initialize has built and awaited, prices
\* are published the right way round (agent.ts:36-50, uniswap.ts:60).
THEOREM EthOrientedUntilRebuilt == FeedSpec => []OrientedUntilRebuilt
<1>1. OrientInv => OrientedUntilRebuilt
      BY DEF OrientInv
<1>2. QED
      BY RpcTypesInit, RpcTypesStep, OrientInit, OrientStep, <1>1, PTL DEF FeedSpec
=============================================================================
