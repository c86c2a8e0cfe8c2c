--------------------------- MODULE EthMarketAgent ---------------------------
(***************************************************************************)
(* The Ethereum market agent (eth-market-agent/src): its WebSocket client,  *)
(* the Uniswap pool it reads, and the handling of blocks.  There is one     *)
(* pool, as in config.ts.                                                   *)
(*                                                                         *)
(* Connections are numbered in the order they are created.  Both the close  *)
(* and the error event of a socket start a reconnect, and nothing keeps two *)
(* of them from running at once.  A reconnect destroys this.provider, sets  *)
(* it to null and to a new connection before any other event is handled, so *)
(* that provider is never null here.  A request on a dead connection is     *)
(* taken to fail.                                                           *)
(***************************************************************************)
EXTENDS Integers, FiniteSets

CONSTANTS
    MaxConnections, \* bound on the connections created
    MaxBlock,       \* bound on the chain
    FeedFaults      \* bound on sockets lost, requests failed and restarts

ASSUME EthAssumption ==
    /\ MaxConnections \in Nat \ {0}
    /\ MaxBlock \in Nat
    /\ FeedFaults \in Nat

Connections == 1 .. MaxConnections

VARIABLES
    provider,  \* this.provider, tested or not
    made,      \* connections created
    live,      \* those whose socket is open
    watchers,  \* per connection: how often setupAutoReconnect ran on it
    closing,   \* those whose close event is still to come
    listening, \* those with a block listener
    callback,  \* blockCallback is set
    loops,     \* the connects in progress: number, savedCb, connection under test
    first,     \* history: the connection initialize built the adapter with
    early,     \* history: start ran while a reconnect was in progress
    stage,     \* "connecting", "building" the adapter, "joining" Kafka, "running"
    adapter,   \* currentProvider, and the connection uniswapAdapter reads from
    ready,     \* connections whose pool object is initialised
    lastBlock, \* lastBlockNumber
    handlers,  \* block handlers awaiting the pool or its data
    events,    \* handlers started so far
    topic,     \* the events in market.eth.price-snapshot; nothing here depends
               \* on their order
    faults,
    restarts

rpcVars == <<provider, made, live, watchers, closing, listening, callback, loops>>
agentVars == <<first, early, stage, adapter, ready, lastBlock, handlers, events, topic, restarts>>
feedVars == <<rpcVars, agentVars, faults>>

FeedInit ==
    /\ provider = 1 /\ made = 1 /\ live = {1}
    /\ watchers = [p \in Connections |-> 0]
    /\ closing = {} /\ listening = {} /\ callback = FALSE
    /\ loops = {[id |-> 1, saved |-> FALSE, on |-> 1]}
    /\ first = 0 /\ early = FALSE /\ stage = "connecting" /\ adapter = 0 /\ ready = {}
    /\ lastBlock = 0 /\ handlers = {} /\ events = 0 /\ topic = {}
    /\ faults = 0 /\ restarts = 0

Fault == faults < FeedFaults /\ faults' = faults + 1

\* The process ends, orderly or not, and its container is started again.
Restart ==
    /\ Fault
    /\ restarts' = restarts + 1
    /\ provider' = 1 /\ made' = 1 /\ live' = {1}
    /\ watchers' = [p \in Connections |-> 0]
    /\ closing' = {} /\ listening' = {} /\ callback' = FALSE
    /\ loops' = {[id |-> 1, saved |-> FALSE, on |-> 1]}
    /\ first' = 0 /\ early' = FALSE /\ stage' = "connecting" /\ adapter' = 0 /\ ready' = {}
    /\ lastBlock' = 0 /\ handlers' = {}
    /\ UNCHANGED <<events, topic>>
-----------------------------------------------------------------------------
\* Mutant: the callback is read after it has been cleared.
Reconnect_CallbackLost(n, open, due) ==
    /\ made + n <= MaxConnections
    /\ made' = made + n
    /\ provider' = made + n
    /\ loops' = loops \union {[id |-> k, saved |-> FALSE, on |-> k] : k \in made + 1 .. made + n}
    /\ live' = (open \ {provider}) \union (made + 1 .. made + n)
    /\ closing' = due \union (open \intersect {provider})
    /\ listening' = listening \ {provider}
    /\ callback' = FALSE
    /\ UNCHANGED watchers

\* reconnectWithCallbacks, started by n > 0 listeners of one event: the first
\* takes the callback, each creates a connection and the last one's is in use.
\* The connection that was in use is destroyed; if it was open, its close event
\* follows.  open and due are the open sockets and close events of that moment.
Reconnect(n, open, due) ==
    /\ made + n <= MaxConnections
    /\ made' = made + n
    /\ provider' = made + n
    /\ loops' = loops \union
         {[id |-> k, saved |-> callback /\ k = made + 1, on |-> k] : k \in made + 1 .. made + n}
    /\ live' = (open \ {provider}) \union (made + 1 .. made + n)
    /\ closing' = due \union (open \intersect {provider})
    /\ listening' = listening \ {provider}
    /\ callback' = FALSE
    /\ UNCHANGED watchers

\* What the listeners of a socket event on connection p do.
SocketEvent(p, open, due) ==
    IF watchers[p] > 0
    THEN Reconnect(watchers[p], open, due)
    ELSE live' = open /\ closing' = due
         /\ UNCHANGED <<provider, made, watchers, listening, callback, loops>>

\* A socket is lost, with an error event first or with the close event alone.
SocketLost(p) ==
    /\ Fault
    /\ \/ SocketEvent(p, live \ {p}, closing \union {p})
       \/ /\ live' = live \ {p}
          /\ closing' = closing \union {p}
          /\ UNCHANGED <<provider, made, watchers, listening, callback, loops>>
    /\ UNCHANGED agentVars

CloseEvent(p) ==
    /\ SocketEvent(p, live, closing \ {p})
    /\ UNCHANGED <<agentVars, faults>>

\* A test fails, and after a delay a further connection is created.
ConnectFails(l) ==
    /\ made < MaxConnections
    /\ \/ {l.on, provider} \subseteq live /\ Fault
       \/ ~({l.on, provider} \subseteq live) /\ UNCHANGED faults
    /\ made' = made + 1
    /\ provider' = made + 1
    /\ live' = live \union {made + 1}
    /\ loops' = (loops \ {l}) \union {[l EXCEPT !.on = made + 1]}
    /\ UNCHANGED <<watchers, closing, listening, callback, agentVars>>

\* onBlock on the connection in use.
OnBlock ==
    /\ callback' = TRUE
    /\ listening' = listening \union {provider}

\* Mutant: only the first connection is watched.
ConnectSucceeds_WatchedOnce(l) ==
    /\ {l.on, provider} \subseteq live
    /\ watchers' = [watchers EXCEPT ![provider] = IF stage = "connecting" THEN @ + 1 ELSE @]
    /\ loops' = loops \ {l}
    /\ IF l.saved THEN OnBlock ELSE UNCHANGED <<callback, listening>>
    /\ IF stage = "connecting"
       THEN stage' = "building" /\ adapter' = provider /\ first' = provider
       ELSE UNCHANGED <<stage, adapter, first>>
    /\ UNCHANGED <<provider, made, live, closing, early, ready, lastBlock, handlers, events, topic,
                   faults, restarts>>

\* The test succeeds: getNetwork on the connection created, getBlockNumber on
\* the one in use by now, which is the one that is watched and subscribed.  The
\* first connect is the one of initialize, whose adapter is then built.
ConnectSucceeds(l) ==
    /\ {l.on, provider} \subseteq live
    /\ watchers' = [watchers EXCEPT ![provider] = @ + 1]
    /\ loops' = loops \ {l}
    /\ IF l.saved THEN OnBlock ELSE UNCHANGED <<callback, listening>>
    /\ IF stage = "connecting"
       THEN stage' = "building" /\ adapter' = provider /\ first' = provider
       ELSE UNCHANGED <<stage, adapter, first>>
    /\ UNCHANGED <<provider, made, live, closing, early, ready, lastBlock, handlers, events, topic,
                   faults, restarts>>
-----------------------------------------------------------------------------
\* Mutant: initialize does not wait for the pool.
PoolBuilt_NotAwaited ==
    /\ stage = "building"
    /\ stage' = "joining"
    /\ UNCHANGED <<rpcVars, first, early, adapter, ready, lastBlock, handlers, events, topic, faults, restarts>>

\* The pool of initialize is initialised; if that fails, the process ends.
PoolBuilt ==
    /\ stage = "building"
    /\ adapter \in live
    /\ ready' = ready \union {adapter}
    /\ stage' = "joining"
    /\ UNCHANGED <<rpcVars, first, early, adapter, lastBlock, handlers, events, topic, faults, restarts>>

\* Kafka is connected to, and start subscribes to blocks, on the connection in
\* use by now, tested or not.
Start ==
    /\ stage = "joining"
    /\ stage' = "running"
    /\ early' = (loops # {})
    /\ OnBlock
    /\ UNCHANGED <<provider, made, live, watchers, closing, loops, first, adapter, ready, lastBlock,
                   handlers, events, topic, faults, restarts>>

\* Mutant: the block is remembered when its snapshot is sent.
HandleNewBlock_RememberedLate(block) ==
    /\ callback /\ listening \intersect live # {}
    /\ block > lastBlock
    /\ adapter' = provider
    /\ handlers' = handlers \union
         {[id |-> events, block |-> block, on |-> provider,
           awaiting |-> IF provider = adapter THEN "data" ELSE "pool"]}
    /\ events' = events + 1
    /\ UNCHANGED <<rpcVars, first, early, stage, ready, lastBlock, topic, faults, restarts>>

\* A new block arrives on some connection that has a listener.  A handler that
\* finds the connection in use changed builds the adapter again; one that comes
\* while that is going on finds it unchanged and reads the new pool object.
HandleNewBlock(block) ==
    /\ callback /\ listening \intersect live # {}
    /\ block > lastBlock
    /\ lastBlock' = block
    /\ adapter' = provider
    /\ handlers' = handlers \union
         {[id |-> events, block |-> block, on |-> provider,
           awaiting |-> IF provider = adapter THEN "data" ELSE "pool"]}
    /\ events' = events + 1
    /\ UNCHANGED <<rpcVars, first, early, stage, ready, topic, faults, restarts>>

\* rebuildAdapter returns, and the data of the adapter of that moment is fetched.
PoolInitialised(h) ==
    /\ h.awaiting = "pool" /\ h.on \in live
    /\ ready' = ready \union {h.on}
    /\ handlers' = (handlers \ {h}) \union {[h EXCEPT !.awaiting = "data", !.on = adapter]}
    /\ UNCHANGED <<rpcVars, first, early, stage, adapter, lastBlock, events, topic, faults, restarts>>

\* The snapshot of a block.  Whether its price is the one of ETH in USDC depends
\* on invertPrice, which a pool object has only once it is initialised.
PoolSnapshot(h) ==
    [id |-> h.id, block |-> h.block, rebuilt |-> h.on # first, oriented |-> h.on \in ready]

\* The data and the gas price arrive, and the snapshot is sent.
PublishSnapshot(h) ==
    /\ h.awaiting = "data" /\ {h.on, provider} \subseteq live
    /\ topic' = topic \union {PoolSnapshot(h)}
    /\ handlers' = handlers \ {h}
    /\ UNCHANGED <<rpcVars, first, early, stage, adapter, ready, lastBlock, events, faults, restarts>>

\* Something fails while a block is handled: nothing is published for it, and a
\* pool that was not initialised never will be, as its provider has not changed.
HandlerFails(h) ==
    /\ \/ {h.on, provider} \subseteq live /\ Fault
       \/ ~({h.on, provider} \subseteq live) /\ UNCHANGED faults
    /\ handlers' = handlers \ {h}
    /\ UNCHANGED <<rpcVars, first, early, stage, adapter, ready, lastBlock, events, topic, restarts>>
-----------------------------------------------------------------------------
FeedNext ==
    \/ \E p \in live : SocketLost(p)
    \/ \E p \in closing : CloseEvent(p)
    \/ \E l \in loops : ConnectFails(l) \/ ConnectSucceeds(l)
    \/ PoolBuilt
    \/ Start
    \/ \E block \in 1 .. MaxBlock : HandleNewBlock(block)
    \/ \E h \in handlers : PoolInitialised(h) \/ PublishSnapshot(h) \/ HandlerFails(h)
    \/ Restart

FeedSpec == FeedInit /\ [][FeedNext]_feedVars
-----------------------------------------------------------------------------
\* However many reconnects run at once, a running agent does not go deaf: its
\* callback is set or held by a reconnect in progress (rpc.ts:67-72 clears it and
\* sets it again), and when none is in progress, a connection that is watched
\* has its listener, and is open or about to be noticed closed.  The exception:
\* start ran during a reconnect, which then has no callback to subscribe again.
FeedWatched ==
    stage = "running" =>
        /\ callback \/ \E l \in loops : l.saved
        /\ ~early /\ loops = {} =>
             \E p \in listening \intersect (live \union closing) : watchers[p] > 0

\* As long as the process lives, a block is published at most once, although
\* several connections may have the listener and a handler awaits the pool and
\* its data (agent.ts:69-92).
BlockPublishedOnce ==
    restarts = 0 => \A s, t \in topic : s.block = t.block => s.id = t.id

\* uniswap.ts:60: "If token0 is a stablecoin, the raw price gives USDC/WETH - we
\* must invert".  Prices are the right way round as long as the adapter is the
\* one of initialize.  After a rebuild they need not be: currentProvider and
\* uniswapAdapter are set before the pool is initialised (agent.ts:45-46), so
\* that a handler may read it too early, and for good if initialising it fails.
OrientedUntilRebuilt ==
    \A s \in topic : s.oriented \/ s.rebuilt
=============================================================================
