-------------------------- MODULE MonadMarketAgent --------------------------
(***************************************************************************)
(* The Monad market agent (monad-market-agent/src): for a new block it reads *)
(* every registered Kuru market through its adapter and publishes one        *)
(* snapshot per quoted market.  Prices are abstracted to where they come     *)
(* from: the chain, or the generator kuru.ts falls back to.                  *)
(*                                                                           *)
(* The adapter is built with the connection of initialize and keeps it.      *)
(* Handlers are asynchronous: a block is handled while the fetches and sends *)
(* of earlier ones are in progress.                                          *)
(***************************************************************************)
EXTENDS MonadRpc

CONSTANTS
    Listed,     \* the markets whose contract address is configured
    MaxBlock    \* bound on the chain

Direct == "ETH/USDC"
Routed == "WETH/MON"
StableQuoted == "WETH/AUSD"
MonUsdc == "MON/USDC"

ASSUME AgentAssumption ==
    /\ Listed # {} /\ Listed \subseteq {Direct, Routed, StableQuoted, MonUsdc}
    /\ MaxBlock \in Nat

VARIABLES
    stage,      \* "connecting", "joining" Kafka, "running"
    adapter,    \* the connection kuruAdapter was built with
    head,       \* the newest block of the chain
    lastBlock,  \* lastBlockNumber
    throttled,  \* less than MIN_FETCH_INTERVAL_MS since lastFetchMs
    fetching,   \* handlers awaiting fetchAllMarkets
    events,     \* handlers started so far, for the identifiers of their events
    topic,      \* the events in market.monad.price-snapshot; nothing here depends
                \* on their order
    restarted   \* the process is not the first one

agentVars == <<stage, adapter, head, lastBlock, throttled, fetching, events, topic,
               restarted>>
vars == <<rpcVars, agentVars>>

\* The markets a block is quoted for.
Quoted ==
    (Listed \ {Routed, StableQuoted})
    \union {m \in {Direct} : {Routed, MonUsdc} \subseteq Listed \/ StableQuoted \in Listed}

\* The markets whose books the quote of a market is computed from.
Legs(market) ==
    IF market \in Listed THEN {market}
    ELSE IF {Routed, MonUsdc} \subseteq Listed THEN {Routed, MonUsdc} ELSE {StableQuoted}

AgentInit ==
    /\ stage = "connecting" /\ adapter = 0
    /\ head = 1 /\ lastBlock = 0 /\ throttled = FALSE
    /\ fetching = {} /\ events = 0
    /\ topic = {} /\ restarted = FALSE

Init == RpcInit /\ AgentInit

\* The process has ended, and its container is started again.
ProcessLost ==
    /\ restarted' = TRUE
    /\ stage' = "connecting" /\ adapter' = 0
    /\ lastBlock' = 0 /\ throttled' = FALSE
    /\ fetching' = {}
    /\ UNCHANGED <<head, events, topic>>

\* The process ends, orderly or not.
Restart == Fault /\ ClientLost /\ ProcessLost

\* uncaughtException: a socket that cannot be opened ends the process.
ProcessRefused == ConnectRefused /\ ProcessLost
-----------------------------------------------------------------------------
\* initialize, after connect: the adapter is built and Kafka connected to.
Initialize ==
    /\ stage = "connecting" /\ Connected
    /\ adapter' = provider
    /\ stage' = "joining"
    /\ UNCHANGED <<rpcVars, head, lastBlock, throttled, fetching, events, topic, restarted>>

\* start.  When the connection has been lost meanwhile, onBlock is called on the
\* connection under test, or fails, and with it the process.
Start ==
    /\ stage = "joining"
    /\ stage' = "running"
    /\ IF Connected
       THEN OnBlock(provider)
       ELSE callback' = TRUE /\ checks' = checks \union {opened + 1} /\ UNCHANGED attached
    /\ UNCHANGED <<provider, opened, endpoint, failures, unanswered, polling, lastPolled,
                   faults, adapter, head, lastBlock, throttled, fetching, events, topic, restarted>>

\* Mutant: the block is remembered when its snapshots are sent.
HandleNewBlock_RememberedLate(block) ==
    IF block <= lastBlock \/ throttled
    THEN UNCHANGED agentVars
    ELSE /\ throttled' = TRUE
         /\ fetching' = fetching \union {[block |-> block, on |-> provider, id |-> events]}
         /\ events' = events + 1
         /\ UNCHANGED <<stage, adapter, head, lastBlock, topic, restarted>>

\* handleNewBlock up to its first await.
HandleNewBlock(block) ==
    IF block <= lastBlock \/ throttled
    THEN UNCHANGED agentVars
    ELSE /\ lastBlock' = block
         /\ throttled' = TRUE
         /\ fetching' = fetching \union {[block |-> block, on |-> provider, id |-> events]}
         /\ events' = events + 1
         /\ UNCHANGED <<stage, adapter, head, topic, restarted>>

\* A block arrives by subscription, at its time or late.
BlockPushed ==
    /\ Pushes
    /\ \E block \in 1 .. head : HandleNewBlock(block)

\* A block arrives by polling; the answer may be late as well.
BlockPolled ==
    \E block \in 1 .. head : Polls(block) /\ HandleNewBlock(block)

\* Whether the contract of a market can be read through the adapter: it answers on
\* the live connection only, and even there a call may fail.
CanRead(m, failed) == adapter = provider /\ m # failed

\* fetchMarketData: what cannot be read is generated.
Sources(failed) == [m \in Listed |-> IF CanRead(m, failed) THEN "chain" ELSE "synthetic"]

\* A read that fails on a live connection, if any.
NoFailure == "none"

\* The snapshots of a block.  readable records whether the connection the
\* client had from the block's arrival on could have answered every call.
Snapshots(h, failed) ==
    {[id |-> h.id,
      market |-> m,
      block |-> h.block,
      source |-> IF \A leg \in Legs(m) : Sources(failed)[leg] = "chain"
                 THEN "chain" ELSE "synthetic",
      readable |-> Connected /\ h.on = provider /\ failed \notin Legs(m)] : m \in Quoted}

\* fetchAllMarkets returns and the snapshots are sent.  A send that fails is
\* only logged.
PublishSnapshots(h) ==
    /\ \E failed \in Listed \union {NoFailure}, lost \in SUBSET Quoted :
         /\ failed # NoFailure => adapter = provider
         /\ faults' = faults + Cardinality(lost) + (IF failed # NoFailure THEN 1 ELSE 0)
         /\ faults' <= MaxFaults
         /\ topic' = topic \union {s \in Snapshots(h, failed) : s.market \notin lost}
    /\ fetching' = fetching \ {h}
    /\ UNCHANGED <<provider, opened, endpoint, failures, unanswered, attached, checks,
                   callback, polling, lastPolled, stage, adapter, head, lastBlock,
                   throttled, events, restarted>>

\* The chain grows.
NewBlock ==
    /\ head < MaxBlock
    /\ head' = head + 1
    /\ UNCHANGED <<rpcVars, stage, adapter, lastBlock, throttled, fetching, events, topic,
                   restarted>>

\* MIN_FETCH_INTERVAL_MS passes.
IntervalPasses ==
    /\ throttled
    /\ throttled' = FALSE
    /\ UNCHANGED <<rpcVars, stage, adapter, head, lastBlock, fetching, events, topic, restarted>>
-----------------------------------------------------------------------------
\* initialize goes on at once when connect returns.
RpcStep ==
    /\ \/ ConnectFails
       \/ ConnectHangs
       \/ ConnectSucceeds
       \/ stage # "connecting" /\ SocketCloses
       \/ \E p \in checks : CheckFires(p)
    /\ UNCHANGED agentVars

AgentStep ==
    \/ Initialize
    \/ Start
    \/ BlockPushed
    \/ BlockPolled
    \/ \E h \in fetching : PublishSnapshots(h)

Next == RpcStep \/ AgentStep \/ Restart \/ ProcessRefused \/ NewBlock \/ IntervalPasses

\* An endpoint that answers or refuses does so, and the timers and the start-up
\* of the process go on.
Fairness ==
    /\ WF_vars(((ConnectFails \/ ConnectSucceeds) /\ UNCHANGED agentVars) \/ ProcessRefused)
    /\ WF_vars((\E p \in checks : CheckFires(p)) /\ UNCHANGED agentVars)
    /\ WF_vars(Initialize)
    /\ WF_vars(Start)

Spec == Init /\ [][Next]_vars /\ Fairness
-----------------------------------------------------------------------------
\* A running agent that has a connection hears of blocks: it polls, or its
\* listener is on the connection in use and either delivers or is still being
\* checked.  The check of a connection that is gone removes the listener of the
\* one in use (rpc.ts:229-235), a reconnect may happen at any time.
NeverDeaf ==
    stage = "running" /\ Connected =>
        polling \/ (attached /\ (provider \in checks \/ endpoint \in Pushing))

\* As long as the process lives, no market is quoted twice for a block, although
\* subscription and polling may both deliver it while an earlier fetch is in
\* progress (agent.ts:114-127).
OneSnapshotPerBlock ==
    ~restarted => \A s, t \in topic :
        s.market = t.market /\ s.block = t.block => s.id = t.id

\* The endpoint at which the rotation of a new process ends, should nothing else
\* go wrong: the first that does not answer its test with an error.
Reached(e) ==
    /\ e \in Accepting \union Refusing
    /\ \A d \in 1 .. e - 1 : d \notin Accepting \union Refusing

\* Blocks are heard of again after every failure, by subscription or by polling,
\* also when the client has to change its endpoint or the process dies of a
\* refused socket; unless a test of a connection is never answered, for which
\* the loop has no time limit (rpc.ts:98-108).  It takes an accepting endpoint
\* ahead of every refusing one: the rotation never gets past a refusal, since the
\* process that follows begins with the first endpoint again.
Hears ==
    /\ Connected /\ callback
    /\ polling \/ (attached /\ endpoint \in Pushing)
BlocksHeardAgain ==
    (\E e \in Accepting : Reached(e)) => []<>Hears \/ <>[]unanswered

\* kuru.ts:321: "Using synthetic price (on-chain data unavailable)".  A
\* synthetic price is published only when the chain could not be read.
SyntheticOnlyWhenUnavailable ==
    \A s \in topic : s.source = "synthetic" => ~s.readable
=============================================================================
