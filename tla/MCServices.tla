----------------------------- MODULE MCServices -----------------------------
(***************************************************************************)
(* The services around the trading pipeline, for TLC.  They share no state: *)
(* they meet in topics, of which each module leaves open what its service   *)
(* reads.  So a behaviour of this module lets one service run and the       *)
(* others rest, and an invariant of one service that holds here holds in    *)
(* every interleaving of them.                                              *)
(***************************************************************************)
EXTENDS SpreadScanner, BridgeExecBot, EthArbBot, StressMonitor, AlertService,
        EthMarketAgent

\* Snapshots that differ in volatility only, in less than a fingerprint tells
\* apart, by a spread, and in liquidity.
Quote(price, liquidity, vol) == [price |-> price, liquidity |-> liquidity, vol |-> vol]
Quotes == {Quote(2000000, 5000, 1), Quote(2000000, 5000, 2), Quote(2001701, 5000, 1),
           Quote(2001702, 5000, 1), Quote(2001709, 5000, 1), Quote(2000000, 500, 1)}

VARIABLE running  \* the service that runs

vars == <<running, scannerVars, bridgeVars, arbVars, monitorVars, alertVars, feedVars>>

Init ==
    /\ running \in {"scanner", "bridge", "arb", "monitor", "alerts", "feed"}
    /\ ScannerInit /\ BridgeInit /\ ArbInit /\ MonitorInit /\ AlertInit /\ FeedInit
    \* the choices the services that rest make are immaterial
    /\ running # "bridge" => ~bridgeLive
    /\ running # "arb" => arbMode = "dry"
    /\ running # "monitor" => poolBalance = CHOOSE b \in Balances : TRUE

ScannerRuns == ScannerNext /\ UNCHANGED <<bridgeVars, arbVars, monitorVars, alertVars, feedVars>>
BridgeRuns == BridgeNext /\ UNCHANGED <<scannerVars, arbVars, monitorVars, alertVars, feedVars>>
ArbRuns == ArbNext /\ UNCHANGED <<scannerVars, bridgeVars, monitorVars, alertVars, feedVars>>
MonitorRuns == MonitorNext /\ UNCHANGED <<scannerVars, bridgeVars, arbVars, alertVars, feedVars>>
AlertsRun == AlertNext /\ UNCHANGED <<scannerVars, bridgeVars, arbVars, monitorVars, feedVars>>
FeedRuns == FeedNext /\ UNCHANGED <<scannerVars, bridgeVars, arbVars, monitorVars, alertVars>>

Next ==
    /\ \/ running = "scanner" /\ ScannerRuns
       \/ running = "bridge" /\ BridgeRuns
       \/ running = "arb" /\ ArbRuns
       \/ running = "monitor" /\ MonitorRuns
       \/ running = "alerts" /\ AlertsRun
       \/ running = "feed" /\ FeedRuns
    /\ UNCHANGED running

Spec == Init /\ [][Next]_vars
-----------------------------------------------------------------------------
\* A success that the bridge bot reports in live mode, or the Ethereum bot for a
\* swap in the public mempool, is a transaction of that request or plan which the
\* chain has executed: no timeout, lost answer or restart turns one that is
\* pending, dropped or reverted into a success.  It says nothing of the sort of the
\* relay, where the code reports acceptance as success (eth-arb-bot
\* service.ts:161-165, 181-184): there it only names a transaction of the plan.
SuccessMeansMined == BridgeSuccessMined /\ ArbSuccessMined

\* Assets move at most once per reading of a request or plan, whatever times out,
\* fails or is offered again; and every reading but the first takes a restart or
\* a rebalance of the consumer group, which the handlers' waits may themselves
\* bring about.
MovedOncePerRead == BridgedOncePerRead /\ SwappedOncePerRead
=============================================================================
