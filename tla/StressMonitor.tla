--------------------------- MODULE StressMonitor ----------------------------
(***************************************************************************)
(* The stress monitor (stress-monitor/src/service.ts).  Every poll checks   *)
(* the gas price, the block times and the pool balance, one after the       *)
(* other; polls are started by a timer and may overlap.  A failed send or   *)
(* call is only logged.                                                     *)
(***************************************************************************)
EXTENDS Integers, Sequences, FiniteSets, Functions

CONSTANTS
    Polls,            \* number of polls
    GasPrices,
    HistoryLength,    \* samples of the gas price kept
    MinSamples,       \* samples needed to compare
    GasSpikeMultiplier,
    BlockDelay,       \* blockDelayThresholdSec
    MaxTimestamp,     \* bound on the block timestamps
    Balances,         \* balances of the pool
    MonitorFaults     \* bound on calls and sends gone wrong

ASSUME MonitorAssumption ==
    /\ Polls \in Nat /\ GasPrices \subseteq Nat /\ Balances \subseteq Nat
    /\ HistoryLength \in Nat \ {0} /\ MinSamples \in Nat \ {0}
    /\ GasSpikeMultiplier \in Nat /\ BlockDelay \in Nat
    /\ MaxTimestamp \in Nat /\ MonitorFaults \in Nat

VARIABLES
    pollStep,        \* per poll: what it awaits
    gasPrices,       \* gasPriceHistory
    chainTime,       \* timestamp of the latest block
    lastTimestamp,   \* the last of blockTimestamps, -1 if there is none
    poolBalance,     \* the balance of the pool on the chain
    lastPoolBalance, \* -1 for null
    pollBalance,     \* per poll: the balance it has read
    stressSignals,   \* what was sent to market.stress-signal
    monitorFaults

monitorVars == <<pollStep, gasPrices, chainTime, lastTimestamp, poolBalance, lastPoolBalance,
                 pollBalance, stressSignals, monitorFaults>>

Unknown == -1

MonitorInit ==
    /\ pollStep = [p \in 1 .. Polls |-> "not started"]
    /\ gasPrices = << >>
    /\ chainTime = 0 /\ lastTimestamp = Unknown
    /\ poolBalance \in Balances /\ lastPoolBalance = Unknown
    /\ pollBalance = [p \in 1 .. Polls |-> Unknown]
    /\ stressSignals = {}
    /\ monitorFaults = 0

\* emitStressSignal; the send may fail.
EmitStressSignal(signal) ==
    \/ stressSignals' = stressSignals \union {signal} /\ UNCHANGED monitorFaults
    \/ /\ monitorFaults < MonitorFaults
       /\ monitorFaults' = monitorFaults + 1
       /\ UNCHANGED stressSignals

Severity(value, high, critical) ==
    IF value > critical THEN "critical" ELSE IF value > high THEN "high" ELSE "medium"

\* The timer starts the next poll, whether or not the others are done.
StartPoll(p) ==
    /\ pollStep[p] = "not started"
    /\ \A q \in 1 .. p - 1 : pollStep[q] # "not started"
    /\ pollStep' = [pollStep EXCEPT ![p] = "gas"]
    /\ UNCHANGED <<gasPrices, chainTime, lastTimestamp, poolBalance, lastPoolBalance, pollBalance,
                   stressSignals, monitorFaults>>

\* The history of gas prices with a further one.
Pushed(price) ==
    LET longer == Append(gasPrices, price)
    IN  IF Len(longer) > HistoryLength THEN Tail(longer) ELSE longer

\* checkGasSpike: the price is compared with the average that includes it.
CheckGasSpike(p) ==
    /\ pollStep[p] = "gas"
    /\ \E price \in GasPrices :
         LET history == IF price > 0 THEN Pushed(price) ELSE gasPrices
             scaled == price * Len(history)
             sum == FoldFunction(+, 0, history)
         IN  /\ gasPrices' = history
             /\ IF /\ price > 0
                   /\ Len(history) >= MinSamples
                   /\ scaled > GasSpikeMultiplier * sum
                THEN EmitStressSignal([metric |-> "gas_spike", from |-> 0, to |-> price,
                                       severity |-> Severity(scaled, 3 * sum, 5 * sum)])
                ELSE UNCHANGED <<stressSignals, monitorFaults>>
    /\ pollStep' = [pollStep EXCEPT ![p] = "blocks"]
    /\ UNCHANGED <<chainTime, lastTimestamp, poolBalance, lastPoolBalance, pollBalance>>

\* checkBlockHealth: the timestamps of the blocks that two polls in a row have
\* found latest are compared, so that a chain that stands still shows no gap.
CheckBlockHealth(p) ==
    /\ pollStep[p] = "blocks"
    /\ lastTimestamp' = chainTime
    /\ IF lastTimestamp # Unknown /\ chainTime - lastTimestamp > BlockDelay
       THEN EmitStressSignal([metric |-> "block_delay", from |-> lastTimestamp, to |-> chainTime,
                              severity |-> Severity(chainTime - lastTimestamp, 10, 30)])
       ELSE UNCHANGED <<stressSignals, monitorFaults>>
    /\ pollStep' = [pollStep EXCEPT ![p] = "pool"]
    /\ UNCHANGED <<gasPrices, chainTime, poolBalance, lastPoolBalance, pollBalance>>

\* checkPoolLiquidity: the node reads the balance.
ReadPool(p) ==
    /\ pollStep[p] = "pool"
    /\ pollBalance' = [pollBalance EXCEPT ![p] = poolBalance]
    /\ pollStep' = [pollStep EXCEPT ![p] = "answer"]
    /\ UNCHANGED <<gasPrices, chainTime, lastTimestamp, poolBalance, lastPoolBalance,
                   stressSignals, monitorFaults>>

\* A fall by more than 20 percent.
Drained(before, after) == before > 0 /\ 5 * after < 4 * before

Drain(before, after) ==
    [metric |-> "pool_drain", from |-> before, to |-> after,
     severity |-> Severity(100 * (before - after), 30 * before, 50 * before)]

\* Mutant: the balance is remembered before the signal is sent.
ComparePool_RememberedFirst(p) ==
    /\ pollStep[p] = "answer"
    /\ LET drained == Drained(lastPoolBalance, pollBalance[p])
       IN  /\ IF drained
              THEN EmitStressSignal(Drain(lastPoolBalance, pollBalance[p]))
              ELSE UNCHANGED <<stressSignals, monitorFaults>>
           /\ lastPoolBalance' = pollBalance[p]
           /\ pollStep' = [pollStep EXCEPT ![p] = "done"]
    /\ UNCHANGED <<gasPrices, chainTime, lastTimestamp, poolBalance, pollBalance>>

\* The answer arrives, possibly after that of a later poll.  A drain is signalled,
\* and the balance remembered when the send has returned; if it fails the balance
\* is not remembered at all, so that the next poll sees the drain again.
ComparePool(p) ==
    /\ pollStep[p] = "answer"
    /\ IF Drained(lastPoolBalance, pollBalance[p])
       THEN \/ /\ stressSignals' = stressSignals \union {Drain(lastPoolBalance, pollBalance[p])}
               /\ pollStep' = [pollStep EXCEPT ![p] = "sent"]
               /\ UNCHANGED <<lastPoolBalance, monitorFaults>>
            \/ /\ monitorFaults < MonitorFaults
               /\ monitorFaults' = monitorFaults + 1
               /\ pollStep' = [pollStep EXCEPT ![p] = "done"]
               /\ UNCHANGED <<lastPoolBalance, stressSignals>>
       ELSE /\ lastPoolBalance' = pollBalance[p]
            /\ pollStep' = [pollStep EXCEPT ![p] = "done"]
            /\ UNCHANGED <<stressSignals, monitorFaults>>
    /\ UNCHANGED <<gasPrices, chainTime, lastTimestamp, poolBalance, pollBalance>>

\* The send of a drain has returned.
RememberPool(p) ==
    /\ pollStep[p] = "sent"
    /\ lastPoolBalance' = pollBalance[p]
    /\ pollStep' = [pollStep EXCEPT ![p] = "done"]
    /\ UNCHANGED <<gasPrices, chainTime, lastTimestamp, poolBalance, pollBalance, stressSignals,
                   monitorFaults>>

\* The call of a check fails: it is skipped.
CheckFails(p) ==
    /\ pollStep[p] \in {"gas", "blocks", "pool"}
    /\ monitorFaults < MonitorFaults
    /\ monitorFaults' = monitorFaults + 1
    /\ pollStep' = [pollStep EXCEPT ![p] =
         IF @ = "gas" THEN "blocks" ELSE IF @ = "blocks" THEN "pool" ELSE "done"]
    /\ UNCHANGED <<gasPrices, chainTime, lastTimestamp, poolBalance, lastPoolBalance, pollBalance,
                   stressSignals>>

\* The chain goes on, and liquidity comes and goes.
ChainMoves ==
    /\ \/ chainTime < MaxTimestamp /\ chainTime' = MaxTimestamp /\ UNCHANGED poolBalance
       \/ poolBalance' \in Balances \ {poolBalance} /\ UNCHANGED chainTime
    /\ UNCHANGED <<pollStep, gasPrices, lastTimestamp, lastPoolBalance, pollBalance,
                   stressSignals, monitorFaults>>

MonitorNext ==
    \/ \E p \in 1 .. Polls :
         \/ StartPoll(p)
         \/ CheckGasSpike(p)
         \/ CheckBlockHealth(p)
         \/ ReadPool(p)
         \/ ComparePool(p)
         \/ RememberPool(p)
         \/ CheckFails(p)
    \/ ChainMoves

MonitorSpec == MonitorInit /\ [][MonitorNext]_monitorVars
-----------------------------------------------------------------------------
\* The balance that drains are measured against never falls by more than 20
\* percent unless a drain down to that balance was signalled, although polls
\* overlap, their answers arrive out of order and sends fail: what is not
\* signalled is not forgotten either (service.ts:139-156).
DrainNeverSilent ==
    [][Drained(lastPoolBalance, lastPoolBalance') =>
         \E signal \in stressSignals' :
             signal.metric = "pool_drain" /\ signal.to = lastPoolBalance']_monitorVars
=============================================================================
