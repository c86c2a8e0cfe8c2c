--------------------------- MODULE SpreadScanner ----------------------------
(***************************************************************************)
(* The spread scanner (spread-scanner/src/scanner.ts) for one asset: the    *)
(* snapshot of each chain that arrived last, and a signal whenever their    *)
(* spread is large enough and differs from the one remembered.  What the    *)
(* agents publish, and in which order it arrives, is left open.             *)
(***************************************************************************)
EXTENDS Integers, Sequences

CONSTANTS
    Snapshots,     \* what the agents publish: mid price, in some small unit,
                   \* liquidity10bps and realizedVol5m
    PriceStep,     \* units in the last digit of a price that a fingerprint keeps
    MinSpreadBps,
    MinLiquidity,  \* minLiquidity10bpsUsd
    MinCapacity,   \* minCapacityUsd
    MaxSignals,    \* bound on the signals
    ScannerFaults  \* bound on sends gone wrong and restarts

ASSUME ScannerAssumption ==
    /\ Snapshots \subseteq [price : Nat \ {0}, liquidity : Nat, vol : Nat]
    /\ PriceStep \in Nat \ {0}
    /\ MinSpreadBps \in Nat \ {0} /\ MinLiquidity \in Nat /\ MinCapacity \in Nat
    /\ MaxSignals \in Nat /\ ScannerFaults \in Nat

Chains == {"A", "B"}
NoSnapshot == [price |-> 0]
NoSignal == [direction |-> "none"]
NoFingerprint == NoSignal

VARIABLES
    latest,       \* latestPrices, per chain
    fingerprint,  \* lastSignalFingerprint
    signals,      \* market.spread.signal
    lostSends,    \* sends gone wrong
    scannerStops  \* restarts

scannerVars == <<latest, fingerprint, signals, lostSends, scannerStops>>

ScannerInit ==
    /\ latest = [c \in Chains |-> NoSnapshot]
    /\ fingerprint = NoFingerprint
    /\ signals = << >>
    /\ lostSends = 0 /\ scannerStops = 0

Smaller(a, b) == IF a <= b THEN a ELSE b

\* calculateSpread, NoSignal for null.  The direction is the code's: it names
\* the chain with the higher price as the one to buy on.
CalculateSpread(a, b) ==
    LET difference == 10000 * (a.price - b.price)
        capacity == Smaller(a.liquidity, b.liquidity)
    IN  IF \/ difference > -MinSpreadBps * b.price /\ difference < MinSpreadBps * b.price
           \/ capacity < MinLiquidity
           \/ capacity < MinCapacity
        THEN NoSignal
        ELSE [direction |-> IF difference > 0 THEN "buy_M_sell_E" ELSE "buy_E_sell_M",
              priceM |-> a.price, priceE |-> b.price, capacity |-> capacity,
              volM |-> a.vol, volE |-> b.vol]

\* The signal for what is known of the chains, NoSignal until both are known.
SignalOf(known) ==
    IF \E c \in Chains : known[c] = NoSnapshot
    THEN NoSignal
    ELSE CalculateSpread(known["A"], known["B"])

\* toFixed: a fraction to the nearest whole number of its last digit.
Rounded(numerator, denominator) ==
    numerator \div denominator
      + (IF 2 * (numerator % denominator) >= denominator THEN 1 ELSE 0)

\* The digits of a price and of the spread that a fingerprint keeps: four
\* decimals of the one, hundredths of a basis point of the other.
PriceDigits(price) == Rounded(price, PriceStep)
SpreadDigits(s) == Rounded(1000000 * (s.priceM - s.priceE), s.priceE)

\* Mutant: the fingerprint leaves the prices out.
Fingerprint_NoPrices(s) == [direction |-> s.direction, capacity |-> s.capacity]

\* buildSignalFingerprint: nothing of the volatilities enters it.
Fingerprint(s) ==
    [direction |-> s.direction,
     priceM |-> PriceDigits(s.priceM), priceE |-> PriceDigits(s.priceE),
     spread |-> SpreadDigits(s),
     capacity |-> s.capacity]

\* What a send may do to the topic: append the signal, lose it, append it and
\* not learn of it, or append it twice.
Emitted(s) ==
    {[topic |-> Append(signals, s), lost |-> 0]}
    \union
    IF lostSends + scannerStops < ScannerFaults
    THEN {[topic |-> t, lost |-> 1] :
            t \in {signals, Append(signals, s), signals \o <<s, s>>}}
    ELSE {}

\* handleMessage.  The fingerprint is remembered before the send, whose failure
\* is only logged.
HandleSnapshot(chain, snapshot) ==
    LET known == [latest EXCEPT ![chain] = snapshot]
        s == SignalOf(known)
    IN  /\ latest' = known
        /\ IF s = NoSignal \/ Fingerprint(s) = fingerprint
           THEN UNCHANGED <<fingerprint, signals, lostSends>>
           ELSE /\ Len(signals) < MaxSignals
                /\ fingerprint' = Fingerprint(s)
                /\ \E e \in Emitted(s) : signals' = e.topic /\ lostSends' = lostSends + e.lost
        /\ UNCHANGED scannerStops

\* The scanner is killed and started again: it remembers nothing.
ScannerRestart ==
    /\ lostSends + scannerStops < ScannerFaults
    /\ scannerStops' = scannerStops + 1
    /\ latest' = [c \in Chains |-> NoSnapshot]
    /\ fingerprint' = NoFingerprint
    /\ UNCHANGED <<signals, lostSends>>

ScannerNext ==
    \/ \E chain \in Chains, snapshot \in Snapshots : HandleSnapshot(chain, snapshot)
    \/ ScannerRestart

ScannerSpec == ScannerInit /\ [][ScannerNext]_scannerVars
-----------------------------------------------------------------------------
\* Whoever reads the topic knows the direction, the capacity, the prices and the
\* spread, these to the digits of the fingerprint, as the scanner does: those of
\* the last signal are those of the latest snapshots whenever these make a
\* signal, across restarts and spreads that come and go, as long as no send has
\* gone wrong.  After a failed send they need not be, as the fingerprint
\* suppresses the repetition (scanner.ts:135-140).  The volatilities of the last
\* signal may be out of date at any time: a change in them alone is not sent.
SignalTracksMarket ==
    lostSends = 0 /\ SignalOf(latest) # NoSignal =>
        /\ signals # << >>
        /\ LET last == signals[Len(signals)]
               due == SignalOf(latest)
           IN  /\ last.direction = due.direction /\ last.capacity = due.capacity
               /\ PriceDigits(last.priceM) = PriceDigits(due.priceM)
               /\ PriceDigits(last.priceE) = PriceDigits(due.priceE)
               /\ SpreadDigits(last) = SpreadDigits(due)
=============================================================================
