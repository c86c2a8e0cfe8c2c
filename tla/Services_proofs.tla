--------------------------- MODULE Services_proofs ---------------------------
(***************************************************************************)
(* Proofs about the services around the pipeline, each alone and for any    *)
(* prices, thresholds, numbers of requests, plans and polls, and any number *)
(* of faults; and that the composition TLC checks runs each as specified.   *)
(***************************************************************************)
EXTENDS MCServices, FiniteSetTheorems, SequenceTheorems, TLAPS

-----------------------------------------------------------------------------
(* The composition.                                                         *)

\* In the composition, every service does what its own specification allows.
THEOREM ServicesRunAsSpecified ==
    Spec => ScannerSpec /\ BridgeSpec /\ ArbSpec /\ MonitorSpec /\ AlertSpec /\ FeedSpec
<1> DEFINE Steps ==
      /\ [ScannerNext]_scannerVars /\ [BridgeNext]_bridgeVars /\ [ArbNext]_arbVars
      /\ [MonitorNext]_monitorVars /\ [AlertNext]_alertVars /\ [FeedNext]_feedVars
<1>1. Init => /\ ScannerInit /\ BridgeInit /\ ArbInit /\ MonitorInit /\ AlertInit
              /\ FeedInit
      BY DEF Init
<1>2. [Next]_vars => Steps
  <2>1. ASSUME ScannerRuns PROVE Steps
        BY <2>1 DEF ScannerRuns
  <2>2. ASSUME BridgeRuns PROVE Steps
        BY <2>2 DEF BridgeRuns
  <2>3. ASSUME ArbRuns PROVE Steps
        BY <2>3 DEF ArbRuns
  <2>4. ASSUME MonitorRuns PROVE Steps
        BY <2>4 DEF MonitorRuns
  <2>5. ASSUME AlertsRun PROVE Steps
        BY <2>5 DEF AlertsRun
  <2>6. ASSUME FeedRuns PROVE Steps
        BY <2>6 DEF FeedRuns
  <2>7. ASSUME UNCHANGED vars PROVE Steps
        BY <2>7 DEF vars
  <2>8. QED BY <2>1, <2>2, <2>3, <2>4, <2>5, <2>6, <2>7 DEF Next
<1>3. QED
      BY <1>1, <1>2, PTL
      DEF Spec, ScannerSpec, BridgeSpec, ArbSpec, MonitorSpec, AlertSpec, FeedSpec
-----------------------------------------------------------------------------
(* Alerts and cooldowns.                                                    *)

AlertTypes ==
    /\ time \in Nat /\ alertStops \in Nat
    /\ lastAlertTime \in [Rules -> Int]
    /\ lastTriggered \in [Rules -> Int]
    /\ \A a \in alerts : a.rule \in Rules /\ a.at \in Nat

\* The cooldown of a rule runs from an alert, and from the last one while the
\* service has not been restarted.
CooldownsRecorded ==
    /\ \A rule \in Rules :
         \/ lastAlertTime[rule] = -Cooldown
         \/ lastAlertTime[rule] <= time
            /\ \E a \in alerts : a.rule = rule /\ a.at = lastAlertTime[rule]
    /\ alertStops = 0 => \A a \in alerts : a.at <= lastAlertTime[a.rule]

AlertInv == AlertTypes /\ CooldownsRecorded /\ OneAlertPerWindow

LEMMA AlertInvInit == AlertInit => AlertInv
<1> SUFFICES ASSUME AlertInit
             PROVE  AlertInv
    OBVIOUS
<1>1. Cooldown \in Nat /\ Cooldown > 0 /\ -Cooldown \in Int /\ ~(-Cooldown >= 0)
      BY AlertAssumption
<1>2. QED
      BY <1>1 DEF AlertInit, AlertInv, AlertTypes, CooldownsRecorded, OneAlertPerWindow, Never

\* sendAlert and the trigger it answers.
LEMMA AlertSent ==
    ASSUME AlertInv, NEW rule \in Rules, SendAlert(rule),
           lastTriggered' = [lastTriggered EXCEPT ![rule] = time],
           UNCHANGED <<time, alertStops>>
    PROVE  AlertInv'
<1>0. Cooldown \in Nat /\ Cooldown > 0 /\ time \in Nat /\ lastAlertTime[rule] \in Int
      BY AlertAssumption DEF AlertInv, AlertTypes
<1>1. CASE time - lastAlertTime[rule] < Cooldown
  <2>1. UNCHANGED <<lastAlertTime, alerts>>
        BY <1>1 DEF SendAlert
  <2>2. lastAlertTime[rule] # -Cooldown
        BY <1>0, <1>1
  <2>3. PICK a \in alerts : a.rule = rule /\ a.at = lastAlertTime[rule]
        BY <2>2 DEF AlertInv, CooldownsRecorded
  <2>4. a.at <= time /\ time - a.at < Cooldown
        BY <1>0, <1>1, <2>2, <2>3 DEF AlertInv, CooldownsRecorded
  <2>5. AlertTypes' /\ CooldownsRecorded'
        BY <1>0, <2>1 DEF AlertInv, AlertTypes, CooldownsRecorded
  <2>6. lastTriggered'[rule] = time /\ \A r \in Rules \ {rule} : lastTriggered'[r] = lastTriggered[r]
        BY DEF AlertInv, AlertTypes
  <2>7. ASSUME NEW r \in Rules, lastTriggered'[r] >= 0
        PROVE  \E b \in alerts :
                 b.rule = r /\ b.at <= lastTriggered'[r] /\ lastTriggered'[r] - b.at < Cooldown
    <3>1. CASE r = rule
          BY <2>3, <2>4, <2>6, <3>1
    <3>2. CASE r # rule
          BY <2>6, <2>7, <3>2 DEF AlertInv, OneAlertPerWindow
    <3>3. QED BY <3>1, <3>2
  <2>8. OneAlertPerWindow'
        BY <2>1, <2>7 DEF AlertInv, OneAlertPerWindow
  <2>9. QED BY <2>5, <2>8 DEF AlertInv
<1>2. CASE ~(time - lastAlertTime[rule] < Cooldown)
  <2> DEFINE new == [rule |-> rule, at |-> time]
  <2>1. /\ lastAlertTime' = [lastAlertTime EXCEPT ![rule] = time]
        /\ alerts' = alerts \union {new}
        BY <1>2 DEF SendAlert, Send
  <2>2. new.rule = rule /\ new.at = time
        OBVIOUS
  <2> HIDE DEF new
  <2>added. PICK n \in alerts' : n.rule = rule /\ n.at = time
        BY <2>1, <2>2
  <2>3. AlertTypes'
        BY <1>0, <2>1, <2>2 DEF AlertInv, AlertTypes
  <2>4. lastTriggered'[rule] = time /\ \A r \in Rules \ {rule} : lastTriggered'[r] = lastTriggered[r]
        BY DEF AlertInv, AlertTypes
  <2>5. lastAlertTime'[rule] = time /\ \A r \in Rules \ {rule} : lastAlertTime'[r] = lastAlertTime[r]
        BY <2>1 DEF AlertInv, AlertTypes
  <2>6. ASSUME alertStops = 0, NEW a \in alerts, a.rule = rule
        PROVE  time - a.at >= Cooldown
    <3>1. a.at <= lastAlertTime[rule] /\ a.at \in Nat
          BY <2>6 DEF AlertInv, AlertTypes, CooldownsRecorded
    <3>2. QED BY <1>0, <1>2, <3>1
  <2>7. CooldownsRecorded'
    <3>1. ASSUME NEW r \in Rules
          PROVE  \/ lastAlertTime'[r] = -Cooldown
                 \/ lastAlertTime'[r] <= time
                    /\ \E a \in alerts' : a.rule = r /\ a.at = lastAlertTime'[r]
      <4>1. CASE r = rule
            BY <1>0, <2>added, <2>5, <4>1
      <4>2. CASE r # rule
            BY <2>1, <2>5, <4>2 DEF AlertInv, CooldownsRecorded
      <4>3. QED BY <4>1, <4>2
    <3>2. ASSUME alertStops = 0, NEW a \in alerts'
          PROVE  a.at <= lastAlertTime'[a.rule]
      <4>1. CASE a = new
            BY <1>0, <2>2, <2>5, <4>1
      <4>2. CASE a \in alerts /\ a.rule = rule
        <5>1. time - a.at >= Cooldown /\ a.at \in Nat
              BY <2>6, <3>2, <4>2 DEF AlertInv, AlertTypes
        <5>2. QED BY <1>0, <2>5, <4>2, <5>1
      <4>3. CASE a \in alerts /\ a.rule # rule
            BY <2>5, <3>2, <4>3 DEF AlertInv, AlertTypes, CooldownsRecorded
      <4>4. QED BY <2>1, <4>1, <4>2, <4>3
    <3>3. QED BY <3>1, <3>2 DEF CooldownsRecorded
  <2>8. ASSUME NEW r \in Rules, lastTriggered'[r] >= 0
        PROVE  \E b \in alerts' :
                 b.rule = r /\ b.at <= lastTriggered'[r] /\ lastTriggered'[r] - b.at < Cooldown
    <3>1. CASE r = rule
          BY <1>0, <2>added, <2>4, <3>1
    <3>2. CASE r # rule
          BY <2>1, <2>4, <2>8, <3>2 DEF AlertInv, OneAlertPerWindow
    <3>3. QED BY <3>1, <3>2
  <2>9. ASSUME alertStops = 0, NEW a \in alerts', NEW b \in alerts', a.rule = b.rule
        PROVE  a.at = b.at \/ a.at - b.at >= Cooldown \/ b.at - a.at >= Cooldown
    <3>1. CASE a = new /\ b = new
          BY <3>1
    <3>2. CASE a = new /\ b \in alerts
          BY <2>2, <2>6, <2>9, <3>2
    <3>3. CASE b = new /\ a \in alerts
          BY <2>2, <2>6, <2>9, <3>3
    <3>4. CASE a \in alerts /\ b \in alerts
          BY <2>9, <3>4 DEF AlertInv, OneAlertPerWindow
    <3>5. QED BY <2>1, <3>1, <3>2, <3>3, <3>4
  <2>10. OneAlertPerWindow'
         BY <2>8, <2>9 DEF OneAlertPerWindow
  <2>11. QED BY <2>3, <2>7, <2>10 DEF AlertInv
<1>3. QED BY <1>1, <1>2

LEMMA AlertInvStep == AlertInv /\ [AlertNext]_alertVars => AlertInv'
<1> SUFFICES ASSUME AlertInv, [AlertNext]_alertVars
             PROVE  AlertInv'
    OBVIOUS
<1>1. ASSUME UNCHANGED <<time, lastAlertTime, lastTriggered, alerts, alertStops>>
      PROVE  AlertInv'
      BY <1>1 DEF AlertInv, AlertTypes, CooldownsRecorded, OneAlertPerWindow
<1>2. ASSUME NEW event \in Event, HandleEvent(event)
      PROVE  AlertInv'
  <2>1. CASE \E rule \in Rules : Triggers(event, rule)
    <3>1. PICK rule \in Rules :
            SendAlert(rule) /\ lastTriggered' = [lastTriggered EXCEPT ![rule] = time]
          BY <1>2, <2>1 DEF HandleEvent
    <3>2. UNCHANGED <<time, alertStops>>
          BY <1>2 DEF HandleEvent
    <3>3. QED BY <3>1, <3>2, AlertSent
  <2>2. CASE ~\E rule \in Rules : Triggers(event, rule)
        BY <1>1, <1>2, <2>2 DEF HandleEvent
  <2>3. QED BY <2>1, <2>2
<1>3. ASSUME Delivered
      PROVE  AlertInv'
      BY <1>1, <1>3 DEF Delivered
<1>4. ASSUME TimePasses
      PROVE  AlertInv'
  <2>1. time' = time + 1 /\ UNCHANGED <<lastAlertTime, lastTriggered, alerts, alertStops>>
        BY <1>4 DEF TimePasses
  <2>2. AlertTypes' /\ OneAlertPerWindow'
        BY <2>1 DEF AlertInv, AlertTypes, OneAlertPerWindow
  <2>3. CooldownsRecorded'
        BY <2>1 DEF AlertInv, AlertTypes, CooldownsRecorded
  <2>4. QED BY <2>2, <2>3 DEF AlertInv
<1>5. ASSUME AlertRestart
      PROVE  AlertInv'
  <2>1. /\ alertStops' = alertStops + 1 /\ lastAlertTime' = Never
        /\ UNCHANGED <<time, lastTriggered, alerts>>
        BY <1>5 DEF AlertRestart
  <2>2. alertStops' \in Nat /\ alertStops' # 0
        BY <2>1 DEF AlertInv, AlertTypes
  <2>3. Never \in [Rules -> Int] /\ \A rule \in Rules : Never[rule] = -Cooldown
        BY AlertAssumption DEF Never
  <2>4. AlertTypes' /\ CooldownsRecorded'
        BY <2>1, <2>2, <2>3 DEF AlertInv, AlertTypes, CooldownsRecorded
  <2>5. OneAlertPerWindow'
        BY <2>1, <2>2 DEF AlertInv, OneAlertPerWindow
  <2>6. QED BY <2>4, <2>5 DEF AlertInv
<1>6. ASSUME UNCHANGED alertVars
      PROVE  AlertInv'
      BY <1>1, <1>6 DEF alertVars
<1>7. QED
      BY <1>2, <1>3, <1>4, <1>5, <1>6 DEF AlertNext

\* A rule is never silent for longer than its cooldown while events trigger it,
\* and while the service runs it never alerts twice within one, for any length
\* of the cooldown (service.ts:162-166).
THEOREM AlertsOncePerWindow == AlertSpec => []OneAlertPerWindow
<1>1. AlertInv => OneAlertPerWindow
      BY DEF AlertInv
<1>2. QED
      BY AlertInvInit, AlertInvStep, <1>1, PTL DEF AlertSpec
-----------------------------------------------------------------------------
(* The last signal and the market.                                          *)

\* What the scanner can know, and the signals it can build from it.
Known == [Chains -> Snapshots \union {NoSnapshot}]
Signal == {SignalOf(known) : known \in Known}

\* The fingerprint is that of the market's signal, and the last one sent, as long
\* as no send has gone wrong.
ScannerInv ==
    /\ latest \in Known
    /\ signals \in Seq(Signal)
    /\ lostSends \in Nat
    /\ lostSends = 0 =>
         /\ SignalOf(latest) # NoSignal => fingerprint = Fingerprint(SignalOf(latest))
         /\ fingerprint # NoFingerprint =>
              signals # << >> /\ fingerprint = Fingerprint(signals[Len(signals)])

LEMMA NothingKnown == SignalOf([c \in Chains |-> NoSnapshot]) = NoSignal
BY DEF SignalOf, Chains

LEMMA ScannerInvInit == ScannerInit => ScannerInv
BY NothingKnown DEF ScannerInit, ScannerInv, Known

LEMMA ScannerInvStep == ScannerInv /\ [ScannerNext]_scannerVars => ScannerInv'
<1> SUFFICES ASSUME ScannerInv, [ScannerNext]_scannerVars
             PROVE  ScannerInv'
    OBVIOUS
<1>1. ASSUME NEW chain \in Chains, NEW snapshot \in Snapshots, HandleSnapshot(chain, snapshot)
      PROVE  ScannerInv'
  <2> DEFINE s == SignalOf(latest')
  <2>1. latest' = [latest EXCEPT ![chain] = snapshot] /\ latest' \in Known
        BY <1>1 DEF HandleSnapshot, ScannerInv, Known
  <2>2. s \in Signal
        BY <2>1 DEF Signal
  <2>3. CASE s = NoSignal
        BY <1>1, <2>1, <2>3 DEF HandleSnapshot, ScannerInv
  <2>4. CASE s # NoSignal /\ Fingerprint(s) = fingerprint
        BY <1>1, <2>1, <2>4 DEF HandleSnapshot, ScannerInv
  <2>5. CASE s # NoSignal /\ Fingerprint(s) # fingerprint
    <3>1. fingerprint' = Fingerprint(s)
          BY <1>1, <2>1, <2>5 DEF HandleSnapshot
    <3>2. PICK e \in Emitted(s) : signals' = e.topic /\ lostSends' = lostSends + e.lost
          BY <1>1, <2>1, <2>5 DEF HandleSnapshot
    <3>3. signals \in Seq(Signal) /\ <<s, s>> \in Seq(Signal)
          BY <2>2 DEF ScannerInv
    <3>4. CASE e = [topic |-> Append(signals, s), lost |-> 0]
      <4>1. signals' = Append(signals, s) /\ lostSends' = lostSends
            BY <3>2, <3>4 DEF ScannerInv
      <4>2. signals' \in Seq(Signal) /\ signals' # << >> /\ signals'[Len(signals')] = s
            BY <2>2, <3>3, <4>1
      <4>3. QED BY <2>1, <3>1, <4>1, <4>2 DEF ScannerInv
    <3>5. CASE \E t \in {signals, Append(signals, s), signals \o <<s, s>>} :
                 e = [topic |-> t, lost |-> 1]
      <4>1. lostSends' = lostSends + 1
            /\ signals' \in {signals, Append(signals, s), signals \o <<s, s>>}
            BY <3>2, <3>5
      <4>2. Append(signals, s) \in Seq(Signal) /\ signals \o <<s, s>> \in Seq(Signal)
            BY <2>2, <3>3, AppendProperties, ConcatProperties
      <4>3. signals' \in Seq(Signal) /\ lostSends' \in Nat /\ lostSends' # 0
        <5>1. lostSends \in Nat
              BY DEF ScannerInv
        <5>2. lostSends + 1 \in Nat /\ lostSends + 1 # 0
              BY <5>1
        <5>3. QED BY <3>3, <4>1, <4>2, <5>2
      <4>4. QED BY <2>1, <4>3 DEF ScannerInv
    <3>6. QED BY <3>2, <3>4, <3>5 DEF Emitted
  <2>6. QED BY <2>3, <2>4, <2>5
<1>2. ASSUME ScannerRestart
      PROVE  ScannerInv'
      BY <1>2, NothingKnown DEF ScannerRestart, ScannerInv, Known
<1>3. ASSUME UNCHANGED scannerVars
      PROVE  ScannerInv'
      BY <1>3 DEF ScannerInv, scannerVars
<1>4. QED
      BY <1>1, <1>2, <1>3 DEF ScannerNext

\* A signal has a fingerprint.
LEMMA SomeFingerprint == \A s : Fingerprint(s) # NoFingerprint
<1> SUFFICES ASSUME NEW s
             PROVE  Fingerprint(s) # NoFingerprint
    OBVIOUS
<1>1. "capacity" \in DOMAIN Fingerprint(s)
      BY DEF Fingerprint
<1>2. "capacity" \notin DOMAIN NoFingerprint
      BY DEF NoFingerprint, NoSignal
<1>3. QED BY <1>1, <1>2

\* Whatever arrives, in whatever order, the last signal agrees with the latest
\* snapshots, to the digits of the fingerprint and volatilities aside, as long as
\* no send has gone wrong, for any prices and thresholds (scanner.ts:51-82,
\* 120-154).
THEOREM ScannerTracksMarket == ScannerSpec => []SignalTracksMarket
<1>1. ScannerInv => SignalTracksMarket
  <2> SUFFICES ASSUME ScannerInv, lostSends = 0, SignalOf(latest) # NoSignal
               PROVE  SignalTracksMarket
      BY DEF SignalTracksMarket
  <2> DEFINE last == signals[Len(signals)]
             due == SignalOf(latest)
  <2>1. signals # << >> /\ Fingerprint(last) = Fingerprint(due)
        BY SomeFingerprint DEF ScannerInv
  <2>2. /\ Fingerprint(last).direction = Fingerprint(due).direction
        /\ Fingerprint(last).capacity = Fingerprint(due).capacity
        /\ Fingerprint(last).priceM = Fingerprint(due).priceM
        /\ Fingerprint(last).priceE = Fingerprint(due).priceE
        /\ Fingerprint(last).spread = Fingerprint(due).spread
        BY <2>1
  <2> HIDE DEF last, due
  <2>3. /\ last.direction = due.direction /\ last.capacity = due.capacity
        /\ PriceDigits(last.priceM) = PriceDigits(due.priceM)
        /\ PriceDigits(last.priceE) = PriceDigits(due.priceE)
        /\ SpreadDigits(last) = SpreadDigits(due)
        BY <2>2 DEF Fingerprint
  <2>4. QED BY <2>1, <2>3 DEF SignalTracksMarket, last, due
<1>2. QED
      BY ScannerInvInit, ScannerInvStep, <1>1, PTL DEF ScannerSpec
-----------------------------------------------------------------------------
(* Drains of the pool.                                                      *)

PollSteps == {"not started", "gas", "blocks", "pool", "answer", "sent", "done"}

\* What a poll is about to remember after a drain was signalled.
DrainInv ==
    /\ pollStep \in [1 .. Polls -> PollSteps]
    /\ pollBalance \in [1 .. Polls -> Int]
    /\ poolBalance \in Int /\ lastPoolBalance \in Int
    /\ \A p \in 1 .. Polls : pollStep[p] = "sent" =>
         \E signal \in stressSignals :
             signal.metric = "pool_drain" /\ signal.to = pollBalance[p]

\* The step signals the fall of the remembered balance, if it is one.
NotSilent ==
    Drained(lastPoolBalance, lastPoolBalance') =>
      \E signal \in stressSignals' :
          signal.metric = "pool_drain" /\ signal.to = lastPoolBalance'

LEMMA BalancesAreIntegers == \A b \in Balances : b \in Int
BY MonitorAssumption

LEMMA DrainInvInit == MonitorInit => DrainInv
<1> SUFFICES ASSUME MonitorInit
             PROVE  DrainInv
    OBVIOUS
<1>1. Unknown \in Int
      BY DEF Unknown
<1>2. poolBalance \in Int /\ lastPoolBalance \in Int /\ pollBalance \in [1 .. Polls -> Int]
      BY <1>1, BalancesAreIntegers DEF MonitorInit
<1>3. pollStep \in [1 .. Polls -> PollSteps] /\ \A p \in 1 .. Polls : pollStep[p] # "sent"
      BY DEF MonitorInit, PollSteps
<1>4. QED BY <1>2, <1>3 DEF DrainInv

\* Steps of a poll that are about something else.
LEMMA DrainKept ==
    ASSUME DrainInv, NEW p \in 1 .. Polls, NEW next \in PollSteps, next # "sent",
           pollStep' = [pollStep EXCEPT ![p] = next],
           \/ UNCHANGED pollBalance
           \/ pollBalance' = [pollBalance EXCEPT ![p] = poolBalance],
           UNCHANGED <<poolBalance, lastPoolBalance>>, stressSignals \subseteq stressSignals'
    PROVE  DrainInv' /\ NotSilent
<1>1. ~Drained(lastPoolBalance, lastPoolBalance')
      BY DEF Drained, DrainInv
<1>2. pollStep' \in [1 .. Polls -> PollSteps] /\ pollBalance' \in [1 .. Polls -> Int]
      BY DEF DrainInv
<1>3. ASSUME NEW q \in 1 .. Polls, pollStep'[q] = "sent"
      PROVE  \E signal \in stressSignals' :
                 signal.metric = "pool_drain" /\ signal.to = pollBalance'[q]
  <2>1. q # p /\ pollStep[q] = "sent" /\ pollBalance'[q] = pollBalance[q]
        BY <1>3 DEF DrainInv
  <2>2. QED BY <2>1 DEF DrainInv
<1>4. QED BY <1>1, <1>2, <1>3 DEF DrainInv, NotSilent

LEMMA DrainStep == DrainInv /\ [MonitorNext]_monitorVars => DrainInv' /\ [NotSilent]_monitorVars
<1> SUFFICES ASSUME DrainInv, [MonitorNext]_monitorVars
             PROVE  DrainInv' /\ [NotSilent]_monitorVars
    OBVIOUS
<1>1. ASSUME NEW p \in 1 .. Polls, StartPoll(p)
      PROVE  DrainInv' /\ NotSilent
      BY <1>1, DrainKept DEF PollSteps, StartPoll
<1>2. ASSUME NEW p \in 1 .. Polls, CheckGasSpike(p)
      PROVE  DrainInv' /\ NotSilent
      BY <1>2, DrainKept DEF PollSteps, CheckGasSpike, EmitStressSignal
<1>3. ASSUME NEW p \in 1 .. Polls, CheckBlockHealth(p)
      PROVE  DrainInv' /\ NotSilent
      BY <1>3, DrainKept DEF PollSteps, CheckBlockHealth, EmitStressSignal
<1>4. ASSUME NEW p \in 1 .. Polls, ReadPool(p)
      PROVE  DrainInv' /\ NotSilent
      BY <1>4, DrainKept DEF PollSteps, ReadPool
<1>5. ASSUME NEW p \in 1 .. Polls, ComparePool(p)
      PROVE  DrainInv' /\ NotSilent
  <2>0. UNCHANGED <<poolBalance, pollBalance>>
        BY <1>5 DEF ComparePool
  <2>1. CASE ~Drained(lastPoolBalance, pollBalance[p])
    <3>1. /\ lastPoolBalance' = pollBalance[p] /\ UNCHANGED stressSignals
          /\ pollStep' = [pollStep EXCEPT ![p] = "done"]
          BY <1>5, <2>1 DEF ComparePool
    <3>2. NotSilent
          BY <2>1, <3>1 DEF NotSilent
    <3>3. ASSUME NEW q \in 1 .. Polls, pollStep'[q] = "sent"
          PROVE  pollStep[q] = "sent"
          BY <3>1, <3>3 DEF DrainInv
    <3>4. pollStep' \in [1 .. Polls -> PollSteps] /\ lastPoolBalance' \in Int
          BY <3>1 DEF DrainInv, PollSteps
    <3>5. QED BY <2>0, <3>1, <3>2, <3>3, <3>4 DEF DrainInv
  <2>2. CASE pollStep' = [pollStep EXCEPT ![p] = "done"] /\ UNCHANGED lastPoolBalance
             /\ UNCHANGED stressSignals
        BY <2>0, <2>2, DrainKept DEF PollSteps
  <2>3. CASE /\ stressSignals' = stressSignals \union {Drain(lastPoolBalance, pollBalance[p])}
             /\ pollStep' = [pollStep EXCEPT ![p] = "sent"] /\ UNCHANGED lastPoolBalance
    <3>1. ~Drained(lastPoolBalance, lastPoolBalance')
          BY <2>3 DEF Drained, DrainInv
    <3>2. Drain(lastPoolBalance, pollBalance[p]).metric = "pool_drain"
          /\ Drain(lastPoolBalance, pollBalance[p]).to = pollBalance[p]
          BY DEF Drain
    <3>3. PICK d \in stressSignals' : d.metric = "pool_drain" /\ d.to = pollBalance[p]
          BY <2>3, <3>2
    <3>4. ASSUME NEW q \in 1 .. Polls, pollStep'[q] = "sent"
          PROVE  \E signal \in stressSignals' :
                     signal.metric = "pool_drain" /\ signal.to = pollBalance[q]
      <4>1. CASE q = p
            BY <3>3, <4>1
      <4>2. CASE q # p
            BY <2>3, <3>4, <4>2 DEF DrainInv
      <4>3. QED BY <4>1, <4>2
    <3>5. pollStep' \in [1 .. Polls -> PollSteps]
          BY <2>3 DEF DrainInv, PollSteps
    <3>6. QED BY <2>0, <2>3, <3>1, <3>4, <3>5 DEF DrainInv, NotSilent
  <2>4. QED BY <1>5, <2>1, <2>2, <2>3 DEF ComparePool
<1>6. ASSUME NEW p \in 1 .. Polls, RememberPool(p)
      PROVE  DrainInv' /\ NotSilent
  <2>1. /\ pollStep[p] = "sent" /\ lastPoolBalance' = pollBalance[p]
        /\ pollStep' = [pollStep EXCEPT ![p] = "done"]
        /\ UNCHANGED <<poolBalance, pollBalance, stressSignals>>
        BY <1>6 DEF RememberPool
  <2>2. NotSilent
        BY <2>1 DEF DrainInv, NotSilent
  <2>3. ASSUME NEW q \in 1 .. Polls, pollStep'[q] = "sent"
        PROVE  pollStep[q] = "sent"
        BY <2>1, <2>3 DEF DrainInv
  <2>4. pollStep' \in [1 .. Polls -> PollSteps] /\ lastPoolBalance' \in Int
        BY <2>1 DEF DrainInv, PollSteps
  <2>5. QED BY <2>1, <2>2, <2>3, <2>4 DEF DrainInv
<1>7. ASSUME NEW p \in 1 .. Polls, CheckFails(p)
      PROVE  DrainInv' /\ NotSilent
  <2>1. PICK next \in {"blocks", "pool", "done"} : pollStep' = [pollStep EXCEPT ![p] = next]
    <3>1. pollStep \in [1 .. Polls -> PollSteps]
          BY DEF DrainInv
    <3>2. CASE pollStep[p] = "gas"
          BY <1>7, <3>1, <3>2 DEF CheckFails
    <3>3. CASE pollStep[p] = "blocks"
          BY <1>7, <3>1, <3>3 DEF CheckFails
    <3>4. CASE pollStep[p] = "pool"
          BY <1>7, <3>1, <3>4 DEF CheckFails
    <3>5. QED BY <1>7, <3>2, <3>3, <3>4 DEF CheckFails
  <2>2. QED BY <1>7, <2>1, DrainKept DEF CheckFails, PollSteps
<1>8. ASSUME ChainMoves
      PROVE  DrainInv' /\ NotSilent
  <2>0. poolBalance' \in Balances \/ poolBalance' = poolBalance
        BY <1>8 DEF ChainMoves
  <2>1. /\ UNCHANGED <<pollStep, lastPoolBalance, pollBalance, stressSignals>>
        /\ poolBalance' \in Int
        BY <1>8, <2>0, BalancesAreIntegers DEF ChainMoves, DrainInv
  <2>2. ~Drained(lastPoolBalance, lastPoolBalance')
        BY <2>1 DEF Drained, DrainInv
  <2>3. QED BY <2>1, <2>2 DEF DrainInv, NotSilent
<1>9. ASSUME UNCHANGED monitorVars
      PROVE  DrainInv' /\ [NotSilent]_monitorVars
      BY <1>9 DEF DrainInv, monitorVars
<1>10. QED
       BY <1>1, <1>2, <1>3, <1>4, <1>5, <1>6, <1>7, <1>8, <1>9 DEF MonitorNext

\* The remembered balance never falls by more than 20 percent without a signal
\* of that very balance, for any number of overlapping polls, any balances and
\* any failures of calls and sends (service.ts:129-156).
THEOREM MonitorDrainNeverSilent == MonitorSpec => DrainNeverSilent
<1>1. DrainInv /\ [MonitorNext]_monitorVars =>
        [Drained(lastPoolBalance, lastPoolBalance') =>
           \E signal \in stressSignals' :
               signal.metric = "pool_drain" /\ signal.to = lastPoolBalance']_monitorVars
      BY DrainStep DEF NotSilent
<1>2. QED
      BY DrainInvInit, DrainStep, <1>1, PTL DEF MonitorSpec, DrainNeverSilent
-----------------------------------------------------------------------------
(* The bridge: what a reported success means.                               *)

Transfer == [request : 1 .. Requests, state : {"pending", "mined", "reverted"}]
BridgeHand ==
    [step : {"idle", "confirm", "emit"}, request : 0 .. Requests,
     success : BOOLEAN, transfer : Nat]

BridgeTypes ==
    /\ bridgeLive \in BOOLEAN
    /\ bridgePosition \in 0 .. Requests
    /\ bridgeReads \in [1 .. Requests -> Nat]
    /\ bridgeHand \in BridgeHand
    /\ transfers \in Seq(Transfer)
    /\ bridgeRereads \in Nat

\* What the handler is doing is about the transfer of its request, and a success
\* it is about to report is mined.
HandMined ==
    /\ bridgeHand.step = "confirm" =>
         /\ ~bridgeHand.success
         /\ bridgeHand.transfer \in DOMAIN transfers
         /\ transfers[bridgeHand.transfer].request = bridgeHand.request
    /\ bridgeHand.step = "emit" /\ bridgeHand.success /\ bridgeLive =>
         /\ bridgeHand.transfer \in DOMAIN transfers
         /\ transfers[bridgeHand.transfer] = [request |-> bridgeHand.request, state |-> "mined"]

\* A request is in hand once more than before, and none behind it has been read
\* since the inbox was last read again.
HandRead ==
    /\ bridgeHand # NothingToDo =>
         bridgeHand.request = bridgePosition + 1 /\ bridgePosition < Requests
    /\ bridgeHand.step = "idle" => bridgeHand = NothingToDo
    /\ \A r \in 1 .. Requests :
         /\ bridgeReads[r] <= 1 + bridgeRereads
         /\ r > bridgePosition /\ (bridgeHand = NothingToDo \/ r # bridgeHand.request) =>
              bridgeReads[r] <= bridgeRereads

TransfersCounted ==
    \A r \in 1 .. Requests : Cardinality(TransfersOf(r)) <= bridgeReads[r]

BridgeInv == BridgeTypes /\ HandMined /\ BridgeSuccessMined /\ HandRead /\ TransfersCounted

\* Transfers stay, with their requests, and what is mined stays mined.
TransfersKept ==
    \A i \in DOMAIN transfers :
        /\ i \in DOMAIN transfers'
        /\ transfers'[i].request = transfers[i].request
        /\ transfers[i].state = "mined" => transfers'[i] = transfers[i]

LEMMA BridgeInvInit == BridgeInit => BridgeInv
<1> SUFFICES ASSUME BridgeInit
             PROVE  BridgeInv
    OBVIOUS
<1>1. NothingToDo \in BridgeHand /\ NothingToDo.step = "idle"
      BY BridgeAssumption DEF NothingToDo, Doing, NoTransfer, BridgeHand
<1>2. BridgeTypes
      BY <1>1, BridgeAssumption DEF BridgeInit, BridgeTypes
<1>3. HandMined /\ BridgeSuccessMined /\ HandRead
      BY <1>1 DEF BridgeInit, HandMined, BridgeSuccessMined, HandRead
<1>4. ASSUME NEW r \in 1 .. Requests
      PROVE  Cardinality(TransfersOf(r)) <= bridgeReads[r]
  <2>1. TransfersOf(r) = {}
        BY DEF BridgeInit, TransfersOf
  <2>2. QED BY <2>1, FS_EmptySet DEF BridgeInit
<1>5. QED BY <1>2, <1>3, <1>4 DEF BridgeInv, TransfersCounted

LEMMA TransferSubmitted ==
    ASSUME transfers \in Seq(Transfer), NEW r \in 1 .. Requests, transfers' = Submitted(r)
    PROVE  /\ transfers' \in Seq(Transfer) /\ TransfersKept
           /\ Len(transfers) + 1 \in DOMAIN transfers'
           /\ transfers'[Len(transfers) + 1].request = r
           /\ \A q : q # r => TransfersOf(q)' = TransfersOf(q)
           /\ TransfersOf(r)' = TransfersOf(r) \union {Len(transfers) + 1}
<1> DEFINE t == [request |-> r, state |-> "pending"]
<1>1. t \in Transfer /\ t.request = r
      BY DEF Transfer
<1> HIDE DEF t
<1>2. transfers' = Append(transfers, t)
      BY DEF Submitted, t
<1>3. /\ transfers' \in Seq(Transfer) /\ Len(transfers') = Len(transfers) + 1
      /\ DOMAIN transfers' = 1 .. Len(transfers) + 1
      /\ \A i \in 1 .. Len(transfers) : transfers'[i] = transfers[i]
      /\ transfers'[Len(transfers) + 1] = t
      BY <1>1, <1>2
<1>4. DOMAIN transfers = 1 .. Len(transfers) /\ Len(transfers) \in Nat
      OBVIOUS
<1>5. TransfersKept
      BY <1>3, <1>4 DEF TransfersKept
<1>6. \A q : q # r => TransfersOf(q)' = TransfersOf(q)
      BY <1>1, <1>3, <1>4 DEF TransfersOf
<1>7. TransfersOf(r)' = TransfersOf(r) \union {Len(transfers) + 1}
      BY <1>1, <1>3, <1>4 DEF TransfersOf
<1>8. QED BY <1>1, <1>3, <1>4, <1>5, <1>6, <1>7

LEMMA TransfersFinite ==
    ASSUME transfers \in Seq(Transfer), NEW r
    PROVE  IsFiniteSet(TransfersOf(r)) /\ Cardinality(TransfersOf(r)) \in Nat
<1>1. TransfersOf(r) \subseteq 1 .. Len(transfers) /\ IsFiniteSet(1 .. Len(transfers))
      BY FS_Interval DEF TransfersOf
<1>2. QED BY <1>1, FS_Subset, FS_CardinalityType

\* What holds of the results goes on holding.
LEMMA ResultsMined ==
    ASSUME BridgeInv, TransfersKept, UNCHANGED <<bridgeResults, bridgeLive>>
    PROVE  BridgeSuccessMined'
BY DEF BridgeInv, BridgeSuccessMined, TransfersKept

LEMMA RequestHandled == BridgeInv /\ HandleRequest => BridgeInv'
<1> SUFFICES ASSUME BridgeInv, HandleRequest
             PROVE  BridgeInv'
    OBVIOUS
<1>0. PICK r \in 1 .. Requests : r = bridgePosition + 1
      BY BridgeAssumption DEF HandleRequest, BridgeInv, BridgeTypes
<1>1. /\ bridgeHand = NothingToDo /\ r \in 1 .. Requests
      /\ bridgeReads' = [bridgeReads EXCEPT ![r] = @ + 1]
      /\ UNCHANGED <<bridgeLive, bridgePosition, bridgeResults, bridgeRereads>>
      BY <1>0 DEF HandleRequest
<1>2. bridgeReads' \in [1 .. Requests -> Nat] /\ bridgeReads'[r] = bridgeReads[r] + 1
      /\ \A q \in 1 .. Requests : q # r => bridgeReads'[q] = bridgeReads[q]
      BY <1>1 DEF BridgeInv, BridgeTypes
<1>3. PICK step \in {"emit", "confirm"}, success \in BOOLEAN, transfer \in Nat :
        /\ bridgeHand' = Doing(step, r, success, transfer)
        /\ UNCHANGED transfers \/ transfers' = Submitted(r)
        /\ step = "emit" => ~success \/ ~bridgeLive
        /\ step = "confirm" =>
             ~success /\ transfers' = Submitted(r) /\ transfer = Len(transfers) + 1
  <2>1. Len(transfers) + 1 \in Nat /\ NoTransfer \in Nat
        BY DEF BridgeInv, BridgeTypes, NoTransfer
  <2>2. QED BY <1>0, <2>1 DEF HandleRequest
<1>4. /\ bridgeHand'.step = step /\ bridgeHand'.request = r
      /\ bridgeHand'.success = success /\ bridgeHand'.transfer = transfer
      BY <1>3 DEF Doing
<1>5. bridgeHand' \in BridgeHand
      BY <1>1, <1>3 DEF Doing, BridgeHand
<1>6. transfers \in Seq(Transfer)
      BY DEF BridgeInv, BridgeTypes
<1>7. transfers' \in Seq(Transfer) /\ TransfersKept
  <2>1. CASE UNCHANGED transfers
        BY <1>6, <2>1 DEF TransfersKept
  <2>2. CASE transfers' = Submitted(r)
        BY <1>1, <1>6, <2>2, TransferSubmitted
  <2>3. QED BY <1>3, <2>1, <2>2
<1>8. BridgeTypes'
      BY <1>1, <1>2, <1>5, <1>7 DEF BridgeInv, BridgeTypes
<1>9. HandMined'
  <2>1. CASE step = "confirm"
        BY <1>1, <1>3, <1>4, <1>6, <2>1, TransferSubmitted DEF HandMined
  <2>2. CASE step = "emit"
        BY <1>1, <1>3, <1>4, <2>2 DEF HandMined
  <2>3. QED BY <1>3, <2>1, <2>2
<1>10. HandRead'
  <2>1. bridgeHand' # NothingToDo
        BY <1>3, <1>4 DEF NothingToDo, Doing
  <2>2. r = bridgePosition + 1 /\ bridgePosition \in Nat /\ bridgeRereads \in Nat
        BY <1>0 DEF BridgeInv, BridgeTypes
  <2>3. bridgeReads[r] <= bridgeRereads
        BY <1>1, <2>2 DEF BridgeInv, HandRead
  <2>4. ASSUME NEW q \in 1 .. Requests
        PROVE  /\ bridgeReads'[q] <= 1 + bridgeRereads
               /\ q > bridgePosition /\ q # r => bridgeReads'[q] <= bridgeRereads
    <3>1. CASE q = r
          BY <1>2, <2>2, <2>3, <1>1, <3>1 DEF BridgeInv, BridgeTypes
    <3>2. CASE q # r
          BY <1>1, <1>2, <3>2 DEF BridgeInv, HandRead
    <3>3. QED BY <3>1, <3>2
  <2>5. bridgePosition < Requests
        BY <1>1, <2>2, BridgeAssumption
  <2>6. QED BY <1>1, <1>3, <1>4, <2>1, <2>2, <2>4, <2>5 DEF HandRead
<1>11. TransfersCounted'
  <2>1. SUFFICES ASSUME NEW q \in 1 .. Requests
                 PROVE  Cardinality(TransfersOf(q)') <= bridgeReads'[q]
        BY DEF TransfersCounted
  <2>2. /\ Cardinality(TransfersOf(q)) <= bridgeReads[q] /\ bridgeReads[q] \in Nat
        /\ IsFiniteSet(TransfersOf(q)) /\ Cardinality(TransfersOf(q)) \in Nat
        BY <1>6, TransfersFinite DEF BridgeInv, BridgeTypes, TransfersCounted
  <2>3. CASE TransfersOf(q)' = TransfersOf(q)
        BY <1>2, <2>2, <2>3
  <2>4. CASE q = r /\ TransfersOf(q)' = TransfersOf(q) \union {Len(transfers) + 1}
    <3>1. ASSUME NEW S, IsFiniteSet(S), Cardinality(S) \in Nat, NEW x
          PROVE  Cardinality(S \union {x}) \in {Cardinality(S), Cardinality(S) + 1}
          BY <3>1, FS_AddElement
    <3>2. Cardinality(TransfersOf(q)') \in
            {Cardinality(TransfersOf(q)), Cardinality(TransfersOf(q)) + 1}
          BY <2>2, <2>4, <3>1
    <3>3. QED BY <1>2, <2>2, <2>4, <3>2
  <2>5. QED
    <3>1. CASE UNCHANGED transfers
          BY <2>3, <3>1 DEF TransfersOf
    <3>2. CASE transfers' = Submitted(r)
          BY <1>1, <1>6, <2>3, <2>4, <3>2, TransferSubmitted
    <3>3. QED BY <1>3, <3>1, <3>2
<1>12. QED BY <1>1, <1>7, <1>8, <1>9, <1>10, <1>11, ResultsMined DEF BridgeInv

\* The confirmation comes or does not: the transfers stay as they are.
LEMMA ConfirmationOver == BridgeInv /\ (Confirmation \/ ConfirmationTimeout) => BridgeInv'
<1> SUFFICES ASSUME BridgeInv, Confirmation \/ ConfirmationTimeout
             PROVE  BridgeInv'
    OBVIOUS
<1>1. /\ bridgeHand \in BridgeHand /\ bridgeHand.step = "confirm"
      /\ bridgeHand.transfer \in DOMAIN transfers
      /\ transfers[bridgeHand.transfer].request = bridgeHand.request
      BY DEF BridgeInv, BridgeTypes, HandMined, Confirmation, ConfirmationTimeout
<1>2. /\ UNCHANGED <<bridgeLive, bridgePosition, bridgeReads, transfers>>
      /\ UNCHANGED <<bridgeResults, bridgeRereads>>
      BY DEF Confirmation, ConfirmationTimeout
<1>3. PICK success \in BOOLEAN, transfer \in Nat :
        /\ bridgeHand' = [bridgeHand EXCEPT !.step = "emit", !.success = success,
                                            !.transfer = transfer]
        /\ success => transfer = bridgeHand.transfer /\ transfers[transfer].state = "mined"
  <2>1. bridgeHand.transfer \in Nat /\ bridgeHand.success \in BOOLEAN /\ NoTransfer \in Nat
        BY <1>1 DEF BridgeHand, NoTransfer
  <2>2. CASE Confirmation
    <3> DEFINE mined == transfers[bridgeHand.transfer].state = "mined"
    <3>1. bridgeHand' = [bridgeHand EXCEPT !.step = "emit", !.success = mined]
          BY <2>2 DEF Confirmation
    <3>2. bridgeHand' = [bridgeHand EXCEPT !.step = "emit", !.success = mined,
                                           !.transfer = bridgeHand.transfer]
          BY <1>1, <3>1 DEF BridgeHand
    <3>3. mined \in BOOLEAN
          OBVIOUS
    <3>4. QED BY <2>1, <3>2, <3>3
  <2>3. CASE ConfirmationTimeout
    <3>1. bridgeHand.success = FALSE
          BY <1>1, <2>1 DEF BridgeInv, HandMined
    <3>2. bridgeHand' = [bridgeHand EXCEPT !.step = "emit", !.transfer = NoTransfer]
          BY <2>3 DEF ConfirmationTimeout
    <3>3. bridgeHand' = [bridgeHand EXCEPT !.step = "emit", !.success = FALSE,
                                           !.transfer = NoTransfer]
          BY <1>1, <3>1, <3>2 DEF BridgeHand
    <3>4. QED BY <2>1, <3>3
  <2>4. QED BY <2>2, <2>3
<1>4. /\ bridgeHand' \in BridgeHand /\ bridgeHand'.step = "emit"
      /\ bridgeHand'.request = bridgeHand.request
      /\ bridgeHand'.success = success /\ bridgeHand'.transfer = transfer
      BY <1>1, <1>3 DEF BridgeHand
<1>5. BridgeTypes'
      BY <1>2, <1>4 DEF BridgeInv, BridgeTypes
<1>6. HandMined'
  <2>1. ASSUME success
        PROVE  transfers[transfer] = [request |-> bridgeHand.request, state |-> "mined"]
    <3>1. transfers[transfer] \in Transfer
          BY <1>1, <1>3, <2>1 DEF BridgeInv, BridgeTypes
    <3>2. QED BY <1>1, <1>3, <2>1, <3>1 DEF Transfer
  <2>2. QED BY <1>1, <1>2, <1>3, <1>4, <2>1 DEF HandMined
<1>7. BridgeSuccessMined'
      BY <1>2 DEF BridgeInv, BridgeSuccessMined
<1>8. HandRead'
  <2>1. bridgeHand # NothingToDo /\ bridgeHand' # NothingToDo
        BY <1>1, <1>4 DEF NothingToDo, Doing
  <2>2. QED BY <1>2, <1>4, <2>1 DEF BridgeInv, HandRead
<1>9. TransfersCounted'
      BY <1>2 DEF BridgeInv, TransfersCounted, TransfersOf
<1>10. QED BY <1>5, <1>6, <1>7, <1>8, <1>9 DEF BridgeInv

LEMMA ResultEmitted == BridgeInv /\ EmitBridgeResult => BridgeInv'
<1> SUFFICES ASSUME BridgeInv, EmitBridgeResult
             PROVE  BridgeInv'
    OBVIOUS
<1>1. /\ bridgeHand.step = "emit" /\ bridgeHand' = NothingToDo
      /\ bridgePosition' = bridgePosition + 1
      /\ bridgeResults' \subseteq bridgeResults \union {bridgeHand}
      /\ UNCHANGED <<bridgeLive, bridgeReads, transfers, bridgeRereads>>
      BY DEF EmitBridgeResult
<1>2. NothingToDo \in BridgeHand /\ NothingToDo.step = "idle"
      BY BridgeAssumption DEF NothingToDo, Doing, NoTransfer, BridgeHand
<1>3. bridgeHand # NothingToDo
      BY <1>1, <1>2
<1>4. /\ bridgeHand.request = bridgePosition + 1 /\ bridgePosition \in Nat
      /\ bridgePosition + 1 \in 0 .. Requests
      BY <1>3, BridgeAssumption DEF BridgeInv, HandRead, BridgeTypes
<1>5. BridgeTypes'
      BY <1>1, <1>2, <1>4 DEF BridgeInv, BridgeTypes
<1>6. HandMined'
      BY <1>1, <1>2 DEF HandMined
<1>7. BridgeSuccessMined'
      BY <1>1 DEF BridgeInv, BridgeSuccessMined, HandMined
<1>8. ASSUME NEW r \in 1 .. Requests
      PROVE  /\ bridgeReads[r] <= 1 + bridgeRereads
             /\ r > bridgePosition + 1 => bridgeReads[r] <= bridgeRereads
      BY <1>4 DEF BridgeInv, HandRead
<1>9. HandRead'
      BY <1>1, <1>2, <1>8 DEF HandRead
<1>10. TransfersCounted'
       BY <1>1 DEF BridgeInv, TransfersCounted, TransfersOf
<1>11. QED BY <1>5, <1>6, <1>7, <1>9, <1>10 DEF BridgeInv

LEMMA TransferSettled ==
    ASSUME BridgeInv, NEW i \in DOMAIN transfers, TransferSettles(i)
    PROVE  BridgeInv'
<1>1. /\ transfers[i].state = "pending"
      /\ UNCHANGED <<bridgeLive, bridgePosition, bridgeReads, bridgeHand>>
      /\ UNCHANGED <<bridgeResults, bridgeRereads>>
      BY DEF TransferSettles
<1>2. PICK state \in {"mined", "reverted"} : transfers' = [transfers EXCEPT ![i].state = state]
      BY DEF TransferSettles
<1>3. transfers \in Seq(Transfer) /\ transfers[i] \in Transfer
      BY DEF BridgeInv, BridgeTypes
<1> DEFINE t == [transfers[i] EXCEPT !.state = state]
<1>4. t \in Transfer /\ t.request = transfers[i].request
      BY <1>3 DEF Transfer
<1>5. transfers' = [transfers EXCEPT ![i] = t]
      BY <1>2
<1> HIDE DEF t
<1>6. transfers' \in Seq(Transfer)
      BY <1>3, <1>4, <1>5
<1>7. /\ DOMAIN transfers' = DOMAIN transfers
      /\ \A j \in DOMAIN transfers : transfers'[j].request = transfers[j].request
      BY <1>3, <1>4, <1>5
<1>8. TransfersKept
      BY <1>1, <1>3, <1>5, <1>7 DEF TransfersKept
<1>9. BridgeTypes'
      BY <1>1, <1>6 DEF BridgeInv, BridgeTypes
<1>10. HandMined'
       BY <1>1, <1>7, <1>8 DEF BridgeInv, HandMined, TransfersKept
<1>11. HandRead'
       BY <1>1 DEF BridgeInv, HandRead
<1>12. TransfersCounted'
  <2>1. \A r : TransfersOf(r)' = TransfersOf(r)
        BY <1>7 DEF TransfersOf
  <2>2. QED BY <1>1, <2>1 DEF BridgeInv, TransfersCounted
<1>13. QED BY <1>1, <1>8, <1>9, <1>10, <1>11, <1>12, ResultsMined DEF BridgeInv

LEMMA BridgeReadAgain == BridgeInv /\ (BridgeRestart \/ BridgeRejoin) => BridgeInv'
<1> SUFFICES ASSUME BridgeInv, BridgeRestart \/ BridgeRejoin
             PROVE  BridgeInv'
    OBVIOUS
<1>1. /\ bridgeRereads' = bridgeRereads + 1 /\ bridgePosition' \in 0 .. bridgePosition
      /\ bridgeHand' = NothingToDo
      /\ UNCHANGED <<bridgeLive, bridgeReads, transfers, bridgeResults>>
      BY DEF BridgeRestart, BridgeRejoin, BridgeReadsAgain
<1>2. NothingToDo \in BridgeHand /\ NothingToDo.step = "idle"
      BY BridgeAssumption DEF NothingToDo, Doing, NoTransfer, BridgeHand
<1>3. BridgeTypes'
      BY <1>1, <1>2, BridgeAssumption DEF BridgeInv, BridgeTypes
<1>4. HandMined' /\ BridgeSuccessMined' /\ TransfersCounted'
      BY <1>1, <1>2
      DEF BridgeInv, HandMined, BridgeSuccessMined, TransfersCounted, TransfersOf
<1>5. ASSUME NEW r \in 1 .. Requests
      PROVE  bridgeReads[r] <= 1 + bridgeRereads /\ bridgeReads[r] \in Nat /\ bridgeRereads \in Nat
      BY DEF BridgeInv, BridgeTypes, HandRead
<1>6. HandRead'
      BY <1>1, <1>2, <1>5 DEF HandRead
<1>7. QED BY <1>3, <1>4, <1>6 DEF BridgeInv

LEMMA BridgeInvStep == BridgeInv /\ [BridgeNext]_bridgeVars => BridgeInv'
<1> SUFFICES ASSUME BridgeInv, [BridgeNext]_bridgeVars
             PROVE  BridgeInv'
    OBVIOUS
<1>1. ASSUME UNCHANGED <<bridgeLive, bridgePosition, bridgeReads, bridgeHand, transfers,
                         bridgeResults, bridgeRereads>>
      PROVE  BridgeInv'
  <2>1. BridgeTypes'
        BY <1>1 DEF BridgeInv, BridgeTypes
  <2>2. HandMined' /\ BridgeSuccessMined' /\ TransfersCounted'
        BY <1>1 DEF BridgeInv, HandMined, BridgeSuccessMined, TransfersCounted, TransfersOf
  <2>3. HandRead'
        BY <1>1 DEF BridgeInv, HandRead
  <2>4. QED BY <2>1, <2>2, <2>3 DEF BridgeInv
<1>2. ASSUME NEW r, DeadlinePasses(r)
      PROVE  BridgeInv'
      BY <1>1, <1>2 DEF DeadlinePasses
<1>3. ASSUME UNCHANGED bridgeVars
      PROVE  BridgeInv'
      BY <1>1, <1>3 DEF bridgeVars
<1>4. QED
      BY <1>2, <1>3, RequestHandled, ConfirmationOver, ResultEmitted, TransferSettled,
         BridgeReadAgain
      DEF BridgeNext

LEMMA BridgeInvariant == BridgeSpec => []BridgeInv
BY BridgeInvInit, BridgeInvStep, PTL DEF BridgeSpec
-----------------------------------------------------------------------------
(* The Ethereum bot: what a reported success means.                         *)

Swap == [plan : 1 .. Plans, nonce : Nat, state : {"pending", "dropped", "swapped", "reverted"}]
ArbHand ==
    [step : {"idle", "wait", "emit"}, plan : 0 .. Plans, success : BOOLEAN, swap : Nat]

ArbTypes ==
    /\ arbPosition \in 0 .. Plans
    /\ arbReads \in [1 .. Plans -> Nat]
    /\ arbHand \in ArbHand
    /\ nonce \in Nat
    /\ swaps \in Seq(Swap)
    /\ arbRereads \in Nat

\* What the handler waits for is the swap of its plan in the public mempool, and a
\* success it is about to report is one.
HandSwapped ==
    /\ arbHand.step = "wait" =>
         /\ arbMode = "public" /\ ~arbHand.success
         /\ arbHand.swap \in DOMAIN swaps /\ swaps[arbHand.swap].plan = arbHand.plan
    /\ arbHand.step = "emit" /\ arbHand.success /\ arbMode # "dry" =>
         /\ arbHand.swap \in DOMAIN swaps /\ swaps[arbHand.swap].plan = arbHand.plan
         /\ arbMode = "public" => swaps[arbHand.swap].state = "swapped"

PlanRead ==
    /\ arbHand # ArbIdle => arbHand.plan = arbPosition + 1 /\ arbPosition < Plans
    /\ \A p \in 1 .. Plans :
         /\ arbReads[p] <= 1 + arbRereads
         /\ p > arbPosition /\ (arbHand = ArbIdle \/ p # arbHand.plan) => arbReads[p] <= arbRereads

SwapsOf(plan) == {i \in DOMAIN swaps : swaps[i].plan = plan}
SwapsCounted == \A p \in 1 .. Plans : Cardinality(SwapsOf(p)) <= arbReads[p]

ArbInv == ArbTypes /\ HandSwapped /\ ArbSuccessMined /\ PlanRead /\ SwapsCounted

\* Transactions stay, with their plans, and what is swapped stays swapped.
SwapsKept ==
    \A i \in DOMAIN swaps :
        /\ i \in DOMAIN swaps'
        /\ swaps'[i].plan = swaps[i].plan
        /\ swaps[i].state = "swapped" => swaps'[i].state = "swapped"

\* One more transaction, for plan p.
SwapAdded(p) ==
    /\ swaps' \in Seq(Swap) /\ SwapsKept
    /\ Len(swaps) + 1 \in DOMAIN swaps' /\ swaps'[Len(swaps) + 1].plan = p
    /\ \A q : q # p => SwapsOf(q)' = SwapsOf(q)
    /\ SwapsOf(p)' = SwapsOf(p) \union {Len(swaps) + 1}

LEMMA IdleHand == ArbIdle \in ArbHand /\ ArbIdle.step = "idle"
BY ArbAssumption DEF ArbIdle, ArbDoing, NoSwap, ArbHand

LEMMA ArbInvInit == ArbInit => ArbInv
<1> SUFFICES ASSUME ArbInit
             PROVE  ArbInv
    OBVIOUS
<1>1. ArbTypes
      BY IdleHand, ArbAssumption DEF ArbInit, ArbTypes
<1>2. HandSwapped /\ ArbSuccessMined /\ PlanRead
      BY IdleHand DEF ArbInit, HandSwapped, ArbSuccessMined, PlanRead
<1>3. ASSUME NEW p \in 1 .. Plans
      PROVE  Cardinality(SwapsOf(p)) <= arbReads[p]
  <2>1. SwapsOf(p) = {}
        BY DEF ArbInit, SwapsOf
  <2>2. QED BY <2>1, FS_EmptySet DEF ArbInit
<1>4. QED BY <1>1, <1>2, <1>3 DEF ArbInv, SwapsCounted

\* A transaction follows those there are, of which some may have been dropped.
LEMMA SwapSigned ==
    ASSUME swaps \in Seq(Swap), nonce \in Nat, NEW p \in 1 .. Plans,
           NEW before \in Seq(Swap), Len(before) = Len(swaps),
           \A i \in 1 .. Len(swaps) :
              before[i].plan = swaps[i].plan
              /\ (swaps[i].state = "swapped" => before[i].state = "swapped"),
           swaps' = Append(before, Signed(p))
    PROVE  SwapAdded(p)
<1> DEFINE t == Signed(p)
<1>1. t \in Swap /\ t.plan = p
      BY DEF Signed, Swap
<1> HIDE DEF t
<1>2. swaps' = Append(before, t)
      BY DEF t
<1>3. /\ swaps' \in Seq(Swap) /\ DOMAIN swaps' = 1 .. Len(swaps) + 1
      /\ \A i \in 1 .. Len(swaps) : swaps'[i] = before[i]
      /\ swaps'[Len(swaps) + 1] = t
      BY <1>1, <1>2
<1>4. DOMAIN swaps = 1 .. Len(swaps) /\ Len(swaps) \in Nat
      OBVIOUS
<1>5. SwapsKept
      BY <1>3, <1>4 DEF SwapsKept
<1>6. \A q : q # p => SwapsOf(q)' = SwapsOf(q)
      BY <1>1, <1>3, <1>4 DEF SwapsOf
<1>7. SwapsOf(p)' = SwapsOf(p) \union {Len(swaps) + 1}
      BY <1>1, <1>3, <1>4 DEF SwapsOf
<1>8. QED BY <1>1, <1>3, <1>4, <1>5, <1>6, <1>7 DEF SwapAdded

LEMMA SwapsFinite ==
    ASSUME swaps \in Seq(Swap), NEW p
    PROVE  IsFiniteSet(SwapsOf(p)) /\ Cardinality(SwapsOf(p)) \in Nat
<1>1. SwapsOf(p) \subseteq 1 .. Len(swaps) /\ IsFiniteSet(1 .. Len(swaps))
      BY FS_Interval DEF SwapsOf
<1>2. QED BY <1>1, FS_Subset, FS_CardinalityType

LEMMA ResultsSwapped ==
    ASSUME ArbInv, SwapsKept, UNCHANGED <<arbResults, arbMode>>
    PROVE  ArbSuccessMined'
BY DEF ArbInv, ArbSuccessMined, SwapsKept

\* What a plan does to the transactions: nothing, or it adds one.
LEMMA PlanSubmitted ==
    ASSUME ArbInv, NEW p \in 1 .. Plans, PlanAnswered(p) \/ BundleSent(p) \/ SwapBroadcast(p)
    PROVE  /\ UNCHANGED swaps \/ SwapAdded(p)
           /\ \E step \in {"emit", "wait"}, success \in BOOLEAN, swap \in Nat :
                /\ arbHand' = ArbDoing(step, p, success, swap)
                /\ step = "wait" =>
                     arbMode = "public" /\ ~success /\ swap = Len(swaps) + 1 /\ ~UNCHANGED swaps
                /\ step = "emit" /\ success /\ arbMode # "dry" =>
                     arbMode = "relay" /\ swap = Len(swaps) + 1 /\ ~UNCHANGED swaps
<1>1. swaps \in Seq(Swap) /\ nonce \in Nat /\ Len(swaps) + 1 \in Nat /\ NoSwap \in Nat
      BY DEF ArbInv, ArbTypes, NoSwap
<1>2. ASSUME swaps' = Append(swaps, Signed(p))
      PROVE  SwapAdded(p) /\ ~UNCHANGED swaps
  <2>1. Len(swaps) + 1 \notin DOMAIN swaps
        BY <1>1
  <2>2. SwapAdded(p)
        BY <1>1, <1>2, SwapSigned
  <2>3. QED BY <2>1, <2>2 DEF SwapAdded
<1>3. CASE PlanAnswered(p)
      BY <1>1, <1>3 DEF PlanAnswered
<1>4. CASE BundleSent(p)
      BY <1>1, <1>2, <1>4 DEF BundleSent
<1>5. CASE SwapBroadcast(p)
  <2> DEFINE before == [i \in DOMAIN swaps |->
                IF i \in InPool THEN [swaps[i] EXCEPT !.state = "dropped"] ELSE swaps[i]]
  <2>1. ASSUME NEW i \in 1 .. Len(swaps)
        PROVE  /\ before[i] \in Swap /\ before[i].plan = swaps[i].plan
               /\ swaps[i].state = "swapped" => before[i].state = "swapped"
    <3>1. swaps[i] \in Swap
          BY <1>1
    <3>2. [swaps[i] EXCEPT !.state = "dropped"] \in Swap
          /\ [swaps[i] EXCEPT !.state = "dropped"].plan = swaps[i].plan
          BY <3>1 DEF Swap
    <3>3. i \in InPool => swaps[i].state # "swapped"
          BY DEF InPool
    <3>4. i \in DOMAIN swaps
          BY <1>1
    <3>5. CASE i \in InPool
      <4>1. before[i] = [swaps[i] EXCEPT !.state = "dropped"]
            BY <3>4, <3>5
      <4>2. QED BY <3>2, <3>3, <3>5, <4>1
    <3>6. CASE i \notin InPool
      <4>1. before[i] = swaps[i]
            BY <3>4, <3>6
      <4>2. QED BY <3>1, <4>1
    <3>7. QED BY <3>5, <3>6
  <2>2. before \in Seq(Swap) /\ Len(before) = Len(swaps)
    <3>1. DOMAIN swaps = 1 .. Len(swaps) /\ Len(swaps) \in Nat
          BY <1>1
    <3>2. before \in [1 .. Len(swaps) -> Swap]
          BY <2>1, <3>1
    <3>3. QED BY <3>1, <3>2
  <2> HIDE DEF before
  <2>3. ASSUME swaps' = Append(before, Signed(p))
        PROVE  SwapAdded(p) /\ ~UNCHANGED swaps
    <3>1. Len(swaps) + 1 \notin DOMAIN swaps
          BY <1>1
    <3>2. SwapAdded(p)
          BY <1>1, <2>1, <2>2, <2>3, SwapSigned
    <3>3. QED BY <3>1, <3>2 DEF SwapAdded
  <2>4. CASE arbHand' = ArbDoing("wait", p, FALSE, Len(swaps) + 1)
             /\ swaps' = Append(before, Signed(p))
        BY <1>1, <1>5, <2>3, <2>4 DEF SwapBroadcast
  <2>5. CASE arbHand' = ArbDoing("emit", p, FALSE, NoSwap) /\ UNCHANGED swaps
        BY <1>1, <2>5
  <2>6. CASE arbHand' = ArbDoing("emit", p, FALSE, NoSwap)
             /\ swaps' = Append(before, Signed(p))
        BY <1>1, <2>3, <2>6
  <2>7. InThePool(p) = Append(before, Signed(p))
        BY DEF InThePool, before
  <2>8. QED BY <1>5, <2>4, <2>5, <2>6, <2>7 DEF SwapBroadcast
<1>6. QED BY <1>3, <1>4, <1>5

LEMMA PlanHandled == ArbInv /\ HandlePlan => ArbInv'
<1> SUFFICES ASSUME ArbInv, HandlePlan
             PROVE  ArbInv'
    OBVIOUS
<1>0. PICK p \in 1 .. Plans : p = arbPosition + 1
      BY ArbAssumption DEF HandlePlan, ArbInv, ArbTypes
<1>1. /\ arbHand = ArbIdle /\ p \in 1 .. Plans
      /\ arbReads' = [arbReads EXCEPT ![p] = @ + 1]
      /\ UNCHANGED <<arbMode, arbPosition, nonce, arbResults, arbRereads>>
      /\ PlanAnswered(p) \/ BundleSent(p) \/ SwapBroadcast(p)
      BY <1>0 DEF HandlePlan
<1>2. arbReads' \in [1 .. Plans -> Nat] /\ arbReads'[p] = arbReads[p] + 1
      /\ \A q \in 1 .. Plans : q # p => arbReads'[q] = arbReads[q]
      BY <1>1 DEF ArbInv, ArbTypes
<1>3. p = arbPosition + 1 /\ arbPosition \in Nat /\ arbRereads \in Nat /\ swaps \in Seq(Swap)
      BY <1>0 DEF ArbInv, ArbTypes
<1>4. UNCHANGED swaps \/ SwapAdded(p)
      BY <1>1, PlanSubmitted
<1>5. PICK step \in {"emit", "wait"}, success \in BOOLEAN, swap \in Nat :
        /\ arbHand' = ArbDoing(step, p, success, swap)
        /\ step = "wait" =>
             arbMode = "public" /\ ~success /\ swap = Len(swaps) + 1 /\ ~UNCHANGED swaps
        /\ step = "emit" /\ success /\ arbMode # "dry" =>
             arbMode = "relay" /\ swap = Len(swaps) + 1 /\ ~UNCHANGED swaps
      BY <1>1, PlanSubmitted
<1>6. /\ arbHand' \in ArbHand
      /\ arbHand'.step = step /\ arbHand'.plan = p
      /\ arbHand'.success = success /\ arbHand'.swap = swap
      BY <1>1, <1>5 DEF ArbDoing, ArbHand
<1>7. swaps' \in Seq(Swap) /\ SwapsKept
      BY <1>3, <1>4 DEF SwapAdded, SwapsKept
<1>8. ArbTypes'
      BY <1>1, <1>2, <1>6, <1>7 DEF ArbInv, ArbTypes
<1>9. HandSwapped'
      BY <1>1, <1>4, <1>5, <1>6 DEF SwapAdded, HandSwapped
<1>10. PlanRead'
  <2>1. arbHand' # ArbIdle
        BY <1>5, <1>6, IdleHand
  <2>2. arbReads[p] <= arbRereads
        BY <1>1, <1>3 DEF ArbInv, PlanRead
  <2>3. ASSUME NEW q \in 1 .. Plans
        PROVE  /\ arbReads'[q] <= 1 + arbRereads
               /\ q > arbPosition /\ q # p => arbReads'[q] <= arbRereads
    <3>1. CASE q = p
          BY <1>1, <1>2, <1>3, <2>2, <3>1 DEF ArbInv, ArbTypes
    <3>2. CASE q # p
          BY <1>1, <1>2, <3>2 DEF ArbInv, PlanRead
    <3>3. QED BY <3>1, <3>2
  <2>4. arbPosition < Plans
        BY <1>1, <1>3, ArbAssumption
  <2>5. QED BY <1>1, <1>3, <1>6, <2>1, <2>3, <2>4 DEF PlanRead
<1>11. SwapsCounted'
  <2>1. SUFFICES ASSUME NEW q \in 1 .. Plans
                 PROVE  Cardinality(SwapsOf(q)') <= arbReads'[q]
        BY DEF SwapsCounted
  <2>2. /\ Cardinality(SwapsOf(q)) <= arbReads[q] /\ arbReads[q] \in Nat
        /\ IsFiniteSet(SwapsOf(q)) /\ Cardinality(SwapsOf(q)) \in Nat
        BY <1>3, SwapsFinite DEF ArbInv, ArbTypes, SwapsCounted
  <2>3. CASE SwapsOf(q)' = SwapsOf(q)
        BY <1>2, <2>2, <2>3
  <2>4. CASE q = p /\ SwapsOf(q)' = SwapsOf(q) \union {Len(swaps) + 1}
    <3>1. ASSUME NEW S, IsFiniteSet(S), Cardinality(S) \in Nat, NEW x
          PROVE  Cardinality(S \union {x}) \in {Cardinality(S), Cardinality(S) + 1}
          BY <3>1, FS_AddElement
    <3>2. Cardinality(SwapsOf(q)') \in {Cardinality(SwapsOf(q)), Cardinality(SwapsOf(q)) + 1}
          BY <2>2, <2>4, <3>1
    <3>3. QED BY <1>2, <2>2, <2>4, <3>2
  <2>5. CASE UNCHANGED swaps
        BY <2>3, <2>5 DEF SwapsOf
  <2>6. CASE SwapAdded(p)
    <3>1. CASE q = p
          BY <2>4, <2>6, <3>1 DEF SwapAdded
    <3>2. CASE q # p
          BY <2>3, <2>6, <3>2 DEF SwapAdded
    <3>3. QED BY <3>1, <3>2
  <2>7. QED BY <1>4, <2>5, <2>6
<1>12. QED BY <1>1, <1>7, <1>8, <1>9, <1>10, <1>11, ResultsSwapped DEF ArbInv

LEMMA ReceiptArrived == ArbInv /\ Receipt => ArbInv'
<1> SUFFICES ASSUME ArbInv, Receipt
             PROVE  ArbInv'
    OBVIOUS
<1>1. /\ arbHand \in ArbHand /\ arbHand.step = "wait" /\ ~arbHand.success
      /\ arbHand.swap \in DOMAIN swaps /\ swaps[arbHand.swap].plan = arbHand.plan
      BY DEF ArbInv, ArbTypes, HandSwapped, Receipt
<1>2. PICK success \in BOOLEAN :
        /\ arbHand' = [arbHand EXCEPT !.step = "emit", !.success = success]
        /\ success => swaps[arbHand.swap].state = "swapped"
  <2> DEFINE swapped == swaps[arbHand.swap].state = "swapped"
  <2>1. CASE arbHand' = [arbHand EXCEPT !.step = "emit", !.success = swapped]
        BY <2>1
  <2>2. CASE arbHand' = [arbHand EXCEPT !.step = "emit"]
    <3>1. arbHand.success = FALSE
          BY <1>1 DEF ArbHand
    <3>2. arbHand' = [arbHand EXCEPT !.step = "emit", !.success = FALSE]
          BY <1>1, <2>2, <3>1 DEF ArbHand
    <3>3. QED BY <3>2
  <2>3. QED BY <2>1, <2>2 DEF Receipt
<1>3. UNCHANGED <<arbMode, arbPosition, arbReads, nonce, swaps, arbResults, arbRereads>>
      BY DEF Receipt
<1>4. /\ arbHand' \in ArbHand /\ arbHand'.step = "emit"
      /\ arbHand'.plan = arbHand.plan /\ arbHand'.swap = arbHand.swap
      /\ arbHand'.success = success
      BY <1>1, <1>2 DEF ArbHand
<1>5. ArbTypes'
      BY <1>3, <1>4 DEF ArbInv, ArbTypes
<1>6. HandSwapped'
      BY <1>1, <1>2, <1>3, <1>4 DEF HandSwapped
<1>7. ArbSuccessMined' /\ SwapsCounted'
      BY <1>3 DEF ArbInv, ArbSuccessMined, SwapsCounted, SwapsOf
<1>8. PlanRead'
  <2>1. arbHand # ArbIdle /\ arbHand' # ArbIdle
        BY <1>1, <1>4, IdleHand
  <2>2. QED BY <1>3, <1>4, <2>1 DEF ArbInv, PlanRead
<1>9. QED BY <1>5, <1>6, <1>7, <1>8 DEF ArbInv

LEMMA EthResultEmitted == ArbInv /\ EmitEthResult => ArbInv'
<1> SUFFICES ASSUME ArbInv, EmitEthResult
             PROVE  ArbInv'
    OBVIOUS
<1>1. /\ arbHand.step = "emit" /\ arbHand' = ArbIdle
      /\ arbPosition' = arbPosition + 1
      /\ arbResults' \subseteq arbResults \union {arbHand}
      /\ UNCHANGED <<arbMode, arbReads, nonce, swaps, arbRereads>>
      BY DEF EmitEthResult
<1>2. arbHand # ArbIdle
      BY <1>1, IdleHand
<1>3. /\ arbHand.plan = arbPosition + 1 /\ arbPosition \in Nat
      /\ arbPosition + 1 \in 0 .. Plans
      BY <1>2, ArbAssumption DEF ArbInv, PlanRead, ArbTypes
<1>4. ArbTypes'
      BY <1>1, <1>3, IdleHand DEF ArbInv, ArbTypes
<1>5. HandSwapped' /\ ArbSuccessMined' /\ SwapsCounted'
  <2>1. HandSwapped'
        BY <1>1, IdleHand DEF HandSwapped
  <2>2. ArbSuccessMined'
        BY <1>1 DEF ArbInv, ArbSuccessMined, HandSwapped
  <2>3. SwapsCounted'
        BY <1>1 DEF ArbInv, SwapsCounted, SwapsOf
  <2>4. QED BY <2>1, <2>2, <2>3
<1>6. ASSUME NEW p \in 1 .. Plans
      PROVE  arbReads[p] <= 1 + arbRereads /\ (p > arbPosition + 1 => arbReads[p] <= arbRereads)
      BY <1>3 DEF ArbInv, PlanRead
<1>7. PlanRead'
      BY <1>1, <1>6 DEF PlanRead
<1>8. QED BY <1>4, <1>5, <1>7 DEF ArbInv

\* A transaction in the pool changes its state.
LEMMA SwapSettled ==
    ASSUME ArbInv, NEW i \in DOMAIN swaps, SwapIncluded(i) \/ BundleExpires(i)
    PROVE  ArbInv'
<1>1. PICK state \in {"swapped", "reverted", "dropped"} : swaps' = [swaps EXCEPT ![i].state = state]
      BY DEF SwapIncluded, BundleExpires
<1>2. /\ swaps[i].state = "pending" /\ (nonce' = nonce + 1 \/ nonce' = nonce)
      /\ UNCHANGED <<arbMode, arbPosition, arbReads, arbHand, arbResults, arbRereads>>
      BY DEF SwapIncluded, BundleExpires, InPool
<1>3. swaps \in Seq(Swap) /\ swaps[i] \in Swap
      BY DEF ArbInv, ArbTypes
<1> DEFINE t == [swaps[i] EXCEPT !.state = state]
<1>4. t \in Swap /\ t.plan = swaps[i].plan
      BY <1>3 DEF Swap
<1>5. swaps' = [swaps EXCEPT ![i] = t]
      BY <1>1
<1> HIDE DEF t
<1>6. /\ swaps' \in Seq(Swap) /\ DOMAIN swaps' = DOMAIN swaps
      /\ \A j \in DOMAIN swaps : swaps'[j].plan = swaps[j].plan
      BY <1>3, <1>4, <1>5
<1>7. SwapsKept
      BY <1>2, <1>3, <1>5, <1>6 DEF SwapsKept
<1>8. ArbTypes'
      BY <1>2, <1>6 DEF ArbInv, ArbTypes
<1>9. HandSwapped'
      BY <1>2, <1>6, <1>7 DEF ArbInv, HandSwapped, SwapsKept
<1>10. PlanRead'
       BY <1>2 DEF ArbInv, PlanRead
<1>11. SwapsCounted'
  <2>1. \A p : SwapsOf(p)' = SwapsOf(p)
        BY <1>6 DEF SwapsOf
  <2>2. QED BY <1>2, <2>1 DEF ArbInv, SwapsCounted
<1>12. QED BY <1>2, <1>7, <1>8, <1>9, <1>10, <1>11, ResultsSwapped DEF ArbInv

LEMMA ArbReadAgain == ArbInv /\ (ArbRestart \/ ArbRejoin) => ArbInv'
<1> SUFFICES ASSUME ArbInv, ArbRestart \/ ArbRejoin
             PROVE  ArbInv'
    OBVIOUS
<1>1. /\ arbRereads' = arbRereads + 1 /\ arbPosition' \in 0 .. arbPosition
      /\ arbHand' = ArbIdle
      /\ UNCHANGED <<arbMode, arbReads, nonce, swaps, arbResults>>
      BY DEF ArbRestart, ArbRejoin, ArbReadsAgain
<1>2. ArbTypes'
      BY <1>1, IdleHand, ArbAssumption DEF ArbInv, ArbTypes
<1>3. HandSwapped' /\ ArbSuccessMined' /\ SwapsCounted'
      BY <1>1, IdleHand DEF ArbInv, HandSwapped, ArbSuccessMined, SwapsCounted, SwapsOf
<1>4. ASSUME NEW p \in 1 .. Plans
      PROVE  arbReads[p] <= 1 + arbRereads /\ arbReads[p] \in Nat /\ arbRereads \in Nat
      BY DEF ArbInv, ArbTypes, PlanRead
<1>5. PlanRead'
      BY <1>1, <1>4 DEF PlanRead
<1>6. QED BY <1>2, <1>3, <1>5 DEF ArbInv

LEMMA ArbInvStep == ArbInv /\ [ArbNext]_arbVars => ArbInv'
<1> SUFFICES ASSUME ArbInv, [ArbNext]_arbVars
             PROVE  ArbInv'
    OBVIOUS
<1>1. ASSUME UNCHANGED arbVars
      PROVE  ArbInv'
  <2>1. ArbTypes' /\ HandSwapped'
        BY <1>1 DEF arbVars, ArbInv, ArbTypes, HandSwapped
  <2>2. ArbSuccessMined' /\ SwapsCounted'
        BY <1>1 DEF arbVars, ArbInv, ArbSuccessMined, SwapsCounted, SwapsOf
  <2>3. PlanRead'
        BY <1>1 DEF arbVars, ArbInv, PlanRead
  <2>4. QED BY <2>1, <2>2, <2>3 DEF ArbInv
<1>2. QED
      BY <1>1, PlanHandled, ReceiptArrived, EthResultEmitted, SwapSettled, ArbReadAgain
      DEF ArbNext

LEMMA ArbInvariant == ArbSpec => []ArbInv
BY ArbInvInit, ArbInvStep, PTL DEF ArbSpec
-----------------------------------------------------------------------------
(* Both bots.                                                               *)

\* What the bridge bot reports as success in live mode, and the Ethereum bot for
\* the public mempool, the chain has executed, for any number of requests, plans
\* and faults: neither a timeout nor a restart nor a lost answer turns a pending,
\* dropped or reverted transaction into a success (bridge-exec-bot
\* service.ts:150-215, eth-arb-bot service.ts:95-190).  Of the relay it says only
\* that the success names a transaction submitted for that plan.
THEOREM SuccessesAreMined == BridgeSpec /\ ArbSpec => []SuccessMeansMined
<1>1. BridgeInv /\ ArbInv => SuccessMeansMined
      BY DEF BridgeInv, ArbInv, SuccessMeansMined
<1>2. QED
      BY BridgeInvariant, ArbInvariant, <1>1, PTL

\* Assets move at most once for each time a request or plan is read, and each
\* reading but the first takes a restart or a rebalance of the consumer group.
THEOREM MovesAreCounted == BridgeSpec /\ ArbSpec => []MovedOncePerRead
<1>1. BridgeInv => BridgedOncePerRead
      BY DEF BridgeInv, HandRead, TransfersCounted, BridgedOncePerRead
<1>2. ArbInv => SwappedOncePerRead
  <2>1. SUFFICES ASSUME ArbInv, NEW p \in 1 .. Plans
                 PROVE  Cardinality(Included(p)) <= arbReads[p] /\ arbReads[p] <= 1 + arbRereads
        BY DEF SwappedOncePerRead
  <2>2. IsFiniteSet(SwapsOf(p)) /\ Cardinality(SwapsOf(p)) \in Nat
        BY <2>1, SwapsFinite DEF ArbInv, ArbTypes
  <2>3. Included(p) \subseteq SwapsOf(p)
        BY DEF Included, SwapsOf
  <2>4. /\ Cardinality(Included(p)) <= Cardinality(SwapsOf(p))
        /\ Cardinality(Included(p)) \in Nat
        BY <2>2, <2>3, FS_Subset, FS_CardinalityType
  <2>5. /\ Cardinality(SwapsOf(p)) <= arbReads[p] /\ arbReads[p] <= 1 + arbRereads
        /\ arbReads[p] \in Nat
        BY <2>1 DEF ArbInv, ArbTypes, SwapsCounted, PlanRead
  <2>6. QED BY <2>2, <2>4, <2>5
<1>3. QED
      BY BridgeInvariant, ArbInvariant, <1>1, <1>2, PTL DEF MovedOncePerRead
=============================================================================
