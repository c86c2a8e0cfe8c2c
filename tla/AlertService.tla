---------------------------- MODULE AlertService ----------------------------
(***************************************************************************)
(* The alert service (alert-rules/src/service.ts): the events of its input  *)
(* topics, the rules they trigger, and the cooldown of each rule.  Events   *)
(* are abstracted to what the rules ask of them; messages are handled one   *)
(* at a time.  Time is counted in units of which Cooldown make up           *)
(* alertCooldownMs.                                                         *)
(***************************************************************************)
EXTENDS Integers, FiniteSets

CONSTANTS
    InputTopics,  \* config.inputTopics
    Cooldown,
    MaxTime,      \* bound on the time
    AlertStops    \* bound on restarts

Rules == {"spread", "large-position", "rejected-ev", "exec-fail", "profit", "stress"}

Event == [topic : {"spread-signal"}, spread : {"wide", "narrow", "negative"}]
   \union [topic : {"opportunity-evaluation"}, approved : BOOLEAN, big : BOOLEAN, valuable : BOOLEAN]
   \union [topic : {"execution-result"}, success : BOOLEAN, profit : BOOLEAN]
   \union [topic : {"stress-signal"}, severity : {"medium", "high", "critical"}]

ASSUME AlertAssumption ==
    /\ InputTopics \subseteq {e.topic : e \in Event}
    /\ Cooldown \in Nat \ {0} /\ MaxTime \in Nat /\ AlertStops \in Nat

VARIABLES
    time,
    lastAlertTime, \* per rule, -Cooldown for never
    delivering,    \* the alert whose delivery the handler awaits: its rule, if any
    lastTriggered, \* history: when each rule was last triggered, -Cooldown for never
    alerts,        \* history: the alerts sent and when
    alertStops     \* restarts

alertVars == <<time, lastAlertTime, delivering, lastTriggered, alerts, alertStops>>

NoRule == "none"
Never == [rule \in Rules |-> -Cooldown]

AlertInit ==
    /\ time = 0
    /\ lastAlertTime = Never
    /\ delivering = NoRule
    /\ lastTriggered = Never /\ alerts = {}
    /\ alertStops = 0

\* The rule an event triggers: onSpreadSignal compares the signed spread, so that
\* a wide negative one triggers none; the others as they read.
Triggers(event, rule) ==
    \/ rule = "spread" /\ event.topic = "spread-signal" /\ event.spread = "wide"
    \/ rule = "large-position" /\ event.topic = "opportunity-evaluation" /\ event.approved /\ event.big
    \/ rule = "rejected-ev" /\ event.topic = "opportunity-evaluation" /\ ~event.approved /\ event.valuable
    \/ rule = "exec-fail" /\ event.topic = "execution-result" /\ ~event.success
    \/ rule = "profit" /\ event.topic = "execution-result" /\ event.success /\ event.profit
    \/ rule = "stress" /\ event.topic = "stress-signal" /\ event.severity \in {"high", "critical"}

Send(rule) ==
    /\ lastAlertTime' = [lastAlertTime EXCEPT ![rule] = time]
    /\ delivering' = rule
    /\ alerts' = alerts \union {[rule |-> rule, at |-> time]}

\* Mutant: a suppressed alert extends the cooldown.
SendAlert_Extended(rule) ==
    IF time - lastAlertTime[rule] < Cooldown
    THEN lastAlertTime' = [lastAlertTime EXCEPT ![rule] = time] /\ UNCHANGED <<delivering, alerts>>
    ELSE Send(rule)

\* Mutant: the rules share one cooldown.
SendAlert_OneCooldown(rule) ==
    IF \E r \in Rules : time - lastAlertTime[r] < Cooldown
    THEN UNCHANGED <<lastAlertTime, delivering, alerts>>
    ELSE Send(rule)

\* sendAlert up to the delivery, which the handler awaits.
SendAlert(rule) ==
    IF time - lastAlertTime[rule] < Cooldown
    THEN UNCHANGED <<lastAlertTime, delivering, alerts>>
    ELSE Send(rule)

\* handleMessage.  No event triggers two rules.
HandleEvent(event) ==
    /\ delivering = NoRule
    /\ event.topic \in InputTopics
    /\ IF \E rule \in Rules : Triggers(event, rule)
       THEN \E rule \in Rules :
              /\ Triggers(event, rule)
              /\ SendAlert(rule)
              /\ lastTriggered' = [lastTriggered EXCEPT ![rule] = time]
       ELSE UNCHANGED <<lastAlertTime, delivering, lastTriggered, alerts>>
    /\ UNCHANGED <<time, alertStops>>

\* sendDiscord and sendSlack are settled.  Each succeeds, fails or times out, and
\* that is logged and no more.
Delivered ==
    /\ delivering # NoRule
    /\ delivering' = NoRule
    /\ UNCHANGED <<time, lastAlertTime, lastTriggered, alerts, alertStops>>

TimePasses ==
    /\ time < MaxTime
    /\ time' = time + 1
    /\ UNCHANGED <<lastAlertTime, delivering, lastTriggered, alerts, alertStops>>

\* The service is killed and started again; it remembers no cooldown.
AlertRestart ==
    /\ alertStops < AlertStops
    /\ alertStops' = alertStops + 1
    /\ lastAlertTime' = Never /\ delivering' = NoRule
    /\ UNCHANGED <<time, lastTriggered, alerts>>

AlertNext ==
    \/ \E event \in Event : HandleEvent(event)
    \/ Delivered
    \/ TimePasses
    \/ AlertRestart

AlertSpec == AlertInit /\ [][AlertNext]_alertVars
-----------------------------------------------------------------------------
\* What happens is never followed by a silence longer than the cooldown: a rule
\* that is triggered has sent an alert less than Cooldown before, or does so now,
\* also across restarts and next to alerts of other rules.  And, as service.ts:163
\* says, "no duplicate alerts within window" while the service runs.  Whether an
\* alert reaches anybody is another matter: the cooldown starts even if both
\* deliveries fail (service.ts:167-174).
OneAlertPerWindow ==
    /\ \A rule \in Rules : lastTriggered[rule] >= 0 =>
         \E a \in alerts :
           a.rule = rule /\ a.at <= lastTriggered[rule] /\ lastTriggered[rule] - a.at < Cooldown
    /\ alertStops = 0 => \A a, b \in alerts :
         a.rule = b.rule => a.at = b.at \/ a.at - b.at >= Cooldown \/ b.at - a.at >= Cooldown
=============================================================================
