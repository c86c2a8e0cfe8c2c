--------------------------- MODULE TradePipeline ----------------------------
(***************************************************************************)
(* The trading pipeline: spread signals go through the opportunity          *)
(* constructor, the risk engine, the portfolio manager and the Monad bot,   *)
(* each a process of its own that reads one topic and writes the next one.  *)
(* The services take their steps in any order; each may be restarted        *)
(* between any two of them, and sends may fail or be duplicated.            *)
(***************************************************************************)
EXTENDS ArbBot, FiniteSets, Sums

CONSTANTS
    Capacities,  \* notional capacities of the signals
    MaxSignals   \* bound on the number of signals

ASSUME PipelineAssumption ==
    /\ Capacities \subseteq Nat
    /\ MaxSignals \in Nat

vars == <<messagingVars, engineMode, managerVars, botVars>>

Init ==
    /\ MessagingInit
    /\ RiskInit
    /\ ManagerInit
    /\ BotInit
-----------------------------------------------------------------------------
\* The spread scanner publishes a signal.
PublishSignal ==
    /\ Len(signals) < MaxSignals
    /\ \E capacity \in Capacities : signals' = Append(signals, [capacity |-> capacity])
    /\ UNCHANGED <<candidates, evaluations, plans, results, sendFaults, delivery,
                   engineMode, managerVars, botVars>>

ConstructorStep == Construct /\ UNCHANGED <<managerVars, botVars>>

EngineStep == EvaluateMode /\ UNCHANGED <<managerVars, botVars>>

ManagerStep ==
    /\ RefuseEvaluation \/ AcceptEvaluation \/ EmitPlan \/ UpdatePortfolio
    /\ UNCHANGED <<engineMode, botVars>>

BotStep ==
    /\ ExecuteTrade \/ EmitResult
    /\ UNCHANGED <<engineMode, managerVars>>

\* A restart takes the memory of the service with it: the place in the loop over
\* the modes, the books, the trade that was to be reported.
RestartConstructor ==
    /\ Restarted(Constructor)
    /\ UNCHANGED <<engineMode, managerVars, botVars>>

RestartEngine ==
    /\ Restarted(Engine)
    /\ engineMode' = 1
    /\ UNCHANGED <<managerVars, botVars>>

RestartManager ==
    /\ Restarted(Manager)
    /\ ManagerMemoryLost
    /\ UNCHANGED <<engineMode, botVars>>

RestartBot ==
    /\ Restarted(Bot)
    /\ reporting' = FALSE
    /\ UNCHANGED <<engineMode, managerVars, trades>>

Restart == RestartConstructor \/ RestartEngine \/ RestartManager \/ RestartBot

\* No handler of the service is running.
BetweenMessages(s) ==
    /\ s = Engine => engineMode = 1
    /\ s = Manager => sending = Idle
    /\ s = Bot => ~reporting

RejoinStep ==
    /\ \E s \in Services : BetweenMessages(s) /\ Rejoined(s)
    /\ UNCHANGED <<engineMode, managerVars, botVars>>

Next ==
    \/ PublishSignal
    \/ ConstructorStep
    \/ EngineStep
    \/ ManagerStep
    \/ BotStep
    \/ Restart
    \/ RejoinStep

Spec == Init /\ [][Next]_vars

\* A service that has a message, or is in the middle of a handler, goes on: its
\* consumer polls forever, and docker-compose restarts a process that has died.
Fairness ==
    /\ WF_vars(ConstructorStep)
    /\ WF_vars(EngineStep)
    /\ WF_vars(ManagerStep)
    /\ WF_vars(BotStep)

FairSpec == Spec /\ Fairness
-----------------------------------------------------------------------------
Signal == [capacity : Nat]
Result == [plan : Nat]

\* Every topic, position, offset and piece of memory has its type, and no
\* service reads behind the end of its inbox.
TypeOK ==
    /\ signals \in Seq(Signal)
    /\ candidates \in Seq(Candidate)
    /\ evaluations \in Seq(Evaluation)
    /\ plans \in Seq(Plan)
    /\ results \in Seq(Result)
    /\ position \in [Services -> Nat]
    /\ offset \in [Services -> Nat \union {NoOffset}]
    /\ sendFaults \in Nat
    /\ restarts \in Nat
    /\ rejoins \in Nat
    /\ engineMode \in {1, 2}
    /\ bridgeExposure \in [known : BOOLEAN, percent : Nat]
    /\ openPositions \in Seq(Nat)
    /\ sending \in [phase : {"idle", "sending", "sent"}, plan : Plan]
    /\ trades \in Seq(Nat)
    /\ reporting \in BOOLEAN
    /\ \A s \in Services : position[s] <= Len(Inbox(s)) /\ offset[s] <= position[s]

\* What is published was decided on what the service before had published.
CandidateJustified(c, published) ==
    \E i \in DOMAIN published :
        c.signal = i /\ c.size = Suggested(published[i].capacity) /\ c.size >= MinSize

EvaluationJustified(e, published) ==
    \E i \in DOMAIN published :
        published[i].id = e.opportunity /\ e.size <= published[i].size

PlanJustified(p, published) ==
    \E i \in DOMAIN published :
        /\ published[i].approved
        /\ published[i].opportunity = p.opportunity
        /\ published[i].mode = p.mode
        /\ p.size <= published[i].size
        /\ p.size <= MaxSingleTradePercent

\* Every trade the bot makes goes back, plan by evaluation by candidate, to a
\* spread signal: the plan repeats opportunity and mode of an approved
\* evaluation, and its size exceeds neither the evaluated size, nor the
\* suggestion, nor the single-trade limit, whatever was lost or replayed.
EveryTradeJustified ==
    /\ \A i \in DOMAIN candidates : CandidateJustified(candidates[i], signals)
    /\ \A i \in DOMAIN evaluations : EvaluationJustified(evaluations[i], candidates)
    /\ \A i \in DOMAIN plans : PlanJustified(plans[i], evaluations)
    /\ \A k \in DOMAIN trades : trades[k] \in DOMAIN plans /\ plans[trades[k]].approved

\* The books of the portfolio manager stay within the bridge limit as long as
\* no evaluation was larger than the single-trade limit, and that limit is the
\* smaller of the two.  (applyConstraints skips the bridge limit for the first
\* trade and for one it has cut.)
BookedWithinLimit ==
    (/\ MaxSingleTradePercent <= MaxBridgeExposurePercent
     /\ \A i \in DOMAIN evaluations : ~Oversized(evaluations[i]))
    => bridgeExposure.percent <= MaxBridgeExposurePercent

\* The bridge exposure the plans published amount to.  A plan that a send has
\* duplicated counts once.
FirstCopy(ps, i) == \A j \in 1 .. (i - 1) : ps[j] # ps[i]

BridgeSizes(ps) ==
    [i \in 1 .. Len(ps) |->
       IF ps[i].mode = "bridge_based" /\ FirstCopy(ps, i) THEN ps[i].size ELSE 0]

SizeOfBridgePlans(ps) == SumUpTo(BridgeSizes(ps), Len(ps))

\* The plans whose send has returned and whose booking is done.
BookedPlans ==
    IF sending.phase = "sent" THEN SubSeq(plans, 1, Len(plans) - 1) ELSE plans

\* The books never show more bridge exposure than was published in plans; and
\* as long as no send goes wrong and no process is killed, they show exactly the
\* plans published, in order, except the one whose send has just returned.
BooksFollowPlans ==
    /\ bridgeExposure.percent <= SizeOfBridgePlans(plans)
    /\ sendFaults = 0 /\ restarts = 0 =>
         /\ openPositions = [i \in DOMAIN BookedPlans |-> BookedPlans[i].opportunity]
         /\ bridgeExposure.percent = SizeOfBridgePlans(BookedPlans)

TimesTraded(i) == Cardinality({k \in DOMAIN trades : trades[k] = i})

\* The bot trades a plan again only when its inbox was read again: a result that
\* could not be reported is not a reason.
RetradedOnlyAfterReplay ==
    \A i \in DOMAIN plans : TimesTraded(i) <= 1 + restarts + rejoins
-----------------------------------------------------------------------------
Traded == {trades[k] : k \in DOMAIN trades}

AtLeastOnceTrades == INSTANCE AtLeastOnce WITH published <- plans, done <- Traded

\* The bot carries out the plans published, in order, at least once, when its
\* group has an offset: messages duplicated, replayed or committed late, and
\* restarts at any moment, never make it pass a plan over.
ImplementsAtLeastOnce == AtLeastOnceTrades!Spec
=============================================================================
