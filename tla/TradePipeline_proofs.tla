------------------------ MODULE TradePipeline_proofs ------------------------
(***************************************************************************)
(* The trading pipeline, for every number of signals and faults, every size *)
(* and every limit.  A topic only ever grows, and what is in it is never    *)
(* changed; everything a service has read therefore stays true, and the     *)
(* proofs below are about what each service holds between two of its steps. *)
(***************************************************************************)
EXTENDS TradePipeline, Sums_proofs, FiniteSetTheorems, TLAPS

Extends(longer, topic) ==
    /\ Len(longer) >= Len(topic)
    /\ \A i \in 1 .. Len(topic) : longer[i] = topic[i]

TopicsTyped ==
    /\ signals \in Seq(Signal)
    /\ candidates \in Seq(Candidate)
    /\ evaluations \in Seq(Evaluation)
    /\ plans \in Seq(Plan)
    /\ results \in Seq(Result)

ReadingTyped ==
    /\ position \in [Services -> Nat]
    /\ offset \in [Services -> Nat \union {NoOffset}]
    /\ sendFaults \in Nat
    /\ restarts \in Nat
    /\ rejoins \in Nat

MemoryTyped ==
    /\ engineMode \in {1, 2}
    /\ bridgeExposure \in [known : BOOLEAN, percent : Nat]
    /\ openPositions \in Seq(Nat)
    /\ sending \in [phase : {"idle", "sending", "sent"}, plan : Plan]
    /\ trades \in Seq(Nat)
    /\ reporting \in BOOLEAN

ReadInOrder == \A s \in Services : position[s] <= Len(Inbox(s)) /\ offset[s] <= position[s]

\* A handler that has not returned still has its message.
InHand ==
    /\ sending.phase # "idle" => HasMessage(Manager)
    /\ reporting => HasMessage(Bot)

TypeInv ==
    /\ TopicsTyped
    /\ ReadingTyped
    /\ MemoryTyped
    /\ ReadInOrder
    /\ InHand

TopicsExtended ==
    /\ Extends(signals', signals)
    /\ Extends(candidates', candidates)
    /\ Extends(evaluations', evaluations)
    /\ Extends(plans', plans)
    /\ Extends(results', results)
-----------------------------------------------------------------------------
\* Topics and sends.

LEMMA InboxIs ==
    /\ Inbox(Constructor) = signals
    /\ Inbox(Engine) = candidates
    /\ Inbox(Manager) = evaluations
    /\ Inbox(Bot) = plans
    /\ {Constructor, Engine, Manager, Bot} = Services
  BY DEF Inbox, Constructor, Engine, Manager, Bot, Services

LEMMA ServicesDistinct ==
    /\ Constructor # Engine /\ Constructor # Manager /\ Constructor # Bot
    /\ Engine # Manager /\ Engine # Bot /\ Manager # Bot
    /\ Constructor \in Services /\ Engine \in Services
    /\ Manager \in Services /\ Bot \in Services
  BY DEF Constructor, Engine, Manager, Bot, Services

LEMMA Appended ==
  ASSUME NEW S, NEW topic \in Seq(S), NEW message \in S
  PROVE  /\ Append(topic, message) \in Seq(S)
         /\ Extends(Append(topic, message), topic)
         /\ Len(Append(topic, message)) = Len(topic) + 1
         /\ Append(topic, message)[Len(topic) + 1] = message
  BY DEF Extends

\* Whatever a send does, the topic grows by copies of the message, if at all.
LEMMA Sent ==
  ASSUME NEW S, NEW topic \in Seq(S), NEW message \in S,
         NEW outcome \in SendOutcomes(topic, message)
  PROVE  /\ outcome.topic \in Seq(S)
         /\ Extends(outcome.topic, topic)
         /\ outcome.acked \in BOOLEAN
         /\ outcome.faults \in Nat
         /\ \A i \in 1 .. Len(outcome.topic) :
              i \in 1 .. Len(topic) \/ outcome.topic[i] = message
  <1>1. topic \o <<message, message>> \in Seq(S)
    OBVIOUS
  <1>2. Extends(topic \o <<message, message>>, topic)
    BY DEF Extends
  <1>3. \A i \in 1 .. Len(topic \o <<message, message>>) :
          i \in 1 .. Len(topic) \/ (topic \o <<message, message>>)[i] = message
    OBVIOUS
  <1>4. CASE outcome = [topic |-> Append(topic, message), acked |-> TRUE, faults |-> 0]
    BY <1>4, Appended
  <1>5. CASE outcome = [topic |-> topic, acked |-> FALSE, faults |-> 1]
    BY <1>5 DEF Extends
  <1>6. CASE outcome = [topic |-> Append(topic, message), acked |-> FALSE, faults |-> 1]
    BY <1>6, Appended
  <1>7. CASE outcome = [topic |-> topic \o <<message, message>>, acked |-> TRUE, faults |-> 1]
    BY <1>7, <1>1, <1>2, <1>3
  <1> QED
    BY <1>4, <1>5, <1>6, <1>7 DEF SendOutcomes

LEMMA Unchanged == ASSUME NEW S, NEW topic \in Seq(S) PROVE Extends(topic, topic)
  BY DEF Extends

LEMMA SuggestedTyped ==
  ASSUME NEW capacity \in Nat
  PROVE  Suggested(capacity) \in Nat
  <1>1. capacity * SizePercent \in Nat
    BY RiskAssumption
  <1>2. \A n \in Nat : n \div 100 \in Nat
    OBVIOUS
  <1> QED
    BY <1>1, <1>2 DEF Suggested, Smaller
-----------------------------------------------------------------------------
\* Reading.  A position never passes the end of its inbox, and never falls
\* behind the offset it was last read from.

PositionsTyped ==
    /\ position \in [Services -> Nat]
    /\ offset \in [Services -> Nat \union {NoOffset}]

LEMMA InboxesGrow ==
  ASSUME TopicsTyped, TopicsTyped', TopicsExtended
  PROVE  \A s \in Services : Len(Inbox(s)) \in Nat /\ Len(Inbox(s)') >= Len(Inbox(s))
                             /\ Len(Inbox(s)') \in Nat
  BY InboxIs, ServicesDistinct DEF TopicsTyped, TopicsExtended, Extends, Inbox, Services

LEMMA OrderKeptByHandled ==
  ASSUME TypeInv, TopicsTyped', TopicsExtended,
         NEW s \in Services, HasMessage(s), Handled(s)
  PROVE  PositionsTyped' /\ ReadInOrder'
  <1>1. PositionsTyped'
    BY DEF TypeInv, ReadingTyped, Handled, PositionsTyped
  <1>2. ASSUME NEW r \in Services
        PROVE  position'[r] <= Len(Inbox(r)') /\ offset'[r] <= position'[r]
    <2>1. /\ position[r] \in Nat /\ position[r] <= Len(Inbox(r)) /\ offset[r] <= position[r]
          /\ offset[r] \in Nat \union {-1}
      BY DEF TypeInv, ReadingTyped, ReadInOrder, NoOffset
    <2>2. position[s] + 1 <= Len(Inbox(s)) /\ position[s] \in Nat
      BY InboxesGrow DEF TypeInv, ReadingTyped, HasMessage
    <2>3. offset'[r] = offset[r] /\ position'[r] = IF r = s THEN position[s] + 1 ELSE position[r]
      BY DEF TypeInv, ReadingTyped, Handled
    <2>4. Len(Inbox(r)) \in Nat /\ Len(Inbox(r)') \in Nat /\ Len(Inbox(r)') >= Len(Inbox(r))
      BY InboxesGrow DEF TypeInv
    <2> QED
      BY <2>1, <2>2, <2>3, <2>4
  <1> QED
    BY <1>1, <1>2 DEF ReadInOrder

LEMMA OrderKeptWithout ==
  ASSUME TypeInv, TopicsTyped', TopicsExtended, UNCHANGED <<position, offset>>
  PROVE  PositionsTyped' /\ ReadInOrder'
  <1>1. PositionsTyped'
    BY DEF TypeInv, ReadingTyped, PositionsTyped
  <1>2. ASSUME NEW r \in Services
        PROVE  position'[r] <= Len(Inbox(r)') /\ offset'[r] <= position'[r]
    <2>1. position[r] \in Nat /\ position[r] <= Len(Inbox(r)) /\ offset[r] <= position[r]
      BY DEF TypeInv, ReadingTyped, ReadInOrder
    <2>2. Len(Inbox(r)) \in Nat /\ Len(Inbox(r)') \in Nat /\ Len(Inbox(r)') >= Len(Inbox(r))
      BY InboxesGrow DEF TypeInv
    <2> QED
      BY <2>1, <2>2
  <1> QED
    BY <1>1, <1>2 DEF ReadInOrder

\* Reading again goes back, at most to the offset, and everything else of the
\* messaging stays.
LEMMA OrderKeptByReadAgain ==
  ASSUME TypeInv, NEW s \in Services, ReadAgain(s)
  PROVE  /\ TopicsTyped' /\ TopicsExtended /\ PositionsTyped' /\ ReadInOrder'
         /\ \A r \in Services : r # s => position'[r] = position[r]
  <1>1. TopicsTyped' /\ TopicsExtended
    BY Unchanged DEF TypeInv, TopicsTyped, TopicsExtended, ReadAgain
  <1>2. PICK n \in Committed(s) :
          /\ offset' = [offset EXCEPT ![s] = n]
          /\ position' = [position EXCEPT ![s] = IF n = NoOffset THEN Len(Inbox(s)) ELSE n]
    BY DEF ReadAgain
  <1>3. /\ position[s] \in Nat /\ offset[s] \in Nat \union {-1}
        /\ position[s] <= Len(Inbox(s)) /\ Len(Inbox(s)) \in Nat
    BY InboxesGrow, <1>1 DEF TypeInv, ReadingTyped, ReadInOrder, NoOffset
  <1>4. n \in Nat \union {-1} /\ n <= position[s]
    BY <1>3 DEF Committed
  <1>5. /\ (IF n = NoOffset THEN Len(Inbox(s)) ELSE n) \in Nat
        /\ (IF n = NoOffset THEN Len(Inbox(s)) ELSE n) <= Len(Inbox(s))
        /\ n <= (IF n = NoOffset THEN Len(Inbox(s)) ELSE n)
    BY <1>3, <1>4 DEF NoOffset
  <1>6. PositionsTyped'
    BY <1>2, <1>4, <1>5 DEF TypeInv, ReadingTyped, PositionsTyped, NoOffset
  <1>7. \A r \in Services : Inbox(r)' = Inbox(r)
    BY DEF ReadAgain, Inbox
  <1>8. \A r \in Services : position'[r] <= Len(Inbox(r)') /\ offset'[r] <= position'[r]
    BY <1>2, <1>5, <1>7 DEF TypeInv, ReadingTyped, ReadInOrder
  <1>9. \A r \in Services : r # s => position'[r] = position[r]
    BY <1>2 DEF TypeInv, ReadingTyped
  <1> QED
    BY <1>1, <1>6, <1>8, <1>9 DEF ReadInOrder
-----------------------------------------------------------------------------
\* Types.  Each step is one lemma, about the types and the growth of the topics.

Sound == TypeInv' /\ TopicsExtended

LEMMA PublishSignalSound ==
  ASSUME TypeInv, PublishSignal
  PROVE  Sound
  <1>1. PICK capacity \in Capacities : signals' = Append(signals, [capacity |-> capacity])
    BY DEF PublishSignal
  <1>2. [capacity |-> capacity] \in Signal
    BY PipelineAssumption DEF Signal
  <1>3. TopicsTyped' /\ TopicsExtended
    BY <1>1, <1>2, Appended, Unchanged
    DEF PublishSignal, TypeInv, TopicsTyped, TopicsExtended
  <1>4. PositionsTyped' /\ ReadInOrder'
    BY <1>3, OrderKeptWithout DEF PublishSignal, delivery
  <1>5. ReadingTyped' /\ MemoryTyped'
    BY <1>4 DEF PublishSignal, TypeInv, ReadingTyped, MemoryTyped, PositionsTyped, delivery,
                managerVars, portfolio, botVars
  <1>6. InHand'
    BY InboxIs DEF PublishSignal, TypeInv, InHand, HasMessage, delivery,
                   managerVars, portfolio, botVars, Inbox
  <1> QED
    BY <1>3, <1>4, <1>5, <1>6 DEF Sound, TypeInv

LEMMA ConstructorStepSound ==
  ASSUME TypeInv, ConstructorStep
  PROVE  Sound
  <1> DEFINE i == Current(Constructor)
  <1>1. i \in 1 .. Len(signals)
    BY InboxIs, ServicesDistinct
    DEF ConstructorStep, Construct, HasMessage, Current, TypeInv, TopicsTyped, ReadingTyped
  <1>2. NewCandidate(i) \in Candidate
    <2>1. signals[i].capacity \in Nat
      <3>1. signals[i] \in Signal
        BY <1>1 DEF TypeInv, TopicsTyped
      <3> QED
        BY <3>1 DEF Signal
    <2>2. Suggested(signals[i].capacity) \in Nat
      BY <2>1, SuggestedTyped
    <2> QED
      BY <1>1, <2>2 DEF NewCandidate, Candidate, TypeInv, TopicsTyped
  <1>3. TopicsTyped' /\ TopicsExtended /\ sendFaults' \in Nat
    <2>1. CASE UNCHANGED <<candidates, sendFaults>>
      BY <2>1, Unchanged
      DEF ConstructorStep, Construct, TypeInv, TopicsTyped, TopicsExtended, ReadingTyped
    <2>2. CASE \E outcome \in SendOutcomes(candidates, NewCandidate(i)) :
                 candidates' = outcome.topic /\ sendFaults' = sendFaults + outcome.faults
      BY <2>2, <1>2, Sent, Unchanged
      DEF ConstructorStep, Construct, TypeInv, TopicsTyped, TopicsExtended, ReadingTyped
    <2> QED
      BY <2>1, <2>2 DEF ConstructorStep, Construct
  <1>4. PositionsTyped' /\ ReadInOrder'
    BY <1>3, OrderKeptByHandled, ServicesDistinct DEF ConstructorStep, Construct
  <1>5. ReadingTyped' /\ MemoryTyped'
    BY <1>3, <1>4 DEF ConstructorStep, Construct, Handled, TypeInv, ReadingTyped, MemoryTyped,
                      PositionsTyped, managerVars, portfolio, botVars
  <1>6. InHand'
    BY InboxIs, ServicesDistinct
    DEF ConstructorStep, Construct, Handled, TypeInv, ReadingTyped, InHand, HasMessage,
        managerVars, portfolio, botVars, Inbox
  <1> QED
    BY <1>3, <1>4, <1>5, <1>6 DEF Sound, TypeInv

LEMMA EvaluationTyped ==
  ASSUME NEW candidate \in Candidate, NEW mode \in ModeNames,
         NEW e \in Evaluations(candidate, mode)
  PROVE  /\ e \in Evaluation
         /\ e.opportunity = candidate.id /\ e.size <= candidate.size
  <1>1. \A kelly \in KellySizes : Smaller(kelly, candidate.size) \in Nat
                                /\ Smaller(kelly, candidate.size) <= candidate.size
    BY RiskAssumption DEF Smaller, Candidate
  <1> QED
    BY <1>1 DEF Evaluations, Evaluation, Candidate

LEMMA EngineStepSound ==
  ASSUME TypeInv, EngineStep
  PROVE  Sound
  <1>1. Current(Engine) \in 1 .. Len(candidates)
    BY InboxIs, ServicesDistinct
    DEF EngineStep, EvaluateMode, HasMessage, Current, TypeInv, TopicsTyped, ReadingTyped
  <1>2. candidates[Current(Engine)] \in Candidate /\ Modes[engineMode] \in ModeNames
    BY <1>1 DEF TypeInv, TopicsTyped, MemoryTyped, Modes, ModeNames
  <1>3. PICK e \in Evaluations(candidates[Current(Engine)], Modes[engineMode]) :
          \E outcome \in SendOutcomes(evaluations, e) :
             /\ evaluations' = outcome.topic
             /\ sendFaults' = sendFaults + outcome.faults
    BY DEF EngineStep, EvaluateMode
  <1>4. e \in Evaluation
    BY <1>2, EvaluationTyped
  <1>5. TopicsTyped' /\ TopicsExtended /\ sendFaults' \in Nat
    BY <1>3, <1>4, Sent, Unchanged
    DEF EngineStep, EvaluateMode, TypeInv, TopicsTyped, TopicsExtended, ReadingTyped
  <1>6. UNCHANGED delivery \/ Handled(Engine)
    BY DEF EngineStep, EvaluateMode
  <1>7. PositionsTyped' /\ ReadInOrder'
    BY <1>5, <1>6, OrderKeptByHandled, OrderKeptWithout, ServicesDistinct
    DEF EngineStep, EvaluateMode, delivery
  <1>8. ReadingTyped'
    BY <1>5, <1>6, <1>7 DEF Handled, TypeInv, ReadingTyped, PositionsTyped, delivery
  <1>9. MemoryTyped'
    BY DEF EngineStep, EvaluateMode, TypeInv, MemoryTyped, managerVars, portfolio, botVars
  <1>10. position'[Manager] = position[Manager] /\ position'[Bot] = position[Bot]
    BY <1>6, ServicesDistinct DEF Handled, delivery, TypeInv, ReadingTyped
  <1>11. InHand'
    <2>1. sending' = sending /\ reporting' = reporting /\ plans' = plans
      BY DEF EngineStep, EvaluateMode, managerVars, botVars
    <2>2. /\ Len(Inbox(Manager)) \in Nat /\ Len(Inbox(Manager)') \in Nat
          /\ Len(Inbox(Manager)') >= Len(Inbox(Manager))
          /\ Inbox(Bot)' = Inbox(Bot) /\ position[Manager] \in Nat
      BY <1>5, <2>1, InboxesGrow, InboxIs, ServicesDistinct
      DEF TypeInv, ReadingTyped, Inbox
    <2>3. HasMessage(Manager) => HasMessage(Manager)'
      BY <2>2, <1>10 DEF HasMessage
    <2>4. HasMessage(Bot) => HasMessage(Bot)'
      BY <2>2, <1>10 DEF HasMessage
    <2> QED
      BY <2>1, <2>3, <2>4 DEF TypeInv, InHand
  <1> QED
    BY <1>5, <1>7, <1>8, <1>9, <1>11 DEF Sound, TypeInv

\* A refused evaluation is no plan; an accepted one becomes the plan in hand.
LEMMA PlanBuilt ==
  ASSUME TypeInv, NEW e \in Evaluation
  PROVE  /\ BuildExecutionPlan(e) \in Plan
         /\ BuildExecutionPlan(e).size <= e.size
         /\ BuildExecutionPlan(e).size <= MaxSingleTradePercent
  BY PortfolioAssumption
  DEF BuildExecutionPlan, ConstrainedSize, Oversized, Plan, Evaluation, TypeInv, TopicsTyped

LEMMA ManagerStepSound ==
  ASSUME TypeInv, ManagerStep
  PROVE  Sound
  <1> USE DEF ManagerStep
  <1>1. UNCHANGED <<signals, candidates, evaluations, results, restarts, rejoins,
                    engineMode, botVars>>
    BY DEF RefuseEvaluation, AcceptEvaluation, EmitPlan, UpdatePortfolio, Handled, delivery,
           messagingVars
  <1>2. sending \in [phase : {"idle", "sending", "sent"}, plan : Plan] /\ sending.plan \in Plan
    BY DEF TypeInv, MemoryTyped
  <1>3. Idle \in [phase : {"idle", "sending", "sent"}, plan : Plan]
    BY DEF Idle, NoPlan, Plan, ModeNames
  <1>4. /\ plans' \in Seq(Plan) /\ Extends(plans', plans)
        /\ sendFaults' \in Nat
    <2>1. CASE UNCHANGED <<plans, sendFaults>>
      BY <2>1, Unchanged DEF TypeInv, TopicsTyped, ReadingTyped
    <2>2. CASE EmitPlan
      BY <2>2, <1>2, Sent DEF EmitPlan, TypeInv, TopicsTyped, ReadingTyped
    <2> QED
      BY <2>1, <2>2 DEF RefuseEvaluation, AcceptEvaluation, UpdatePortfolio, messagingVars
  <1>5. TopicsTyped' /\ TopicsExtended
    BY <1>1, <1>4, Unchanged DEF TypeInv, TopicsTyped, TopicsExtended
  <1>6. HasMessage(Manager)
    BY DEF RefuseEvaluation, AcceptEvaluation, EmitPlan, UpdatePortfolio, TypeInv, InHand
  <1>7. UNCHANGED delivery \/ (Handled(Manager) /\ sending'.phase = "idle")
    BY <1>2 DEF RefuseEvaluation, AcceptEvaluation, EmitPlan, UpdatePortfolio, managerVars,
                messagingVars, Idle
  <1>8. PositionsTyped' /\ ReadInOrder'
    BY <1>5, <1>6, <1>7, OrderKeptByHandled, OrderKeptWithout, ServicesDistinct DEF delivery
  <1>9. ReadingTyped'
    BY <1>1, <1>4, <1>8 DEF TypeInv, ReadingTyped, PositionsTyped
  <1>10. MemoryTyped'
    <2>1. CASE RefuseEvaluation
      BY <2>1, <1>1 DEF RefuseEvaluation, TypeInv, MemoryTyped, managerVars, portfolio, botVars
    <2>2. CASE AcceptEvaluation
      <3>1. evaluations[Current(Manager)] \in Evaluation
        BY <1>6, InboxIs, ServicesDistinct
        DEF HasMessage, Current, TypeInv, TopicsTyped, ReadingTyped
      <3>2. sending' \in [phase : {"idle", "sending", "sent"}, plan : Plan]
        BY <2>2, <3>1, PlanBuilt DEF AcceptEvaluation
      <3> QED
        BY <2>2, <1>1, <3>2 DEF AcceptEvaluation, TypeInv, MemoryTyped, portfolio, botVars
    <2>3. CASE EmitPlan
      <3>1. sending' \in [phase : {"idle", "sending", "sent"}, plan : Plan]
        BY <2>3, <1>2, <1>3 DEF EmitPlan
      <3> QED
        BY <2>3, <1>1, <3>1 DEF EmitPlan, TypeInv, MemoryTyped, portfolio, botVars
    <2>4. CASE UpdatePortfolio
      <3>1. sending.plan.opportunity \in Nat /\ sending.plan.size \in Nat
        BY <1>2 DEF Plan
      <3>2. openPositions' \in Seq(Nat)
        BY <2>4, <3>1 DEF UpdatePortfolio, TypeInv, MemoryTyped
      <3>3. bridgeExposure' \in [known : BOOLEAN, percent : Nat]
        BY <2>4, <3>1 DEF UpdatePortfolio, Booked, TypeInv, MemoryTyped
      <3> QED
        BY <2>4, <1>1, <1>3, <3>2, <3>3 DEF UpdatePortfolio, TypeInv, MemoryTyped, botVars
    <2> QED
      BY <2>1, <2>2, <2>3, <2>4
  <1>11. InHand'
    <2>1. Inbox(Manager)' = Inbox(Manager)
      BY <1>1, InboxIs DEF Inbox
    <2>2. sending'.phase # "idle" => HasMessage(Manager)'
      BY <1>6, <1>7, <2>1 DEF HasMessage, delivery
    <2>3. position'[Bot] = position[Bot]
      BY <1>7, ServicesDistinct DEF Handled, delivery, TypeInv, ReadingTyped
    <2>4. /\ Len(Inbox(Bot)) \in Nat /\ Len(Inbox(Bot)') \in Nat
          /\ Len(Inbox(Bot)') >= Len(Inbox(Bot)) /\ position[Bot] \in Nat
      BY <1>5, InboxesGrow, ServicesDistinct DEF TypeInv, ReadingTyped
    <2>5. HasMessage(Bot) => HasMessage(Bot)'
      BY <2>3, <2>4 DEF HasMessage
    <2> QED
      BY <1>1, <2>2, <2>5 DEF TypeInv, InHand, botVars
  <1> QED
    BY <1>5, <1>8, <1>9, <1>10, <1>11 DEF Sound, TypeInv

LEMMA BotStepSound ==
  ASSUME TypeInv, BotStep
  PROVE  Sound
  <1>1. UNCHANGED <<signals, candidates, evaluations, plans, restarts, rejoins,
                    engineMode, managerVars>>
    BY DEF BotStep, ExecuteTrade, EmitResult, Handled, delivery
  <1>2. HasMessage(Bot)
    BY DEF BotStep, ExecuteTrade, EmitResult, TypeInv, InHand
  <1>3. Current(Bot) \in 1 .. Len(plans)
    BY <1>2, InboxIs, ServicesDistinct
    DEF HasMessage, Current, TypeInv, TopicsTyped, ReadingTyped
  <1>4. [plan |-> plans[Current(Bot)].id] \in Result
    <2>1. plans[Current(Bot)] \in Plan
      BY <1>3 DEF TypeInv, TopicsTyped
    <2> QED
      BY <2>1 DEF Plan, Result
  <1>5. results' \in Seq(Result) /\ Extends(results', results) /\ sendFaults' \in Nat
    <2>1. CASE ExecuteTrade
      BY <2>1, Unchanged DEF ExecuteTrade, TypeInv, TopicsTyped, ReadingTyped
    <2>2. CASE EmitResult
      BY <2>2, <1>4, Sent DEF EmitResult, TypeInv, TopicsTyped, ReadingTyped
    <2> QED
      BY <2>1, <2>2 DEF BotStep
  <1>6. TopicsTyped' /\ TopicsExtended
    BY <1>1, <1>5, Unchanged DEF TypeInv, TopicsTyped, TopicsExtended
  <1>7. UNCHANGED delivery \/ (Handled(Bot) /\ ~reporting')
    BY DEF BotStep, ExecuteTrade, EmitResult, botVars
  <1>8. PositionsTyped' /\ ReadInOrder'
    BY <1>2, <1>6, <1>7, OrderKeptByHandled, OrderKeptWithout, ServicesDistinct DEF delivery
  <1>9. ReadingTyped'
    BY <1>1, <1>5, <1>8 DEF TypeInv, ReadingTyped, PositionsTyped
  <1>10. MemoryTyped'
    <2>1. trades \in Seq(Nat) /\ reporting \in BOOLEAN /\ Append(trades, Current(Bot)) \in Seq(Nat)
      BY <1>3 DEF TypeInv, MemoryTyped
    <2>2. trades' \in Seq(Nat) /\ reporting' \in BOOLEAN
      BY <2>1 DEF BotStep, ExecuteTrade, EmitResult, botVars
    <2> QED
      BY <1>1, <2>2 DEF TypeInv, MemoryTyped, managerVars, portfolio
  <1>11. InHand'
    <2>1. Inbox(Manager)' = Inbox(Manager) /\ Inbox(Bot)' = Inbox(Bot)
      BY <1>1, InboxIs DEF Inbox
    <2>2. position'[Manager] = position[Manager]
      BY <1>7, ServicesDistinct DEF Handled, delivery, TypeInv, ReadingTyped
    <2>3. reporting' => HasMessage(Bot)'
      BY <1>2, <1>7, <2>1 DEF HasMessage, delivery
    <2> QED
      BY <1>1, <2>1, <2>2, <2>3 DEF TypeInv, InHand, HasMessage, managerVars
  <1> QED
    BY <1>6, <1>8, <1>9, <1>10, <1>11 DEF Sound, TypeInv

LEMMA RereadSound ==
  ASSUME TypeInv, Restart \/ RejoinStep
  PROVE  Sound
  <1>1. PICK s \in Services :
          /\ ReadAgain(s)
          /\ UNCHANGED trades
          /\ restarts' \in Nat /\ rejoins' \in Nat
          /\ s = Manager => sending'.phase = "idle"
          /\ s = Bot => ~reporting'
          /\ s # Manager => UNCHANGED managerVars
          /\ s # Bot => UNCHANGED reporting
          /\ MemoryTyped'
    <2>1. Idle \in [phase : {"idle", "sending", "sent"}, plan : Plan] /\ Idle.phase = "idle"
      BY DEF Idle, NoPlan, Plan, ModeNames
    <2>2. NoEntry \in [known : BOOLEAN, percent : Nat] /\ << >> \in Seq(Nat)
      BY DEF NoEntry
    <2>3. CASE RestartConstructor
      <3>1. ReadAgain(Constructor) /\ restarts' \in Nat /\ rejoins' \in Nat
        BY <2>3 DEF RestartConstructor, Restarted, TypeInv, ReadingTyped
      <3>2. UNCHANGED <<engineMode, managerVars, botVars>>
        BY <2>3 DEF RestartConstructor
      <3> QED
        BY <3>1, <3>2, ServicesDistinct DEF TypeInv, MemoryTyped, managerVars, portfolio, botVars
    <2>4. CASE RestartEngine
      <3>1. ReadAgain(Engine) /\ restarts' \in Nat /\ rejoins' \in Nat
        BY <2>4 DEF RestartEngine, Restarted, TypeInv, ReadingTyped
      <3>2. engineMode' = 1 /\ UNCHANGED <<managerVars, botVars>>
        BY <2>4 DEF RestartEngine
      <3> QED
        BY <3>1, <3>2, ServicesDistinct DEF TypeInv, MemoryTyped, managerVars, portfolio, botVars
    <2>5. CASE RestartManager
      <3>1. ReadAgain(Manager) /\ restarts' \in Nat /\ rejoins' \in Nat
        BY <2>5 DEF RestartManager, Restarted, TypeInv, ReadingTyped
      <3>2. /\ bridgeExposure' = NoEntry /\ openPositions' = << >> /\ sending' = Idle
            /\ UNCHANGED <<engineMode, botVars>>
        BY <2>5 DEF RestartManager, ManagerMemoryLost
      <3> QED
        BY <3>1, <3>2, <2>1, <2>2, ServicesDistinct DEF TypeInv, MemoryTyped, botVars
    <2>6. CASE RestartBot
      <3>1. ReadAgain(Bot) /\ restarts' \in Nat /\ rejoins' \in Nat
        BY <2>6 DEF RestartBot, Restarted, TypeInv, ReadingTyped
      <3>2. reporting' = FALSE /\ UNCHANGED <<engineMode, managerVars, trades>>
        BY <2>6 DEF RestartBot
      <3> QED
        BY <3>1, <3>2, ServicesDistinct DEF TypeInv, MemoryTyped, managerVars, portfolio
    <2>7. CASE RejoinStep
      <3>1. PICK s \in Services : BetweenMessages(s) /\ Rejoined(s)
        BY <2>7 DEF RejoinStep
      <3>2. ReadAgain(s) /\ restarts' \in Nat /\ rejoins' \in Nat
        BY <3>1 DEF Rejoined, TypeInv, ReadingTyped
      <3>3. UNCHANGED <<engineMode, managerVars, botVars>>
        BY <2>7 DEF RejoinStep
      <3>4. MemoryTyped'
        BY <3>3 DEF TypeInv, MemoryTyped, managerVars, portfolio, botVars
      <3> QED
        BY <3>1, <3>2, <3>3, <3>4, <2>1 DEF BetweenMessages, managerVars, botVars
    <2> QED
      BY <2>3, <2>4, <2>5, <2>6, <2>7 DEF Restart
  <1>2. TopicsTyped' /\ TopicsExtended /\ PositionsTyped' /\ ReadInOrder'
    BY <1>1, OrderKeptByReadAgain
  <1>3. ReadingTyped'
    BY <1>1, <1>2 DEF ReadAgain, TypeInv, ReadingTyped, PositionsTyped
  <1>4. InHand'
    <2>1. \A r \in Services : r # s => position'[r] = position[r]
      BY <1>1, OrderKeptByReadAgain
    <2>2. Inbox(Manager)' = Inbox(Manager) /\ Inbox(Bot)' = Inbox(Bot)
      BY <1>1 DEF ReadAgain, Inbox
    <2>3. sending'.phase # "idle" => HasMessage(Manager)'
      BY <1>1, <2>1, <2>2, ServicesDistinct DEF TypeInv, InHand, HasMessage, managerVars
    <2>4. reporting' => HasMessage(Bot)'
      BY <1>1, <2>1, <2>2, ServicesDistinct DEF TypeInv, InHand, HasMessage
    <2> QED
      BY <2>3, <2>4 DEF InHand
  <1> QED
    BY <1>1, <1>2, <1>3, <1>4 DEF Sound, TypeInv

LEMMA TypeInvInit == Init => TypeInv
  <1> SUFFICES ASSUME Init PROVE TypeInv
    OBVIOUS
  <1>1. TopicsTyped
    BY DEF Init, MessagingInit, TopicsTyped
  <1>2. ReadingTyped
    BY DEF Init, MessagingInit, ReadingTyped, NoOffset
  <1>3. MemoryTyped
    <2>1. Idle \in [phase : {"idle", "sending", "sent"}, plan : Plan]
      BY DEF Idle, NoPlan, Plan, ModeNames
    <2>2. NoEntry \in [known : BOOLEAN, percent : Nat] /\ << >> \in Seq(Nat)
      BY DEF NoEntry
    <2> QED
      BY <2>1, <2>2 DEF Init, RiskInit, ManagerInit, BotInit, MemoryTyped
  <1>4. \A s \in Services : Len(Inbox(s)) = 0
    BY InboxIs, ServicesDistinct DEF Init, MessagingInit, Inbox, Services
  <1>5. ReadInOrder
    BY <1>4 DEF Init, MessagingInit, ReadInOrder, NoOffset
  <1>6. InHand
    BY DEF Init, ManagerInit, BotInit, Idle, InHand
  <1> QED
    BY <1>1, <1>2, <1>3, <1>5, <1>6 DEF TypeInv

LEMMA StepSound == TypeInv /\ [Next]_vars => Sound
  <1> SUFFICES ASSUME TypeInv, [Next]_vars PROVE Sound
    OBVIOUS
  <1>1. CASE UNCHANGED vars
    <2>1. TopicsTyped' /\ TopicsExtended
      BY <1>1, Unchanged DEF vars, messagingVars, TypeInv, TopicsTyped, TopicsExtended
    <2>2. ReadingTyped' /\ MemoryTyped'
      BY <1>1 DEF vars, messagingVars, delivery, managerVars, portfolio, botVars, TypeInv,
                  ReadingTyped, MemoryTyped
    <2>3. ReadInOrder' /\ InHand'
      BY <1>1 DEF vars, messagingVars, delivery, managerVars, portfolio, botVars, TypeInv,
                  ReadInOrder, InHand, HasMessage, Inbox
    <2> QED
      BY <2>1, <2>2, <2>3 DEF Sound, TypeInv
  <1> QED
    BY <1>1, PublishSignalSound, ConstructorStepSound, EngineStepSound, ManagerStepSound,
       BotStepSound, RereadSound DEF Next

\* The types of the pipeline's state, and that no service reads behind the end
\* of its inbox.
THEOREM PipelineTypeCorrect == Spec => []TypeOK
  <1>1. TypeInv => TypeOK
    BY DEF TypeInv, TopicsTyped, ReadingTyped, MemoryTyped, ReadInOrder, TypeOK
  <1>2. TypeInv /\ [Next]_vars => TypeInv'
    BY StepSound DEF Sound
  <1> QED
    BY TypeInvInit, <1>1, <1>2, PTL DEF Spec
-----------------------------------------------------------------------------
\* Provenance.

\* Between the decision and the end of the send, the plan is in hand only.
PlanInHandJustified ==
    sending.phase # "idle" =>
        PlanJustified(sending.plan, evaluations) /\ sending.plan.approved

EveryPlanApproved == \A i \in DOMAIN plans : plans[i].approved

JustifiedInv == EveryTradeJustified /\ PlanInHandJustified /\ EveryPlanApproved

\* What a topic justified once, it justifies for good.
LEMMA JustifiedForGood ==
  ASSUME NEW S, NEW topic \in Seq(S), NEW longer \in Seq(S), Extends(longer, topic), NEW m
  PROVE  /\ CandidateJustified(m, topic) => CandidateJustified(m, longer)
         /\ EvaluationJustified(m, topic) => EvaluationJustified(m, longer)
         /\ PlanJustified(m, topic) => PlanJustified(m, longer)
  <1>1. \A i \in DOMAIN topic : i \in DOMAIN longer /\ longer[i] = topic[i]
    BY DEF Extends
  <1> QED
    BY <1>1 DEF CandidateJustified, EvaluationJustified, PlanJustified

\* A step that appends only justified messages to a topic keeps it justified.
LEMMA CandidatesJustified ==
  ASSUME TypeInv, Sound, JustifiedInv, [Next]_vars
  PROVE  \A i \in DOMAIN candidates' : CandidateJustified(candidates'[i], signals')
  <1>1. \A m : CandidateJustified(m, signals) => CandidateJustified(m, signals')
    BY JustifiedForGood DEF Sound, TypeInv, TopicsTyped, TopicsExtended
  <1>2. \A i \in DOMAIN candidates : CandidateJustified(candidates[i], signals)
    BY DEF JustifiedInv, EveryTradeJustified
  <1>3. CASE UNCHANGED candidates
    BY <1>1, <1>2, <1>3
  <1>4. CASE ConstructorStep /\ candidates' # candidates
    <2> DEFINE i == Current(Constructor)
               c == NewCandidate(i)
    <2>1. i \in DOMAIN signals
      BY <1>4, InboxIs, ServicesDistinct
      DEF ConstructorStep, Construct, HasMessage, Current, TypeInv, TopicsTyped, ReadingTyped
    <2>2. Suggested(signals[i].capacity) >= MinSize
      BY <1>4 DEF ConstructorStep, Construct
    <2>3. CandidateJustified(c, signals)
      BY <2>1, <2>2 DEF NewCandidate, CandidateJustified
    <2>4. c \in Candidate
      <3>1. signals[i] \in Signal
        BY <2>1 DEF TypeInv, TopicsTyped
      <3>2. Suggested(signals[i].capacity) \in Nat
        BY <3>1, SuggestedTyped DEF Signal
      <3>3. i \in Nat /\ Len(candidates) + 1 \in Nat
        BY <2>1 DEF TypeInv, TopicsTyped
      <3> QED
        BY <3>2, <3>3 DEF NewCandidate, Candidate
    <2>5. PICK outcome \in SendOutcomes(candidates, c) : candidates' = outcome.topic
      BY <1>4 DEF ConstructorStep, Construct
    <2>6. /\ \A k \in 1 .. Len(candidates') : k \in 1 .. Len(candidates) \/ candidates'[k] = c
          /\ Extends(candidates', candidates) /\ candidates' \in Seq(Candidate)
      BY <2>4, <2>5, Sent DEF TypeInv, TopicsTyped
    <2>7. \A k \in DOMAIN candidates' : CandidateJustified(candidates'[k], signals)
      BY <1>2, <2>3, <2>6 DEF Extends
    <2> QED
      BY <1>1, <2>7
  <1> QED
    BY <1>3, <1>4
    DEF Next, PublishSignal, ConstructorStep, EngineStep, EvaluateMode, ManagerStep,
        RefuseEvaluation, AcceptEvaluation, EmitPlan, UpdatePortfolio, BotStep, ExecuteTrade,
        EmitResult, Restart, RestartConstructor, RestartEngine, RestartManager, RestartBot,
        Restarted, RejoinStep, Rejoined, ReadAgain, vars, messagingVars

LEMMA EvaluationsJustified ==
  ASSUME TypeInv, Sound, JustifiedInv, [Next]_vars
  PROVE  \A i \in DOMAIN evaluations' : EvaluationJustified(evaluations'[i], candidates')
  <1>1. \A m : EvaluationJustified(m, candidates) => EvaluationJustified(m, candidates')
    BY JustifiedForGood DEF Sound, TypeInv, TopicsTyped, TopicsExtended
  <1>2. \A i \in DOMAIN evaluations : EvaluationJustified(evaluations[i], candidates)
    BY DEF JustifiedInv, EveryTradeJustified
  <1>3. CASE UNCHANGED evaluations
    BY <1>1, <1>2, <1>3
  <1>4. CASE EngineStep
    <2> DEFINE i == Current(Engine)
    <2>1. i \in DOMAIN candidates
      BY <1>4, InboxIs, ServicesDistinct
      DEF EngineStep, EvaluateMode, HasMessage, Current, TypeInv, TopicsTyped, ReadingTyped
    <2>2. candidates[i] \in Candidate /\ Modes[engineMode] \in ModeNames
      BY <2>1 DEF TypeInv, TopicsTyped, MemoryTyped, Modes, ModeNames
    <2>3. PICK e \in Evaluations(candidates[i], Modes[engineMode]) :
            \E outcome \in SendOutcomes(evaluations, e) : evaluations' = outcome.topic
      BY <1>4 DEF EngineStep, EvaluateMode
    <2>4. e \in Evaluation /\ EvaluationJustified(e, candidates)
      BY <2>1, <2>2, EvaluationTyped DEF EvaluationJustified
    <2>5. /\ \A k \in 1 .. Len(evaluations') : k \in 1 .. Len(evaluations) \/ evaluations'[k] = e
          /\ Extends(evaluations', evaluations) /\ evaluations' \in Seq(Evaluation)
      BY <2>3, <2>4, Sent DEF TypeInv, TopicsTyped
    <2>6. \A k \in DOMAIN evaluations' : EvaluationJustified(evaluations'[k], candidates)
      BY <1>2, <2>4, <2>5 DEF Extends
    <2> QED
      BY <1>1, <2>6
  <1> QED
    BY <1>3, <1>4
    DEF Next, PublishSignal, ConstructorStep, Construct, ManagerStep,
        RefuseEvaluation, AcceptEvaluation, EmitPlan, UpdatePortfolio, BotStep, ExecuteTrade,
        EmitResult, Restart, RestartConstructor, RestartEngine, RestartManager, RestartBot,
        Restarted, RejoinStep, Rejoined, ReadAgain, vars, messagingVars

LEMMA PlansJustified ==
  ASSUME TypeInv, Sound, JustifiedInv, [Next]_vars
  PROVE  /\ \A i \in DOMAIN plans' : PlanJustified(plans'[i], evaluations')
         /\ EveryPlanApproved' /\ PlanInHandJustified'
  <1>1. \A m : PlanJustified(m, evaluations) => PlanJustified(m, evaluations')
    BY JustifiedForGood DEF Sound, TypeInv, TopicsTyped, TopicsExtended
  <1>2. /\ \A i \in DOMAIN plans : PlanJustified(plans[i], evaluations)
        /\ \A i \in DOMAIN plans : plans[i].approved
    BY DEF JustifiedInv, EveryTradeJustified, EveryPlanApproved
  <1>3. CASE UNCHANGED <<plans, sending>>
    BY <1>1, <1>2, <1>3 DEF JustifiedInv, PlanInHandJustified, EveryPlanApproved
  <1>4. CASE RestartManager
    BY <1>1, <1>2, <1>4
    DEF RestartManager, Restarted, ReadAgain, ManagerMemoryLost, Idle, PlanInHandJustified,
        EveryPlanApproved
  <1>5. CASE AcceptEvaluation
    <2> DEFINE e == evaluations[Current(Manager)]
    <2>1. Current(Manager) \in DOMAIN evaluations
      BY <1>5, InboxIs, ServicesDistinct
      DEF AcceptEvaluation, HasMessage, Current, TypeInv, TopicsTyped, ReadingTyped
    <2>2. e \in Evaluation /\ e.approved
      BY <1>5, <2>1 DEF AcceptEvaluation, Refused, TypeInv, TopicsTyped
    <2>3. PlanJustified(BuildExecutionPlan(e), evaluations) /\ BuildExecutionPlan(e).approved
      BY <2>1, <2>2, PlanBuilt DEF PlanJustified, BuildExecutionPlan
    <2>4. sending'.plan = BuildExecutionPlan(e) /\ UNCHANGED <<plans, evaluations>>
      BY <1>5 DEF AcceptEvaluation, messagingVars
    <2> QED
      BY <1>2, <2>3, <2>4 DEF PlanInHandJustified, EveryPlanApproved
  <1>6. CASE EmitPlan
    <2>1. sending.plan \in Plan /\ PlanJustified(sending.plan, evaluations) /\ sending.plan.approved
      BY <1>6 DEF EmitPlan, TypeInv, MemoryTyped, JustifiedInv, PlanInHandJustified
    <2>2. PICK outcome \in SendOutcomes(plans, sending.plan) : plans' = outcome.topic
      BY <1>6 DEF EmitPlan
    <2>3. /\ \A k \in 1 .. Len(plans') : k \in 1 .. Len(plans) \/ plans'[k] = sending.plan
          /\ Extends(plans', plans) /\ plans' \in Seq(Plan)
      BY <2>1, <2>2, Sent DEF TypeInv, TopicsTyped
    <2>4. \A k \in DOMAIN plans' : PlanJustified(plans'[k], evaluations) /\ plans'[k].approved
      BY <1>2, <2>1, <2>3 DEF Extends
    <2>5. sending'.phase # "idle" => sending'.plan = sending.plan
      <3>1. sending \in [phase : {"idle", "sending", "sent"}, plan : Plan]
        BY DEF TypeInv, MemoryTyped
      <3> QED
        BY <1>6, <3>1 DEF EmitPlan, Idle
    <2>6. evaluations' = evaluations
      BY <1>6 DEF EmitPlan
    <2> QED
      BY <2>1, <2>4, <2>5, <2>6 DEF PlanInHandJustified, EveryPlanApproved
  <1>7. CASE UpdatePortfolio
    BY <1>2, <1>7 DEF UpdatePortfolio, Idle, PlanInHandJustified, EveryPlanApproved
  <1> QED
    BY <1>3, <1>4, <1>5, <1>6, <1>7
    DEF Next, PublishSignal, ConstructorStep, Construct, EngineStep, EvaluateMode, ManagerStep,
        RefuseEvaluation, BotStep, ExecuteTrade, EmitResult, Restart, RestartConstructor,
        RestartEngine, RestartBot, Restarted, RejoinStep, Rejoined, ReadAgain, vars,
        messagingVars, managerVars

LEMMA TradesJustified ==
  ASSUME TypeInv, Sound, JustifiedInv, [Next]_vars, EveryPlanApproved'
  PROVE  \A k \in DOMAIN trades' : trades'[k] \in DOMAIN plans' /\ plans'[trades'[k]].approved
  <1>1. \A i \in DOMAIN plans : i \in DOMAIN plans'
    BY DEF Sound, TypeInv, TopicsTyped, TopicsExtended, Extends
  <1>2. \A k \in DOMAIN trades : trades[k] \in DOMAIN plans
    BY DEF JustifiedInv, EveryTradeJustified
  <1>3. \A k \in DOMAIN trades' : trades'[k] \in DOMAIN plans'
    <2>1. CASE UNCHANGED trades
      BY <1>1, <1>2, <2>1
    <2>2. CASE trades' = Append(trades, Current(Bot)) /\ HasMessage(Bot)
      <3>1. Current(Bot) \in DOMAIN plans
        BY <2>2, InboxIs, ServicesDistinct
        DEF HasMessage, Current, TypeInv, TopicsTyped, ReadingTyped
      <3>2. trades \in Seq(Nat) /\ Current(Bot) \in Nat
        BY <3>1 DEF TypeInv, MemoryTyped, TopicsTyped
      <3>3. \A k \in DOMAIN trades' : (k \in DOMAIN trades /\ trades'[k] = trades[k])
                                     \/ trades'[k] = Current(Bot)
        BY <2>2, <3>2
      <3> QED
        BY <1>1, <1>2, <3>1, <3>3
    <2> QED
      BY <2>1, <2>2
      DEF Next, PublishSignal, ConstructorStep, EngineStep, ManagerStep, BotStep, ExecuteTrade,
          EmitResult, Restart, RestartConstructor, RestartEngine, RestartManager, RestartBot,
          RejoinStep, vars, botVars
  <1> QED
    BY <1>3 DEF EveryPlanApproved

LEMMA JustifiedInit == Init => JustifiedInv
  BY DEF Init, MessagingInit, ManagerInit, BotInit, Idle, JustifiedInv, EveryTradeJustified,
         PlanInHandJustified, EveryPlanApproved

LEMMA JustifiedStep == TypeInv /\ JustifiedInv /\ [Next]_vars => TypeInv' /\ JustifiedInv'
  <1> SUFFICES ASSUME TypeInv, JustifiedInv, [Next]_vars PROVE TypeInv' /\ JustifiedInv'
    OBVIOUS
  <1>1. Sound
    BY StepSound
  <1>2. EveryTradeJustified' /\ EveryPlanApproved' /\ PlanInHandJustified'
    BY <1>1, CandidatesJustified, EvaluationsJustified, PlansJustified, TradesJustified
    DEF EveryTradeJustified
  <1> QED
    BY <1>1, <1>2 DEF Sound, JustifiedInv

\* Every trade goes back to a signal through messages that allow it, whatever
\* the sizes, the limits, and the number of messages lost, doubled or replayed.
THEOREM PipelineProvenance == Spec => []EveryTradeJustified
  <1>1. JustifiedInv => EveryTradeJustified
    BY DEF JustifiedInv
  <1> QED
    BY TypeInvInit, JustifiedInit, JustifiedStep, <1>1, PTL DEF Spec
-----------------------------------------------------------------------------
\* The books and the bridge limit.

LimitApplies ==
    /\ MaxSingleTradePercent <= MaxBridgeExposurePercent
    /\ \A i \in DOMAIN evaluations : ~Oversized(evaluations[i])

\* A bridge plan in hand still fits: nothing is booked between the decision and
\* the booking of the plan decided on.
PlanInHandFits ==
    sending.phase # "idle" /\ sending.plan.mode = "bridge_based" =>
        bridgeExposure.percent + sending.plan.size <= MaxBridgeExposurePercent

BooksInv ==
    /\ ~bridgeExposure.known => bridgeExposure.percent = 0
    /\ LimitApplies => PlanInHandFits /\ bridgeExposure.percent <= MaxBridgeExposurePercent

LEMMA LimitAppliedBefore ==
  ASSUME TypeInv, Sound, LimitApplies'
  PROVE  LimitApplies
  <1>1. /\ evaluations \in Seq(Evaluation) /\ evaluations' \in Seq(Evaluation)
        /\ Extends(evaluations', evaluations)
    BY DEF Sound, TypeInv, TopicsTyped, TopicsExtended
  <1>2. \A i \in DOMAIN evaluations : i \in DOMAIN evaluations' /\ evaluations'[i] = evaluations[i]
    BY <1>1 DEF Extends
  <1> QED
    BY <1>2 DEF LimitApplies, Oversized

LEMMA BooksStep ==
  ASSUME TypeInv, Sound, BooksInv, [Next]_vars
  PROVE  BooksInv'
  <1>1. /\ bridgeExposure \in [known : BOOLEAN, percent : Nat]
        /\ sending \in [phase : {"idle", "sending", "sent"}, plan : Plan]
        /\ sending.plan \in Plan
    BY DEF TypeInv, MemoryTyped
  <1>2. LimitApplies' => LimitApplies
    BY LimitAppliedBefore
  <1>3. CASE UNCHANGED <<bridgeExposure, sending>>
    BY <1>2, <1>3 DEF BooksInv, PlanInHandFits
  <1>4. CASE RestartManager
    BY <1>4, PortfolioAssumption
    DEF RestartManager, ManagerMemoryLost, NoEntry, Idle, BooksInv, PlanInHandFits
  <1>5. CASE AcceptEvaluation
    <2> DEFINE e == evaluations[Current(Manager)]
    <2>1. Current(Manager) \in DOMAIN evaluations
      BY <1>5, InboxIs, ServicesDistinct
      DEF AcceptEvaluation, HasMessage, Current, TypeInv, TopicsTyped, ReadingTyped
    <2>2. e \in Evaluation /\ e.size \in Nat
      <3>1. e \in Evaluation
        BY <2>1 DEF TypeInv, TopicsTyped
      <3> QED
        BY <3>1 DEF Evaluation
    <2>3. /\ sending'.plan.mode = e.mode /\ sending'.plan.size = ConstrainedSize(e)
          /\ bridgeExposure' = bridgeExposure
      BY <1>5 DEF AcceptEvaluation, BuildExecutionPlan, portfolio
    <2>4. LimitApplies => e.size <= MaxSingleTradePercent /\ ConstrainedSize(e) = e.size
      BY <2>1, <2>2, PortfolioAssumption DEF LimitApplies, Oversized, ConstrainedSize
    <2>5. LimitApplies /\ e.mode = "bridge_based" =>
            bridgeExposure.percent + e.size <= MaxBridgeExposurePercent
      <3>1. CASE bridgeExposure.known
        BY <1>1, <1>5, <2>1, <2>2, <3>1, PortfolioAssumption
        DEF AcceptEvaluation, Refused, OverBridgeLimit, LimitApplies
      <3>2. CASE ~bridgeExposure.known
        BY <2>2, <2>4, <3>2, PortfolioAssumption DEF BooksInv, LimitApplies
      <3> QED
        BY <3>1, <3>2
    <2> QED
      BY <1>2, <2>3, <2>4, <2>5 DEF BooksInv, PlanInHandFits
  <1>6. CASE EmitPlan
    <2>1. bridgeExposure' = bridgeExposure
      BY <1>6 DEF EmitPlan, portfolio
    <2>2. sending'.phase # "idle" => sending'.plan = sending.plan
      BY <1>1, <1>6 DEF EmitPlan, Idle
    <2>3. sending.phase # "idle"
      BY <1>6 DEF EmitPlan
    <2> QED
      BY <1>2, <2>1, <2>2, <2>3 DEF BooksInv, PlanInHandFits
  <1>7. CASE UpdatePortfolio
    <2>1. sending' = Idle /\ sending.phase = "sent"
      BY <1>7 DEF UpdatePortfolio
    <2>2. PlanInHandFits'
      BY <2>1 DEF Idle, PlanInHandFits
    <2>3. CASE sending.plan.mode = "bridge_based"
      <3>1. bridgeExposure' = [known |-> TRUE, percent |-> bridgeExposure.percent + sending.plan.size]
        BY <1>7, <2>3 DEF UpdatePortfolio, Booked
      <3> QED
        BY <1>2, <2>1, <2>2, <2>3, <3>1 DEF BooksInv, PlanInHandFits
    <2>4. CASE sending.plan.mode # "bridge_based"
      BY <1>2, <1>7, <2>2, <2>4 DEF UpdatePortfolio, BooksInv
    <2> QED
      BY <2>3, <2>4
  <1> QED
    BY <1>3, <1>4, <1>5, <1>6, <1>7
    DEF Next, PublishSignal, ConstructorStep, EngineStep, ManagerStep, RefuseEvaluation, BotStep,
        Restart, RestartConstructor, RestartEngine, RestartBot, RejoinStep, vars, managerVars,
        portfolio

\* Whatever the limits and the sizes, and also across restarts and replays, the
\* books stay within the bridge limit as long as no trade has to be cut.
THEOREM BooksWithinBridgeLimit == Spec => []BookedWithinLimit
  <1>1. Init => BooksInv
    BY PortfolioAssumption DEF Init, ManagerInit, NoEntry, Idle, BooksInv, PlanInHandFits
  <1>2. TypeInv /\ BooksInv /\ [Next]_vars => TypeInv' /\ BooksInv'
    BY StepSound, BooksStep DEF Sound
  <1>3. BooksInv => BookedWithinLimit
    BY DEF BooksInv, LimitApplies, BookedWithinLimit
  <1> QED
    BY TypeInvInit, <1>1, <1>2, <1>3, PTL DEF Spec
-----------------------------------------------------------------------------
\* At least once.

\* A step of the pipeline, as the bot's inbox and the bot see it.
BotUntouched == UNCHANGED <<trades, reporting>> /\ position'[Bot] = position[Bot]
                                               /\ offset'[Bot] = offset[Bot]

BotReread == ReadAgain(Bot) /\ UNCHANGED <<trades, plans>> /\ ~reporting'

LEMMA BotView ==
  ASSUME TypeInv, [Next]_vars
  PROVE  \/ BotUntouched /\ (UNCHANGED plans \/ EmitPlan) /\ restarts' + rejoins' >= restarts + rejoins
         \/ BotReread /\ restarts' + rejoins' = restarts + rejoins + 1
         \/ BotStep
  <1> USE DEF BotUntouched
  <1>1. restarts \in Nat /\ rejoins \in Nat
    BY DEF TypeInv, ReadingTyped
  <1>2. CASE UNCHANGED vars
    BY <1>1, <1>2 DEF vars, messagingVars, delivery, botVars
  <1>3. CASE PublishSignal
    BY <1>1, <1>3 DEF PublishSignal, delivery, botVars
  <1>4. ASSUME NEW s \in {Constructor, Engine, Manager}, Handled(s)
        PROVE  /\ position'[Bot] = position[Bot] /\ offset'[Bot] = offset[Bot]
               /\ restarts' = restarts /\ rejoins' = rejoins
    BY <1>4, ServicesDistinct DEF Handled, TypeInv, ReadingTyped
  <1>5. ASSUME UNCHANGED delivery
        PROVE  /\ position'[Bot] = position[Bot] /\ offset'[Bot] = offset[Bot]
               /\ restarts' = restarts /\ rejoins' = rejoins
    BY <1>5 DEF delivery
  <1>6. CASE ConstructorStep
    BY <1>1, <1>4, <1>6 DEF ConstructorStep, Construct, botVars
  <1>7. CASE EngineStep
    BY <1>1, <1>4, <1>5, <1>7 DEF EngineStep, EvaluateMode, botVars
  <1>8. CASE ManagerStep
    <2>1. UNCHANGED <<trades, reporting>> /\ (UNCHANGED plans \/ EmitPlan)
      BY <1>8 DEF ManagerStep, RefuseEvaluation, AcceptEvaluation, UpdatePortfolio, messagingVars,
                  botVars
    <2>2. UNCHANGED delivery \/ Handled(Manager)
      BY <1>8 DEF ManagerStep, RefuseEvaluation, AcceptEvaluation, EmitPlan, UpdatePortfolio,
                  messagingVars
    <2> QED
      BY <1>1, <1>4, <1>5, <2>1, <2>2
  <1>9. CASE Restart \/ RejoinStep
    <2>1. PICK s \in Services :
            /\ ReadAgain(s)
            /\ restarts' + rejoins' = restarts + rejoins + 1
            /\ UNCHANGED trades
            /\ s = Bot => ~reporting'
            /\ s # Bot => UNCHANGED reporting
      <3>1. CASE RejoinStep
        <4>1. PICK s \in Services : BetweenMessages(s) /\ Rejoined(s)
          BY <3>1 DEF RejoinStep
        <4> QED
          BY <1>1, <3>1, <4>1 DEF RejoinStep, BetweenMessages, Rejoined, botVars
      <3>2. CASE RestartConstructor
        BY <1>1, <3>2, ServicesDistinct DEF RestartConstructor, Restarted, botVars
      <3>3. CASE RestartEngine
        BY <1>1, <3>3, ServicesDistinct DEF RestartEngine, Restarted, botVars
      <3>4. CASE RestartManager
        BY <1>1, <3>4, ServicesDistinct DEF RestartManager, Restarted, botVars
      <3>5. CASE RestartBot
        BY <1>1, <3>5, ServicesDistinct DEF RestartBot, Restarted
      <3> QED
        BY <1>9, <3>1, <3>2, <3>3, <3>4, <3>5 DEF Restart
    <2>2. UNCHANGED plans
      BY <2>1 DEF ReadAgain
    <2>3. s # Bot => position'[Bot] = position[Bot] /\ offset'[Bot] = offset[Bot]
      BY <2>1, ServicesDistinct DEF ReadAgain, TypeInv, ReadingTyped
    <2> QED
      BY <1>1, <2>1, <2>2, <2>3 DEF BotReread
  <1> QED
    BY <1>2, <1>3, <1>6, <1>7, <1>8, <1>9 DEF Next

\* Everything before the bot's position is traded, and so is the plan whose
\* result is being sent.  A group that has an offset goes back to one.
CarriedOut ==
    /\ offset[Bot] # NoOffset
    /\ 1 .. position[Bot] \subseteq Traded
    /\ reporting => Current(Bot) \in Traded

LEMMA TradedAfterAppend ==
  ASSUME TypeInv, NEW i \in Nat, trades' = Append(trades, i)
  PROVE  Traded' = Traded \union {i}
  <1>1. trades \in Seq(Nat)
    BY DEF TypeInv, MemoryTyped
  <1>2. /\ DOMAIN trades' = DOMAIN trades \union {Len(trades) + 1}
        /\ trades'[Len(trades) + 1] = i
        /\ \A k \in DOMAIN trades : trades'[k] = trades[k]
    BY <1>1
  <1> QED
    BY <1>2 DEF Traded

LEMMA BotMoves ==
  ASSUME TypeInv, BotStep, EveryPlanApproved
  PROVE  /\ Current(Bot) \in 1 .. Len(plans) /\ position[Bot] \in Nat
         /\ UNCHANGED <<plans, restarts, rejoins>> /\ offset'[Bot] = offset[Bot]
         /\ \/ /\ ~reporting /\ reporting'
               /\ trades' = Append(trades, Current(Bot))
               /\ position'[Bot] = position[Bot]
            \/ /\ reporting /\ ~reporting'
               /\ UNCHANGED trades
               /\ position'[Bot] = position[Bot] + 1
  <1>1. HasMessage(Bot)
    BY DEF BotStep, ExecuteTrade, EmitResult, TypeInv, InHand
  <1>2. Current(Bot) \in 1 .. Len(plans) /\ position[Bot] \in Nat
    BY <1>1, InboxIs, ServicesDistinct
    DEF HasMessage, Current, TypeInv, TopicsTyped, ReadingTyped
  <1>3. CASE ExecuteTrade
    BY <1>2, <1>3 DEF ExecuteTrade, EveryPlanApproved, delivery
  <1>4. CASE EmitResult
    BY <1>2, <1>4, ServicesDistinct DEF EmitResult, Handled, TypeInv, ReadingTyped
  <1> QED
    BY <1>2, <1>3, <1>4 DEF BotStep

LEMMA CarriedOutStep ==
  ASSUME TypeInv, EveryPlanApproved, CarriedOut, [Next]_vars
  PROVE  CarriedOut'
  <1>1. position[Bot] \in Nat /\ position[Bot] <= Len(plans) /\ offset[Bot] \in Nat \union {-1}
    BY InboxIs, ServicesDistinct DEF TypeInv, ReadingTyped, ReadInOrder, NoOffset
  <1>2. CASE BotUntouched
    BY <1>2 DEF BotUntouched, CarriedOut, Traded, Current
  <1>3. CASE BotReread
    <2>1. PICK n \in Committed(Bot) :
            /\ offset' = [offset EXCEPT ![Bot] = n]
            /\ position' = [position EXCEPT ![Bot] = IF n = NoOffset THEN Len(Inbox(Bot)) ELSE n]
      BY <1>3 DEF BotReread, ReadAgain
    <2>2. n \in Nat /\ n <= position[Bot]
      BY <1>1 DEF Committed, CarriedOut, NoOffset
    <2>3. offset'[Bot] = n /\ position'[Bot] = n
      BY <2>1, <2>2, ServicesDistinct DEF TypeInv, ReadingTyped, NoOffset
    <2>4. Traded' = Traded /\ ~reporting'
      BY <1>3 DEF BotReread, Traded
    <2>5. 1 .. n \subseteq Traded /\ n # -1
      BY <1>1, <2>2 DEF CarriedOut
    <2> QED
      BY <2>3, <2>4, <2>5 DEF CarriedOut, NoOffset
  <1>4. CASE BotStep
    <2>1. CASE trades' = Append(trades, Current(Bot)) /\ position'[Bot] = position[Bot]
      <3>1. Traded' = Traded \union {Current(Bot)}
        BY <1>4, <2>1, BotMoves, TradedAfterAppend
      <3>2. offset'[Bot] # NoOffset
        BY <1>4, BotMoves DEF CarriedOut
      <3>3. 1 .. position'[Bot] \subseteq Traded'
        BY <2>1, <3>1 DEF CarriedOut
      <3>4. (position[Bot] + 1)' \in Traded'
        BY <2>1, <3>1 DEF Current
      <3> QED
        BY <3>2, <3>3, <3>4 DEF CarriedOut, Current
    <2>2. CASE UNCHANGED trades /\ position'[Bot] = position[Bot] + 1 /\ reporting /\ ~reporting'
      <3>1. Traded' = Traded /\ position[Bot] + 1 \in Traded
        BY <2>2 DEF Traded, CarriedOut, Current
      <3>2. 1 .. (position[Bot] + 1) \subseteq Traded
        BY <1>1, <3>1 DEF CarriedOut
      <3> QED
        BY <1>4, <2>2, <3>1, <3>2, BotMoves DEF CarriedOut
    <2> QED
      BY <1>4, <2>1, <2>2, BotMoves
  <1> QED
    BY <1>2, <1>3, <1>4, BotView

\* What a send makes of the plans is a publication, or nothing.
LEMMA PlansPublished ==
  ASSUME TypeInv, Sound
  PROVE  \/ UNCHANGED plans
         \/ /\ Len(plans') > Len(plans)
            /\ SubSeq(plans', 1, Len(plans)) = plans
  <1>1. plans \in Seq(Plan) /\ plans' \in Seq(Plan) /\ Extends(plans', plans)
    BY DEF Sound, TypeInv, TopicsTyped, TopicsExtended
  <1>2. /\ Len(plans) \in Nat /\ Len(plans') \in Nat /\ Len(plans') >= Len(plans)
        /\ \A i \in 1 .. Len(plans) : plans'[i] = plans[i]
    BY <1>1 DEF Extends
  <1>3. SubSeq(plans', 1, Len(plans)) = plans
    BY <1>1, <1>2
  <1>4. Len(plans') = Len(plans) => plans' = plans
    BY <1>1, <1>2
  <1> QED
    BY <1>2, <1>3, <1>4

LEMMA StepRefines ==
  ASSUME TypeInv, EveryPlanApproved, CarriedOut, [Next]_vars
  PROVE  [AtLeastOnceTrades!Next]_(AtLeastOnceTrades!vars)
  <1>1. Sound
    BY StepSound
  <1>2. CASE UNCHANGED trades
    BY <1>1, <1>2, PlansPublished
    DEF AtLeastOnceTrades!Next, AtLeastOnceTrades!Publish, AtLeastOnceTrades!vars, Traded
  <1>3. CASE BotStep /\ trades' = Append(trades, Current(Bot))
    <2>1. /\ Current(Bot) \in 1 .. Len(plans) /\ UNCHANGED plans
          /\ Traded' = Traded \union {Current(Bot)}
      BY <1>3, BotMoves, TradedAfterAppend
    <2>2. 1 .. Current(Bot) - 1 \subseteq Traded
      BY <1>3, BotMoves DEF CarriedOut, Current
    <2> QED
      BY <2>1, <2>2
      DEF AtLeastOnceTrades!Next, AtLeastOnceTrades!CarryOut, AtLeastOnceTrades!vars
  <1> QED
    BY <1>2, <1>3, BotView, BotMoves DEF BotUntouched, BotReread

\* A bot whose group has an offset implements its inbox at least once, in
\* order, for every number of plans, restarts and replays.
THEOREM PipelineAtLeastOnce ==
  ASSUME Bot \notin Fresh
  PROVE  Spec => ImplementsAtLeastOnce
  <1>1. Init => CarriedOut
    BY ServicesDistinct DEF Init, MessagingInit, BotInit, CarriedOut, NoOffset
  <1>2. TypeInv /\ JustifiedInv /\ CarriedOut /\ [Next]_vars => CarriedOut'
    BY CarriedOutStep DEF JustifiedInv
  <1>3. Init => AtLeastOnceTrades!Init
    BY DEF Init, MessagingInit, BotInit, AtLeastOnceTrades!Init, Traded
  <1>4. TypeInv /\ JustifiedInv /\ CarriedOut /\ [Next]_vars
          => [AtLeastOnceTrades!Next]_(AtLeastOnceTrades!vars)
    BY StepRefines DEF JustifiedInv
  <1> QED
    BY TypeInvInit, JustifiedInit, JustifiedStep, <1>1, <1>2, <1>3, <1>4, PTL
    DEF Spec, ImplementsAtLeastOnce, AtLeastOnceTrades!Spec
-----------------------------------------------------------------------------
\* How often a plan is traded.

\* A trade of the plan that the bot has passed, or is reporting, is its first;
\* the others have a reading of the inbox each.
CountInv ==
    \A i \in Nat :
        TimesTraded(i) <= restarts + rejoins +
            (IF i <= position[Bot] \/ (reporting /\ i = Current(Bot)) THEN 1 ELSE 0)

LEMMA TimesTradedNat ==
  ASSUME TypeInv, NEW i \in Nat
  PROVE  /\ IsFiniteSet({k \in DOMAIN trades : trades[k] = i}) /\ TimesTraded(i) \in Nat
  <1>1. DOMAIN trades = 1 .. Len(trades) /\ Len(trades) \in Nat
    BY DEF TypeInv, MemoryTyped
  <1>2. IsFiniteSet(1 .. Len(trades))
    BY <1>1, FS_Interval
  <1>3. IsFiniteSet({k \in DOMAIN trades : trades[k] = i})
    BY <1>1, <1>2, FS_Subset
  <1> QED
    BY <1>3, FS_CardinalityType DEF TimesTraded

LEMMA TimesTradedAfterAppend ==
  ASSUME TypeInv, NEW j \in Nat, trades' = Append(trades, j), NEW i \in Nat
  PROVE  TimesTraded(i)' = TimesTraded(i) + (IF i = j THEN 1 ELSE 0)
  <1> DEFINE before == {k \in DOMAIN trades : trades[k] = i}
             after == {k \in DOMAIN trades' : trades'[k] = i}
  <1>1. trades \in Seq(Nat)
    BY DEF TypeInv, MemoryTyped
  <1>2. /\ DOMAIN trades' = DOMAIN trades \union {Len(trades) + 1}
        /\ trades'[Len(trades) + 1] = j
        /\ \A k \in DOMAIN trades : trades'[k] = trades[k]
        /\ Len(trades) + 1 \notin DOMAIN trades
    BY <1>1
  <1>3. IsFiniteSet(before) /\ Cardinality(before) \in Nat
    BY TimesTradedNat DEF TimesTraded
  <1>4. TimesTraded(i) = Cardinality(before) /\ TimesTraded(i)' = Cardinality(after)
    BY DEF TimesTraded
  <1>5. CASE i = j
    <2>1. after = before \union {Len(trades) + 1} /\ Len(trades) + 1 \notin before
      BY <1>2, <1>5
    <2>2. Cardinality(after) = Cardinality(before) + 1
      BY <1>3, <2>1, FS_AddElement
    <2> QED
      BY <1>5, <1>4, <2>2
  <1>6. CASE i # j
    <2>1. after = before
      BY <1>2, <1>6
    <2>2. Cardinality(after) = Cardinality(before)
      BY <2>1, Zenon
    <2> HIDE DEF before, after
    <2> QED
      BY <1>3, <1>4, <1>6, <2>2
  <1> QED
    BY <1>5, <1>6

LEMMA CountStep ==
  ASSUME TypeInv, EveryPlanApproved, CountInv, [Next]_vars
  PROVE  CountInv'
  <1> SUFFICES ASSUME NEW i \in Nat
               PROVE  TimesTraded(i)' <= restarts' + rejoins' +
                        (IF i <= position'[Bot] \/ (reporting' /\ i = position'[Bot] + 1)
                         THEN 1 ELSE 0)
    BY DEF CountInv, Current
  <1>1. /\ restarts \in Nat /\ rejoins \in Nat /\ position[Bot] \in Nat
        /\ restarts' \in Nat /\ rejoins' \in Nat
    BY StepSound, ServicesDistinct DEF Sound, TypeInv, ReadingTyped
  <1>2. /\ TimesTraded(i) \in Nat
        /\ TimesTraded(i) <= restarts + rejoins +
             (IF i <= position[Bot] \/ (reporting /\ i = position[Bot] + 1) THEN 1 ELSE 0)
    BY TimesTradedNat DEF CountInv, Current
  <1>3. UNCHANGED trades => TimesTraded(i)' = TimesTraded(i)
    BY DEF TimesTraded
  <1>4. CASE BotUntouched /\ restarts' + rejoins' >= restarts + rejoins
    BY <1>1, <1>2, <1>3, <1>4 DEF BotUntouched
  <1>5. CASE BotReread /\ restarts' + rejoins' = restarts + rejoins + 1
    BY <1>1, <1>2, <1>3, <1>5 DEF BotReread
  <1>6. CASE BotStep
    <2>1. CASE /\ ~reporting /\ reporting'
               /\ trades' = Append(trades, Current(Bot))
               /\ position'[Bot] = position[Bot]
      <3>1. TimesTraded(i)' = TimesTraded(i) + (IF i = position[Bot] + 1 THEN 1 ELSE 0)
        BY <1>1, <2>1, TimesTradedAfterAppend DEF Current
      <3>2. restarts' = restarts /\ rejoins' = rejoins
        BY <1>6, BotMoves
      <3> QED
        BY <1>1, <1>2, <2>1, <3>1, <3>2
    <2>2. CASE /\ reporting /\ ~reporting' /\ UNCHANGED trades
               /\ position'[Bot] = position[Bot] + 1
      <3>1. restarts' = restarts /\ rejoins' = rejoins
        BY <1>6, BotMoves
      <3> QED
        BY <1>1, <1>2, <1>3, <2>2, <3>1
    <2> QED
      BY <1>6, <2>1, <2>2, BotMoves
  <1> QED
    BY <1>4, <1>5, <1>6, BotView

\* No plan is traded more often than once, and once more for every time some
\* inbox was read again.
THEOREM PipelineRetrades == Spec => []RetradedOnlyAfterReplay
  <1>1. Init => CountInv
    <2> SUFFICES ASSUME Init PROVE CountInv
      OBVIOUS
    <2>1. \A i : {k \in DOMAIN trades : trades[k] = i} = {}
      BY DEF Init, BotInit
    <2>2. \A i \in Nat : TimesTraded(i) = 0
      BY <2>1, FS_EmptySet DEF TimesTraded
    <2>3. restarts = 0 /\ rejoins = 0 /\ position[Bot] = 0 /\ ~reporting
      BY ServicesDistinct DEF Init, MessagingInit, BotInit
    <2> QED
      BY <2>2, <2>3 DEF CountInv
  <1>2. TypeInv /\ JustifiedInv /\ CountInv /\ [Next]_vars => CountInv'
    BY CountStep DEF JustifiedInv
  <1>3. TypeInv /\ CountInv => RetradedOnlyAfterReplay
    <2> SUFFICES ASSUME TypeInv, CountInv, NEW i \in DOMAIN plans
                 PROVE  TimesTraded(i) <= 1 + restarts + rejoins
      BY DEF RetradedOnlyAfterReplay
    <2>1. i \in Nat /\ restarts \in Nat /\ rejoins \in Nat
      BY DEF TypeInv, TopicsTyped, ReadingTyped
    <2>2. TimesTraded(i) \in Nat
      BY <2>1, TimesTradedNat
    <2> QED
      BY <2>1, <2>2 DEF CountInv
  <1> QED
    BY TypeInvInit, JustifiedInit, JustifiedStep, <1>1, <1>2, <1>3, PTL DEF Spec
-----------------------------------------------------------------------------
\* The books and the plans published.

LEMMA BridgeSizesTyped ==
  ASSUME NEW ps \in Seq(Plan)
  PROVE  /\ Summable(BridgeSizes(ps), Len(ps))
         /\ \A i \in 1 .. Len(ps) : BridgeSizes(ps)[i] \in Nat
         /\ SizeOfBridgePlans(ps) \in Nat
  <1>1. \A i \in 1 .. Len(ps) : ps[i].size \in Nat
    <2>1. \A i \in 1 .. Len(ps) : ps[i] \in Plan
      OBVIOUS
    <2> QED
      BY <2>1 DEF Plan
  <1>2. \A i \in 1 .. Len(ps) : BridgeSizes(ps)[i] \in Nat
    BY <1>1 DEF BridgeSizes
  <1>3. Len(ps) \in Nat
    OBVIOUS
  <1> QED
    BY <1>2, <1>3, SumIsNat DEF Summable, SizeOfBridgePlans

\* What one more plan adds: its size when it is a bridge plan and no copy.
LEMMA OneMorePlan ==
  ASSUME NEW ps \in Seq(Plan), NEW qs \in Seq(Plan), Extends(qs, ps),
         Len(qs) = Len(ps) + 1
  PROVE  SizeOfBridgePlans(qs) = SizeOfBridgePlans(ps) + BridgeSizes(qs)[Len(qs)]
  <1> DEFINE n == Len(ps)
             w == BridgeSizes(ps)
             v == BridgeSizes(qs)
  <1>1. n \in Nat /\ \A i \in 1 .. n : qs[i] = ps[i]
    BY DEF Extends
  <1>2. \A i \in 1 .. n : v[i] = w[i]
    <2> TAKE i \in 1 .. n
    <2>1. qs[i] = ps[i] /\ \A j \in 1 .. (i - 1) : qs[j] = ps[j]
      BY <1>1
    <2>2. FirstCopy(qs, i) <=> FirstCopy(ps, i)
      BY <2>1 DEF FirstCopy
    <2> QED
      BY <1>1, <2>1, <2>2 DEF BridgeSizes
  <1>3. Summable(w, n) /\ Summable(v, n + 1)
    BY BridgeSizesTyped
  <1> HIDE DEF w, v
  <1>4. SumUpTo(v, n + 1) = SumUpTo(v, n) + v[n + 1]
    BY <1>1, <1>3, SumOfNext
  <1>5. SumUpTo(v, n) = SumUpTo(w, n)
    BY <1>1, <1>2, <1>3, SumOfSame
  <1> QED
    BY <1>4, <1>5 DEF SizeOfBridgePlans, w, v

BridgeSize(plan) == IF plan.mode = "bridge_based" THEN plan.size ELSE 0

\* A plan that none before it equals adds its whole bridge size.
LEMMA OneNewPlan ==
  ASSUME NEW ps \in Seq(Plan), NEW plan \in Plan, \A i \in 1 .. Len(ps) : ps[i] # plan
  PROVE  SizeOfBridgePlans(Append(ps, plan)) = SizeOfBridgePlans(ps) + BridgeSize(plan)
  <1> DEFINE qs == Append(ps, plan)
             n == Len(ps)
  <1>1. /\ qs \in Seq(Plan) /\ Extends(qs, ps) /\ Len(qs) = n + 1 /\ qs[n + 1] = plan
        /\ n \in Nat
    BY Appended
  <1>2. \A i \in 1 .. n : qs[i] = ps[i]
    BY <1>1 DEF Extends
  <1> HIDE DEF qs
  <1>3. FirstCopy(qs, n + 1)
    BY <1>1, <1>2 DEF FirstCopy
  <1>4. BridgeSizes(qs)[n + 1] = BridgeSize(plan)
    BY <1>1, <1>3 DEF BridgeSizes, BridgeSize
  <1>5. SizeOfBridgePlans(qs) = SizeOfBridgePlans(ps) + BridgeSizes(qs)[n + 1]
    BY <1>1, OneMorePlan
  <1> QED
    BY <1>4, <1>5 DEF qs

\* A plan is numbered by its place in the topic; a copy has the number of the
\* plan it copies.
PlansNumbered ==
    /\ \A i \in 1 .. Len(plans) : plans[i].id <= i
    /\ sendFaults = 0 => \A i \in 1 .. Len(plans) : plans[i].id = i
    /\ sending.phase = "sending" => sending.plan.id = Len(plans) + 1

\* The plan whose send has returned is in the topic, and not yet in the books.
InBooking == IF sending.phase = "sent" THEN BridgeSize(sending.plan) ELSE 0

FollowInv ==
    /\ PlansNumbered
    /\ bridgeExposure.percent + InBooking <= SizeOfBridgePlans(plans)
    /\ sendFaults = 0 /\ sending.phase = "sent" =>
         plans # << >> /\ plans[Len(plans)] = sending.plan
    /\ BooksFollowPlans

LEMMA FollowInit == Init => FollowInv
  <1> SUFFICES ASSUME Init PROVE FollowInv
    OBVIOUS
  <1>1. /\ plans = << >> /\ sending.phase = "idle" /\ openPositions = << >>
        /\ bridgeExposure.percent = 0
    BY DEF Init, MessagingInit, ManagerInit, NoEntry, Idle
  <1>2. SizeOfBridgePlans(<< >>) = 0 /\ BookedPlans = << >>
    BY <1>1, SumOfNone DEF SizeOfBridgePlans, BookedPlans
  <1> QED
    BY <1>1, <1>2 DEF FollowInv, PlansNumbered, InBooking, BooksFollowPlans

\* Sends that have gone wrong and restarts are never forgotten.
LEMMA FaultsRemembered ==
  ASSUME TypeInv, [Next]_vars
  PROVE  /\ sendFaults' = 0 => sendFaults = 0
         /\ restarts' = 0 => restarts = 0
  <1>1. sendFaults \in Nat /\ restarts \in Nat
    BY DEF TypeInv, ReadingTyped
  <1>2. ASSUME NEW topic, NEW message, NEW outcome \in SendOutcomes(topic, message)
        PROVE  outcome.faults \in {0, 1}
    BY DEF SendOutcomes
  <1>3. CASE UNCHANGED <<sendFaults, restarts>>
    BY <1>3
  <1>4. CASE ConstructorStep \/ EngineStep \/ ManagerStep \/ BotStep
    BY <1>1, <1>2, <1>4
    DEF ConstructorStep, Construct, EngineStep, EvaluateMode, ManagerStep, RefuseEvaluation,
        AcceptEvaluation, EmitPlan, UpdatePortfolio, BotStep, ExecuteTrade, EmitResult,
        Handled, messagingVars, delivery
  <1>5. CASE Restart \/ RejoinStep
    BY <1>1, <1>5
    DEF Restart, RestartConstructor, RestartEngine, RestartManager, RestartBot, RejoinStep,
        Restarted, Rejoined, ReadAgain
  <1> QED
    BY <1>3, <1>4, <1>5 DEF Next, PublishSignal, delivery, vars, messagingVars
\* A step that leaves the manager and its plans alone keeps the books in step.
LEMMA FollowUntouched ==
  ASSUME FollowInv, UNCHANGED <<plans, bridgeExposure, openPositions, sending>>,
         sendFaults' = 0 => sendFaults = 0, restarts' = 0 => restarts = 0
  PROVE  FollowInv'
  <1>1. /\ UNCHANGED SizeOfBridgePlans(plans) /\ UNCHANGED BookedPlans
        /\ UNCHANGED SizeOfBridgePlans(BookedPlans) /\ UNCHANGED InBooking
    BY DEF BookedPlans, InBooking
  <1>2. PlansNumbered'
    BY DEF FollowInv, PlansNumbered
  <1> QED
    BY <1>1, <1>2 DEF FollowInv, BooksFollowPlans

\* What the send of a new plan adds to the topic.
LEMMA FollowEmit ==
  ASSUME TypeInv, Sound, FollowInv, EmitPlan
  PROVE  FollowInv'
  <1> DEFINE m == sending.plan
             n == Len(plans)
  <1>1. /\ sending \in [phase : {"idle", "sending", "sent"}, plan : Plan] /\ m \in Plan
        /\ plans \in Seq(Plan) /\ n \in Nat /\ sendFaults \in Nat
        /\ bridgeExposure.percent \in Nat
    BY DEF TypeInv, MemoryTyped, TopicsTyped, ReadingTyped
  <1>2. /\ sending.phase = "sending" /\ bridgeExposure' = bridgeExposure
        /\ openPositions' = openPositions
    BY DEF EmitPlan, portfolio
  <1>3. m.id = n + 1 /\ \A i \in 1 .. n : plans[i].id <= i
    BY <1>2 DEF FollowInv, PlansNumbered
  <1>4. \A i \in 1 .. n : plans[i] \in Plan /\ plans[i].id \in Nat
    <2>1. \A i \in 1 .. n : plans[i] \in Plan
      BY <1>1
    <2> QED
      BY <2>1 DEF Plan
  <1>5. \A i \in 1 .. n : plans[i] # m
    BY <1>1, <1>3, <1>4
  <1> DEFINE qs == Append(plans, m)
  <1>6. /\ qs \in Seq(Plan) /\ Extends(qs, plans) /\ Len(qs) = n + 1 /\ qs[n + 1] = m
        /\ \A i \in 1 .. n : qs[i] = plans[i]
    BY <1>1, Appended DEF Extends
  <1>7. SizeOfBridgePlans(qs) = SizeOfBridgePlans(plans) + BridgeSize(m)
    BY <1>1, <1>5, OneNewPlan
  <1>8. /\ SizeOfBridgePlans(plans) \in Nat /\ BridgeSize(m) \in Nat
    <2>1. m.size \in Nat
      BY <1>1 DEF Plan
    <2> QED
      BY <1>1, <2>1, BridgeSizesTyped DEF BridgeSize
  <1>9. /\ bridgeExposure.percent <= SizeOfBridgePlans(plans)
        /\ BookedPlans = plans
        /\ sendFaults = 0 => \A i \in 1 .. n : plans[i].id = i
    BY <1>2 DEF FollowInv, BooksFollowPlans, BookedPlans, PlansNumbered
  <1>10. PICK outcome \in SendOutcomes(plans, m) :
           /\ plans' = outcome.topic
           /\ sendFaults' = sendFaults + outcome.faults
           /\ \/ outcome.acked /\ sending' = [sending EXCEPT !.phase = "sent"]
              \/ ~outcome.acked /\ sending' = Idle
    BY DEF EmitPlan
  <1> HIDE DEF qs
  <1>11. ASSUME sendFaults' # 0, PlansNumbered',
                bridgeExposure.percent + InBooking' <= SizeOfBridgePlans(plans')
         PROVE  FollowInv'
    <2>1. SizeOfBridgePlans(plans') \in Nat /\ bridgeExposure'.percent \in Nat
      BY <1>1, <1>2, BridgeSizesTyped DEF Sound, TypeInv, TopicsTyped
    <2>2. InBooking' \in Nat
      <3>1. sending'.plan \in Plan
        BY DEF Sound, TypeInv, MemoryTyped
      <3>2. sending'.plan.size \in Nat
        BY <3>1 DEF Plan
      <3> QED
        BY <3>2 DEF InBooking, BridgeSize
    <2>3. bridgeExposure'.percent + InBooking' <= SizeOfBridgePlans(plans')
      BY <1>2, <1>11
    <2>4. bridgeExposure'.percent <= SizeOfBridgePlans(plans')
      BY <2>1, <2>2, <2>3
    <2>5. BooksFollowPlans'
      BY <1>11, <2>4 DEF BooksFollowPlans
    <2> QED
      BY <1>11, <2>3, <2>5 DEF FollowInv
  <1>12. Idle.phase = "idle"
    BY DEF Idle
  <1>13. CASE outcome = [topic |-> qs, acked |-> TRUE, faults |-> 0]
    <2>1. plans' = qs /\ sendFaults' = sendFaults /\ sending'.phase = "sent" /\ sending'.plan = m
      BY <1>1, <1>10, <1>13
    <2>2. PlansNumbered'
      <3>1. \A i \in 1 .. (n + 1) : qs[i].id <= i
        BY <1>1, <1>3, <1>6
      <3>2. sendFaults = 0 => \A i \in 1 .. (n + 1) : qs[i].id = i
        BY <1>1, <1>3, <1>6, <1>9
      <3> QED
        BY <1>6, <2>1, <3>1, <3>2 DEF PlansNumbered
    <2>3. bridgeExposure'.percent + InBooking' <= SizeOfBridgePlans(plans')
      BY <1>1, <1>2, <1>7, <1>8, <1>9, <2>1 DEF InBooking
    <2>4. plans' # << >> /\ plans'[Len(plans')] = sending'.plan
      BY <1>1, <1>6, <2>1
    <2>5. SubSeq(qs, 1, n) = plans
      BY <1>1, <1>6 DEF qs
    <2>6. BookedPlans' = plans
      BY <1>1, <1>6, <2>1, <2>5 DEF BookedPlans
    <2>7. sendFaults' = 0 /\ restarts' = 0 => sendFaults = 0 /\ restarts = 0
      BY <2>1 DEF EmitPlan, Handled, delivery
    <2>8. sendFaults' = 0 /\ restarts' = 0 =>
            /\ openPositions' = [i \in DOMAIN BookedPlans' |-> BookedPlans'[i].opportunity]
            /\ bridgeExposure'.percent = SizeOfBridgePlans(BookedPlans')
      BY <1>2, <1>9, <2>6, <2>7 DEF FollowInv, BooksFollowPlans
    <2>9. bridgeExposure'.percent <= SizeOfBridgePlans(plans')
      BY <1>1, <1>2, <1>7, <1>8, <1>9, <2>1
    <2> QED
      BY <2>2, <2>3, <2>4, <2>8, <2>9 DEF FollowInv, BooksFollowPlans
  <1>14. CASE outcome = [topic |-> plans, acked |-> FALSE, faults |-> 1]
    <2>1. plans' = plans /\ sendFaults' = sendFaults + 1 /\ sending'.phase = "idle"
      BY <1>10, <1>12, <1>14
    <2>2. PlansNumbered'
      BY <1>1, <1>3, <2>1 DEF PlansNumbered
    <2> QED
      BY <1>1, <1>9, <1>11, <2>1, <2>2 DEF InBooking
  <1>15. CASE outcome = [topic |-> qs, acked |-> FALSE, faults |-> 1]
    <2>1. plans' = qs /\ sendFaults' = sendFaults + 1 /\ sending'.phase = "idle"
      BY <1>10, <1>12, <1>15
    <2>2. \A i \in 1 .. (n + 1) : qs[i].id <= i
      BY <1>1, <1>3, <1>6
    <2>3. PlansNumbered'
      BY <1>1, <1>6, <2>1, <2>2 DEF PlansNumbered
    <2> QED
      BY <1>1, <1>7, <1>8, <1>9, <1>11, <2>1, <2>3 DEF InBooking
  <1>16. CASE outcome = [topic |-> plans \o <<m, m>>, acked |-> TRUE, faults |-> 1]
    <2> DEFINE rs == Append(qs, m)
    <2>1. plans \o <<m, m>> = rs
      BY <1>1 DEF qs
    <2>2. /\ rs \in Seq(Plan) /\ Extends(rs, qs) /\ Len(rs) = n + 2 /\ rs[n + 2] = m
          /\ \A i \in 1 .. (n + 1) : rs[i] = qs[i]
      BY <1>1, <1>6, Appended DEF Extends
    <2> HIDE DEF rs
    <2>3. /\ plans' = rs /\ sendFaults' = sendFaults + 1
          /\ sending'.phase = "sent" /\ sending'.plan = m
      BY <1>1, <1>10, <1>16, <2>1
    <2>4. \A i \in 1 .. (n + 2) : rs[i].id <= i
      <3> TAKE i \in 1 .. (n + 2)
      <3>1. CASE i \in 1 .. n
        BY <1>1, <1>3, <1>6, <2>2, <3>1
      <3>2. CASE i = n + 1
        BY <1>1, <1>3, <1>6, <2>2, <3>2
      <3>3. CASE i = n + 2
        BY <1>1, <1>3, <2>2, <3>3
      <3> QED
        BY <1>1, <3>1, <3>2, <3>3
    <2>5. PlansNumbered'
      BY <1>1, <2>2, <2>3, <2>4 DEF PlansNumbered
    <2>6. SizeOfBridgePlans(rs) = SizeOfBridgePlans(qs) + BridgeSizes(rs)[n + 2]
      BY <1>1, <1>6, <2>2, OneMorePlan
    <2>7. BridgeSizes(rs)[n + 2] \in Nat
      BY <1>1, <2>2, BridgeSizesTyped
    <2>8. bridgeExposure.percent + InBooking' <= SizeOfBridgePlans(plans')
      BY <1>1, <1>7, <1>8, <1>9, <2>3, <2>6, <2>7 DEF InBooking
    <2> QED
      BY <1>1, <1>11, <2>3, <2>5, <2>8
  <1> QED
    BY <1>13, <1>14, <1>15, <1>16 DEF SendOutcomes, qs

LEMMA Prefix ==
  ASSUME NEW S, NEW s \in Seq(S), NEW k \in Nat, k <= Len(s)
  PROVE  /\ SubSeq(s, 1, k) \in Seq(S) /\ Len(SubSeq(s, 1, k)) = k
         /\ \A i \in 1 .. k : SubSeq(s, 1, k)[i] = s[i]
  OBVIOUS

\* The booking of a plan moves it from what is in hand to the books.
LEMMA FollowBook ==
  ASSUME TypeInv, Sound, FollowInv, UpdatePortfolio
  PROVE  FollowInv'
  <1> DEFINE m == sending.plan
             n == Len(plans)
  <1>1. /\ sending \in [phase : {"idle", "sending", "sent"}, plan : Plan] /\ m \in Plan
        /\ m.size \in Nat /\ plans \in Seq(Plan) /\ n \in Nat
        /\ bridgeExposure.percent \in Nat
    BY DEF TypeInv, MemoryTyped, TopicsTyped, Plan
  <1>2. /\ sending.phase = "sent" /\ sending'.phase = "idle"
        /\ UNCHANGED <<plans, sendFaults, restarts>>
        /\ openPositions' = Append(openPositions, m.opportunity)
    BY DEF UpdatePortfolio, Idle, Handled
  <1>3. bridgeExposure'.percent = bridgeExposure.percent + BridgeSize(m)
    BY <1>1 DEF UpdatePortfolio, Booked, BridgeSize
  <1>4. SizeOfBridgePlans(plans) \in Nat /\ InBooking = BridgeSize(m) /\ InBooking' = 0
    BY <1>1, <1>2, BridgeSizesTyped DEF InBooking
  <1>5. bridgeExposure'.percent <= SizeOfBridgePlans(plans)
    BY <1>3, <1>4 DEF FollowInv
  <1>6. PlansNumbered'
    BY <1>2 DEF FollowInv, PlansNumbered
  <1>7. ASSUME sendFaults = 0, restarts = 0
        PROVE  /\ openPositions' = [i \in DOMAIN plans |-> plans[i].opportunity]
               /\ bridgeExposure'.percent = SizeOfBridgePlans(plans)
    <2> DEFINE ps == SubSeq(plans, 1, n - 1)
    <2>1. n >= 1 /\ plans[n] = m
      BY <1>1, <1>2, <1>7 DEF FollowInv
    <2>2. ps \in Seq(Plan) /\ Len(ps) = n - 1 /\ \A i \in 1 .. (n - 1) : ps[i] = plans[i]
      <3>1. n - 1 \in Nat /\ n - 1 <= n
        BY <1>1, <2>1
      <3> QED
        BY <1>1, <3>1, Prefix
    <2>3. plans = Append(ps, m)
      BY <1>1, <2>1, <2>2
    <2>4. /\ openPositions = [i \in DOMAIN ps |-> ps[i].opportunity]
          /\ bridgeExposure.percent = SizeOfBridgePlans(ps)
      BY <1>2, <1>7 DEF FollowInv, BooksFollowPlans, BookedPlans
    <2> HIDE DEF ps
    <2>5. \A i \in 1 .. n : plans[i].id = i
      BY <1>7 DEF FollowInv, PlansNumbered
    <2>6. \A i \in 1 .. (n - 1) : ps[i] # m
      BY <1>1, <2>1, <2>2, <2>5
    <2>7. SizeOfBridgePlans(plans) = SizeOfBridgePlans(ps) + BridgeSize(m)
      BY <1>1, <2>2, <2>3, <2>6, OneNewPlan
    <2>8. openPositions' = [i \in DOMAIN plans |-> plans[i].opportunity]
      <3>1. /\ DOMAIN ps = 1 .. (n - 1) /\ DOMAIN plans = 1 .. n
            /\ openPositions \in Seq(Nat) /\ Len(openPositions) = n - 1
        BY <1>1, <2>1, <2>2, <2>4 DEF TypeInv, MemoryTyped
      <3>2. \A i \in 1 .. (n - 1) : openPositions[i] = plans[i].opportunity
        BY <2>2, <2>4, <3>1
      <3>3. m.opportunity \in Nat
        BY <1>1 DEF Plan
      <3>4. /\ DOMAIN openPositions' = 1 .. n
            /\ openPositions' = [i \in 1 .. n |-> openPositions'[i]]
            /\ \A i \in 1 .. (n - 1) : openPositions'[i] = openPositions[i]
            /\ openPositions'[n] = m.opportunity
        <4>1. /\ openPositions' \in Seq(Nat) /\ Len(openPositions') = (n - 1) + 1
              /\ Extends(openPositions', openPositions)
              /\ openPositions'[(n - 1) + 1] = m.opportunity
          <5> DEFINE longer == Append(openPositions, m.opportunity)
          <5>1. /\ longer \in Seq(Nat) /\ Extends(longer, openPositions)
                /\ Len(longer) = Len(openPositions) + 1
                /\ longer[Len(openPositions) + 1] = m.opportunity
            BY <3>1, <3>3, Appended
          <5> QED
            BY ONLY <1>2, <3>1, <5>1
        <4>2. (n - 1) + 1 = n
          BY <1>1
        <4>3. \A i \in 1 .. (n - 1) : openPositions'[i] = openPositions[i]
          BY <3>1, <4>1 DEF Extends
        <4>4. Len(openPositions') = n /\ openPositions'[n] = m.opportunity
          BY <4>1, <4>2
        <4>5. DOMAIN openPositions' = 1 .. n
          BY <4>1, <4>4
        <4>6. openPositions' = [i \in 1 .. n |-> openPositions'[i]]
          BY <4>1, <4>5
        <4> QED
          BY <4>3, <4>4, <4>5, <4>6
      <3>5. \A i \in 1 .. n : openPositions'[i] = plans[i].opportunity
        BY <1>1, <2>1, <3>2, <3>4
      <3> QED
        BY <3>1, <3>4, <3>5
    <2> QED
      BY <1>3, <2>4, <2>7, <2>8
  <1>8. BookedPlans' = plans
    BY <1>2 DEF BookedPlans
  <1>9. BooksFollowPlans'
    BY <1>2, <1>5, <1>7, <1>8 DEF BooksFollowPlans
  <1>10. bridgeExposure'.percent + InBooking' <= SizeOfBridgePlans(plans')
    <2>1. BridgeSize(m) \in Nat
      BY <1>1 DEF BridgeSize
    <2> QED
      BY <1>1, <1>2, <1>3, <1>4, <1>5, <2>1
  <1> QED
    BY <1>2, <1>6, <1>9, <1>10 DEF FollowInv

LEMMA FollowStep ==
  ASSUME TypeInv, Sound, FollowInv, [Next]_vars
  PROVE  FollowInv'
  <1>1. /\ sending \in [phase : {"idle", "sending", "sent"}, plan : Plan]
        /\ sendFaults \in Nat /\ restarts \in Nat /\ bridgeExposure.percent \in Nat
        /\ SizeOfBridgePlans(plans) \in Nat /\ sending.plan.size \in Nat
    BY BridgeSizesTyped DEF TypeInv, MemoryTyped, ReadingTyped, TopicsTyped, Plan
  <1>2. CASE UNCHANGED <<plans, bridgeExposure, openPositions, sending>>
    BY <1>2, FaultsRemembered, FollowUntouched
  <1>3. CASE AcceptEvaluation
    <2>1. /\ UNCHANGED <<plans, bridgeExposure, openPositions, sendFaults, restarts>>
          /\ sending.phase = "idle" /\ sending'.phase = "sending"
          /\ sending'.plan.id = Len(plans) + 1
      BY <1>3 DEF AcceptEvaluation, BuildExecutionPlan, portfolio, messagingVars, delivery
    <2>2. BookedPlans' = plans /\ BookedPlans = plans /\ InBooking = 0 /\ InBooking' = 0
      BY <2>1 DEF BookedPlans, InBooking
    <2>3. PlansNumbered'
      BY <2>1 DEF FollowInv, PlansNumbered
    <2>4. BooksFollowPlans'
      BY <2>1, <2>2 DEF FollowInv, BooksFollowPlans
    <2> QED
      BY <1>1, <2>1, <2>2, <2>3, <2>4 DEF FollowInv
  <1>4. CASE EmitPlan
    BY <1>4, FollowEmit
  <1>5. CASE UpdatePortfolio
    BY <1>5, FollowBook
  <1>6. CASE RestartManager
    <2>1. /\ UNCHANGED <<plans, sendFaults>> /\ restarts' = restarts + 1
          /\ bridgeExposure'.percent = 0 /\ sending'.phase = "idle"
      BY <1>6 DEF RestartManager, Restarted, ReadAgain, ManagerMemoryLost, NoEntry, Idle
    <2>2. PlansNumbered'
      BY <2>1 DEF FollowInv, PlansNumbered
    <2>3. restarts' # 0 /\ InBooking' = 0
      BY <1>1, <2>1 DEF InBooking
    <2> QED
      BY <1>1, <2>1, <2>2, <2>3 DEF FollowInv, BooksFollowPlans
  <1> QED
    BY <1>2, <1>3, <1>4, <1>5, <1>6
    DEF Next, PublishSignal, ConstructorStep, Construct, EngineStep, EvaluateMode, ManagerStep,
        RefuseEvaluation, BotStep, ExecuteTrade, EmitResult, Restart, RestartConstructor,
        RestartEngine, RestartBot, RejoinStep, Restarted, Rejoined, ReadAgain, vars,
        messagingVars, managerVars, portfolio

\* The books follow the plans: whatever sends do and whoever dies, no exposure is
\* booked that was not published; and until a send goes wrong or a process is
\* killed, the books are the plans published, to the last percent and in order,
\* but for the one plan whose send has just returned.
THEOREM PipelineBooksFollow == Spec => []BooksFollowPlans
  <1>1. TypeInv /\ FollowInv /\ [Next]_vars => TypeInv' /\ FollowInv'
    BY StepSound, FollowStep DEF Sound
  <1>2. FollowInv => BooksFollowPlans
    BY DEF FollowInv
  <1> QED
    BY TypeInvInit, FollowInit, <1>1, <1>2, PTL DEF Spec
=============================================================================
