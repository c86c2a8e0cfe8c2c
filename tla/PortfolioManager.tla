-------------------------- MODULE PortfolioManager --------------------------
(***************************************************************************)
(* The portfolio manager: it cuts or refuses approved evaluations, sends an *)
(* execution plan, and books the exposure once the send has returned.  What *)
(* it has booked is in memory only, and nothing is ever taken off the books.*)
(* Sizes are in hundredths of the portfolio, so that a size is a percentage.*)
(***************************************************************************)
EXTENDS RiskEngine

CONSTANTS
    MaxSingleTradePercent,
    MaxBridgeExposurePercent

ASSUME PortfolioAssumption ==
    /\ MaxSingleTradePercent \in Nat
    /\ MaxBridgeExposurePercent \in Nat

VARIABLES
    bridgeExposure, \* the entry of the only bridge, if there is one
    openPositions,  \* opportunities booked, in order
    sending         \* the plan that is being sent

portfolio == <<bridgeExposure, openPositions>>
managerVars == <<portfolio, sending>>

Plan == [id : Nat, opportunity : Nat, mode : ModeNames, size : Nat, approved : BOOLEAN]
NoPlan == [id |-> 0, opportunity |-> 0, mode |-> "inventory_based", size |-> 0,
           approved |-> FALSE]
Idle == [phase |-> "idle", plan |-> NoPlan]
NoEntry == [known |-> FALSE, percent |-> 0]

ManagerMemoryLost ==
    /\ bridgeExposure' = NoEntry
    /\ openPositions' = << >>
    /\ sending' = Idle

ManagerInit ==
    /\ bridgeExposure = NoEntry
    /\ openPositions = << >>
    /\ sending = Idle
-----------------------------------------------------------------------------
\* applyConstraints.  A trade that is too large is cut, and then not looked at
\* any further; the bridge limit is for the others, once there is an entry.
Oversized(e) == e.size > MaxSingleTradePercent

OverBridgeLimit(e) ==
    /\ e.mode = "bridge_based"
    /\ bridgeExposure.known
    /\ bridgeExposure.percent + e.size > MaxBridgeExposurePercent

\* Mutant: the verdict of the risk engine is not looked at.
Refused_IgnoresVerdict(e) == ~Oversized(e) /\ OverBridgeLimit(e)

\* Mutant: the bridge limit is compared without the new trade.
Refused_LimitPassed(e) ==
    \/ ~e.approved
    \/ /\ ~Oversized(e)
       /\ e.mode = "bridge_based"
       /\ bridgeExposure.known
       /\ bridgeExposure.percent > MaxBridgeExposurePercent

Refused(e) ==
    \/ ~e.approved
    \/ ~Oversized(e) /\ OverBridgeLimit(e)

ConstrainedSize(e) == IF Oversized(e) THEN MaxSingleTradePercent ELSE e.size

\* The manager is the only producer of plans.
BuildExecutionPlan(e) ==
    [id |-> Len(plans) + 1, opportunity |-> e.opportunity, mode |-> e.mode,
     size |-> ConstrainedSize(e), approved |-> TRUE]

RefuseEvaluation ==
    /\ sending.phase = "idle"
    /\ HasMessage(Manager)
    /\ Refused(evaluations[Current(Manager)])
    /\ Handled(Manager)
    /\ UNCHANGED <<signals, candidates, evaluations, plans, results, sendFaults, managerVars>>

AcceptEvaluation ==
    /\ sending.phase = "idle"
    /\ HasMessage(Manager)
    /\ ~Refused(evaluations[Current(Manager)])
    /\ sending' = [phase |-> "sending",
                   plan |-> BuildExecutionPlan(evaluations[Current(Manager)])]
    /\ UNCHANGED <<messagingVars, portfolio>>

\* The send of the plan ends: the books are next, or the handler is left.
EmitPlan ==
    /\ sending.phase = "sending"
    /\ \E outcome \in SendOutcomes(plans, sending.plan) :
         /\ plans' = outcome.topic
         /\ sendFaults' = sendFaults + outcome.faults
         /\ \/ /\ outcome.acked
               /\ sending' = [sending EXCEPT !.phase = "sent"]
               /\ UNCHANGED delivery
            \/ /\ ~outcome.acked
               /\ sending' = Idle
               /\ Handled(Manager)
    /\ UNCHANGED <<signals, candidates, evaluations, results, portfolio>>

\* Mutant: the size of the evaluation is kept in place of the sum.
Booked_Replaced(plan) == [known |-> TRUE, percent |-> plan.size]

Booked(plan) == [known |-> TRUE, percent |-> bridgeExposure.percent + plan.size]

\* updatePortfolio; the handler returns.
UpdatePortfolio ==
    /\ sending.phase = "sent"
    /\ openPositions' = Append(openPositions, sending.plan.opportunity)
    /\ bridgeExposure' = IF sending.plan.mode = "bridge_based" THEN Booked(sending.plan)
                         ELSE bridgeExposure
    /\ sending' = Idle
    /\ Handled(Manager)
    /\ UNCHANGED <<signals, candidates, evaluations, plans, results, sendFaults>>
=============================================================================
