------------------------------ MODULE ArbBot --------------------------------
(***************************************************************************)
(* The Monad arbitrage bot: it trades an approved plan and then reports the *)
(* result.  executeTrade is a placeholder in the code, which returns in dry  *)
(* and in live mode without having sent anything: a trade is a call of it.   *)
(* It is remembered here by the place of its plan in the topic; the bot has  *)
(* no memory of its own between two messages.                               *)
(***************************************************************************)
EXTENDS PortfolioManager

VARIABLES
    trades,    \* trades made, in order
    reporting  \* the trade is made, its result is being sent

botVars == <<trades, reporting>>

BotInit ==
    /\ trades = << >>
    /\ reporting = FALSE
-----------------------------------------------------------------------------
\* Mutant: the test of the approval is the wrong way round.
ExecuteTrade_Inverted ==
    /\ ~reporting
    /\ HasMessage(Bot)
    /\ IF ~plans[Current(Bot)].approved
       THEN /\ trades' = Append(trades, Current(Bot))
            /\ reporting' = TRUE
            /\ UNCHANGED delivery
       ELSE /\ Handled(Bot)
            /\ UNCHANGED botVars
    /\ UNCHANGED <<signals, candidates, evaluations, plans, results, sendFaults>>

\* executeTrade, for an approved plan; the manager publishes no others.
ExecuteTrade ==
    /\ ~reporting
    /\ HasMessage(Bot)
    /\ IF plans[Current(Bot)].approved
       THEN /\ trades' = Append(trades, Current(Bot))
            /\ reporting' = TRUE
            /\ UNCHANGED delivery
       ELSE /\ Handled(Bot)
            /\ UNCHANGED botVars
    /\ UNCHANGED <<signals, candidates, evaluations, plans, results, sendFaults>>

\* Mutant: the error of a failed send is thrown on, so that the plan is read again.
EmitResult_Rethrows ==
    /\ reporting
    /\ \E outcome \in SendOutcomes(results, [plan |-> plans[Current(Bot)].id]) :
         /\ results' = outcome.topic
         /\ sendFaults' = sendFaults + outcome.faults
         /\ IF outcome.acked THEN Handled(Bot) ELSE UNCHANGED delivery
    /\ reporting' = FALSE
    /\ UNCHANGED <<signals, candidates, evaluations, plans, trades>>

\* emitResult; the handler returns, also when the send has failed.
EmitResult ==
    /\ reporting
    /\ \E outcome \in SendOutcomes(results, [plan |-> plans[Current(Bot)].id]) :
         /\ results' = outcome.topic
         /\ sendFaults' = sendFaults + outcome.faults
    /\ reporting' = FALSE
    /\ Handled(Bot)
    /\ UNCHANGED <<signals, candidates, evaluations, plans, trades>>
=============================================================================
