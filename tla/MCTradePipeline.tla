-------------------------- MODULE MCTradePipeline ---------------------------
(***************************************************************************)
(* The trading pipeline for TLC: what the documentation says of its books,  *)
(* and what must happen eventually.                                         *)
(***************************************************************************)
EXTENDS TradePipeline

\* portfolio-manager/README.md:8: "Max bridge exposure: 30%".  The bridge plans
\* published never add up to more than the limit, as long as no send goes wrong.
BridgeExposureKept ==
    sendFaults = 0 => SizeOfBridgePlans(plans) <= MaxBridgeExposurePercent
-----------------------------------------------------------------------------
\* Every plan published is traded in the end.
EveryPlanTraded == []<>(DOMAIN plans \subseteq Traded)

Evaluated(c) ==
    \A mode \in ModeNames : \E i \in DOMAIN evaluations :
        evaluations[i].opportunity = c.id /\ evaluations[i].mode = mode

\* As long as no send goes wrong, every opportunity published is evaluated in
\* both modes in the end, also when the risk engine dies between the two.
EveryCandidateEvaluated ==
    [](sendFaults = 0) => []<>(\A i \in DOMAIN candidates : Evaluated(candidates[i]))
=============================================================================
