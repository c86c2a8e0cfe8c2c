--------------------------- MODULE MCRevenueRail ---------------------------
(***************************************************************************)
(* A small instance of the revenue rail.  Twenty wei is the smallest inflow *)
(* that gives every sink at least one wei under the initial policy; seven   *)
(* leaves DataYield with nothing, so the route fails at the fourth sink;    *)
(* thirty-nine leaves the founder the most rounding dust.                   *)
(***************************************************************************)
EXTENDS RevenueRail

MCPolicyChoices ==
    {PolicyOf(5000, 2000, 1500, 1000, 500, 0),
     PolicyOf(4500, 2000, 1500, 1000, 500, 500),
     PolicyOf(3000, 3500, 1500, 1000, 500, 500),
     PolicyOf(4000, 2400, 1500, 1000, 500, 600),
     PolicyOf(4000, 2400, 1500, 1000, 500, 500)}

\* OPS_DEV can be switched off, or moved onto the founder's sink.
MCRegistrations ==
    {<<"OPS_DEV", "OPS_DEV", FALSE>>, <<"OPS_DEV", "FOUNDER", TRUE>>,
     <<"TREASURY", "TREASURY", TRUE>>, <<"FOUNDER", "OLD", TRUE>>}

\* Governance that only moves OPS_DEV onto the founder's sink.
MCMoveOpsToFounder == {<<"OPS_DEV", "FOUNDER", TRUE>>}
=============================================================================
