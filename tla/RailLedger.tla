----------------------------- MODULE RailLedger -----------------------------
(***************************************************************************)
(* What the revenue rail promises, without its contracts: every inflow that *)
(* is recorded is, in the same step, held to the wei by the six sinks, and  *)
(* only a sink that has a withdrawal function ever pays anything out.       *)
(***************************************************************************)
EXTENDS AllocationMath, Sequences

CONSTANTS
    InflowRecords,  \* the inflows that may be recorded
    Payers          \* the sinks with a withdrawal function

VARIABLES
    inflows,   \* the recorded inflows, in order
    held,      \* ether held by each sink
    paid       \* ether each payer has paid out

vars == <<inflows, held, paid>>

Init ==
    /\ inflows = << >>
    /\ held = [s \in SinkNames |-> 0]
    /\ paid = [s \in Payers |-> 0]

\* An inflow is spread over the sinks: none loses, all of it arrives.
Deposit(inflow) ==
    /\ inflows' = Append(inflows, inflow)
    /\ held' \in [SinkNames -> Nat]
    /\ \A s \in SinkNames : held'[s] >= held[s]
    /\ Total(held') = Total(held) + inflow.amount
    /\ UNCHANGED paid

\* A payer pays out part of what it holds.
Payout(s) ==
    /\ held'[s] \in 0 .. held[s]
    /\ held' = [held EXCEPT ![s] = held'[s]]
    /\ paid' = [paid EXCEPT ![s] = @ + (held[s] - held'[s])]
    /\ UNCHANGED inflows

Next ==
    \/ \E inflow \in InflowRecords : Deposit(inflow)
    \/ \E s \in Payers : Payout(s)

Spec == Init /\ [][Next]_vars
=============================================================================
