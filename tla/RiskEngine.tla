----------------------------- MODULE RiskEngine -----------------------------
(***************************************************************************)
(* The two services that turn a spread into an evaluated opportunity.  The  *)
(* opportunity constructor sizes the trade from the spread's capacity.  The *)
(* risk engine evaluates the opportunity once per mode and publishes each   *)
(* evaluation before it turns to the next mode.  Its verdict (spread decay, *)
(* Kelly size, the gas price of the moment, four thresholds) is a choice:   *)
(* any size positionSize may return, capped by the suggestion, and approval *)
(* or not, but never approval of nothing.                                   *)
(***************************************************************************)
EXTENDS Messaging

CONSTANTS
    SizePercent,  \* share of the capacity that the constructor suggests
    MinSize,      \* smallest suggestion worth publishing
    KellySizes    \* sizes positionSize returns; 0 when there is no signal

ASSUME RiskAssumption ==
    /\ SizePercent \in Nat
    /\ MinSize \in Nat \ {0}
    /\ KellySizes \subseteq Nat

VARIABLE engineMode   \* the mode the risk engine evaluates next

Modes == <<"inventory_based", "bridge_based">>
ModeNames == {"inventory_based", "bridge_based"}

Candidate == [id : Nat, signal : Nat, size : Nat]
Evaluation == [opportunity : Nat, mode : ModeNames, size : Nat, approved : BOOLEAN]

RiskInit == engineMode = 1
-----------------------------------------------------------------------------
Smaller(m, n) == IF m <= n THEN m ELSE n

Suggested(capacity) == Smaller((capacity * SizePercent) \div 100, capacity)

\* A new uuid: the constructor publishes nothing else on this topic.
NewCandidate(i) ==
    [id |-> Len(candidates) + 1, signal |-> i, size |-> Suggested(signals[i].capacity)]

Construct ==
    /\ HasMessage(Constructor)
    /\ LET i == Current(Constructor)
       IN  \/ /\ Suggested(signals[i].capacity) < MinSize
              /\ UNCHANGED <<candidates, sendFaults>>
           \/ /\ Suggested(signals[i].capacity) >= MinSize
              /\ \E outcome \in SendOutcomes(candidates, NewCandidate(i)) :
                   /\ candidates' = outcome.topic
                   /\ sendFaults' = sendFaults + outcome.faults
    /\ Handled(Constructor)
    /\ UNCHANGED <<signals, evaluations, plans, results, engineMode>>
-----------------------------------------------------------------------------
Evaluations(candidate, mode) ==
    {e \in [opportunity : {candidate.id}, mode : {mode},
            size : {Smaller(kelly, candidate.size) : kelly \in KellySizes},
            approved : BOOLEAN] :
        e.approved => e.size > 0}

\* Mutant: the loop over the modes ends after the first.
EvaluateMode_Once ==
    /\ HasMessage(Engine)
    /\ \E e \in Evaluations(candidates[Current(Engine)], Modes[engineMode]) :
         \E outcome \in SendOutcomes(evaluations, e) :
           /\ evaluations' = outcome.topic
           /\ sendFaults' = sendFaults + outcome.faults
           /\ engineMode' = 1
           /\ Handled(Engine)
    /\ UNCHANGED <<signals, candidates, plans, results>>

\* evaluateMode for the next mode.  A failed send ends the handler.
EvaluateMode ==
    /\ HasMessage(Engine)
    /\ \E e \in Evaluations(candidates[Current(Engine)], Modes[engineMode]) :
         \E outcome \in SendOutcomes(evaluations, e) :
           /\ evaluations' = outcome.topic
           /\ sendFaults' = sendFaults + outcome.faults
           /\ \/ /\ outcome.acked /\ engineMode = 1
                 /\ engineMode' = 2
                 /\ UNCHANGED delivery
              \/ /\ ~outcome.acked \/ engineMode = 2
                 /\ engineMode' = 1
                 /\ Handled(Engine)
    /\ UNCHANGED <<signals, candidates, plans, results>>
=============================================================================
