----------------------------- MODULE Messaging ------------------------------
(***************************************************************************)
(* Kafka as the trading services use it, through kafkajs.  A topic is an    *)
(* append-only sequence; every service is the only member of its group and  *)
(* handles the messages of its inbox one at a time, in order.  A handler    *)
(* catches all its errors, so a message counts as handled when the handler  *)
(* returns, whatever happened.  The offset of the group is committed later, *)
(* at moments the library chooses.  It matters only after a restart, or when *)
(* the group has lost its member for a while: reading then resumes from the  *)
(* committed offset, or, when there is none, behind the last message         *)
(* (fromBeginning: false).  So the offset is chosen there, among all those   *)
(* that may have been committed by then, and not earlier.                    *)
(***************************************************************************)
EXTENDS Integers, Sequences

CONSTANTS
    Fresh,         \* services whose group has never committed an offset
    MaxFaults      \* bound on sends gone wrong, restarts and reassignments

Constructor == "opportunity-constructor"
Engine == "risk-engine"
Manager == "portfolio-manager"
Bot == "monad-arb-bot"
Services == {Constructor, Engine, Manager, Bot}

ASSUME MessagingAssumption ==
    /\ Fresh \subseteq Services
    /\ MaxFaults \in Nat

VARIABLES
    signals,     \* market.spread.signal
    candidates,  \* risk.opportunity-candidate
    evaluations, \* risk.opportunity-evaluation
    plans,       \* execution.execution-plan
    results,     \* execution.execution-result
    position,    \* per service: messages of its inbox it has handled
    offset,      \* per service: the committed offset its inbox was last read from
    sendFaults,  \* sends that went wrong so far
    restarts,    \* restarts so far
    rejoins      \* reassignments so far

delivery == <<position, offset, restarts, rejoins>>
messagingVars == <<signals, candidates, evaluations, plans, results, sendFaults, delivery>>

\* kafkajs's value for a group without a committed offset.
NoOffset == -1

Inbox(s) ==
    CASE s = Constructor -> signals
      [] s = Engine      -> candidates
      [] s = Manager     -> evaluations
      [] s = Bot         -> plans

MessagingInit ==
    /\ signals = << >>
    /\ candidates = << >>
    /\ evaluations = << >>
    /\ plans = << >>
    /\ results = << >>
    /\ position = [s \in Services |-> 0]
    /\ offset = [s \in Services |-> IF s \in Fresh THEN NoOffset ELSE 0]
    /\ sendFaults = 0
    /\ restarts = 0
    /\ rejoins = 0
-----------------------------------------------------------------------------
MoreFaults == sendFaults + restarts + rejoins < MaxFaults

\* What producer.send may do to a topic: append the message and return; give up
\* without having appended it; append it and give up waiting for the answer; or
\* append it twice, because the answer to the first attempt was lost.
SendOutcomes(topic, message) ==
    {[topic |-> Append(topic, message), acked |-> TRUE, faults |-> 0]}
    \union
    IF MoreFaults
    THEN {[topic |-> topic, acked |-> FALSE, faults |-> 1],
          [topic |-> Append(topic, message), acked |-> FALSE, faults |-> 1],
          [topic |-> topic \o <<message, message>>, acked |-> TRUE, faults |-> 1]}
    ELSE {}

\* The service has a message to handle, and this is its place in the inbox.
HasMessage(s) == position[s] < Len(Inbox(s))
Current(s) == position[s] + 1

\* The handler of the service returns.
Handled(s) ==
    /\ position' = [position EXCEPT ![s] = @ + 1]
    /\ UNCHANGED <<offset, restarts, rejoins>>

\* What may have been committed by now: what was when the inbox was last read
\* from the committed offset, or any number of messages handled since.
Committed(s) == {n \in offset[s] .. position[s] : n = offset[s] \/ n > 0}

\* Mutant: every process makes up a group of its own.
ReadAgain_NewGroup(s) ==
    /\ position' = [position EXCEPT ![s] = Len(Inbox(s))]
    /\ UNCHANGED <<signals, candidates, evaluations, plans, results, sendFaults, offset>>

\* Mutant: the absent offset is taken for a position.
ReadAgain_NoDefault(s) ==
    /\ \E n \in Committed(s) :
         /\ offset' = [offset EXCEPT ![s] = n]
         /\ position' = [position EXCEPT ![s] = n]
    /\ UNCHANGED <<signals, candidates, evaluations, plans, results, sendFaults>>

\* The inbox of the service is read from the committed offset again.
ReadAgain(s) ==
    /\ \E n \in Committed(s) :
         /\ offset' = [offset EXCEPT ![s] = n]
         /\ position' = [position EXCEPT ![s] = IF n = NoOffset THEN Len(Inbox(s)) ELSE n]
    /\ UNCHANGED <<signals, candidates, evaluations, plans, results, sendFaults>>

\* The service is killed and started again.  Until then it does nothing, which
\* is a stutter, so that the two are one step.
Restarted(s) ==
    /\ MoreFaults
    /\ restarts' = restarts + 1
    /\ ReadAgain(s)
    /\ UNCHANGED rejoins

\* The broker takes the service for dead between two messages, and lets it join
\* again: the process goes on, its inbox is read from the committed offset.
Rejoined(s) ==
    /\ MoreFaults
    /\ rejoins' = rejoins + 1
    /\ ReadAgain(s)
    /\ UNCHANGED restarts
=============================================================================
