---------------------------- MODULE DoveWitness -----------------------------
(***************************************************************************)
(* What DoveCore promises: a log to which one entry is added at a time and  *)
(* from which nothing is ever removed; only an active observer adds to it;  *)
(* and whenever the owner or the registry changes, the log says so.         *)
(***************************************************************************)
EXTENDS Naturals, Sequences

CONSTANTS
    Addresses,   \* everything that can be an observer or a source
    Self,        \* Dove itself
    Owners,
    EventTypes,  \* what observers report
    SelfTypes    \* what Dove reports about itself

VARIABLES log, owner, known, active

vars == <<log, owner, known, active>>

Init ==
    /\ log = << >>
    /\ owner \in Owners
    /\ known = {Self}
    /\ active = {Self}

Added(source, type) ==
    log' = Append(log, [id |-> Len(log), source |-> source, eventType |-> type])

\* An active observer reports; it may name another contract as the source.
Report ==
    /\ active # {}
    /\ \E source \in Addresses, type \in EventTypes : Added(source, type)
    /\ UNCHANGED <<owner, known, active>>

\* The owner or the registry changes by one operation, and Dove reports it.
Govern ==
    /\ \E type \in SelfTypes : Added(Self, type)
    /\ \/ \E o \in Addresses \ known :
            /\ known' = known \union {o}
            /\ active' = active \union {o}
            /\ UNCHANGED owner
       \/ \E o \in known :
            /\ active' \in {active \ {o}, active \union {o}}
            /\ UNCHANGED <<owner, known>>
       \/ /\ owner' \in Owners
          /\ UNCHANGED <<known, active>>

Next == Report \/ Govern

Spec == Init /\ [][Next]_vars
=============================================================================
