------------------------------ MODULE DoveCore ------------------------------
(***************************************************************************)
(* DoveCore, the log every contract of the ecosystem reports to, and the    *)
(* way they report to it.  A contract that inherits DoveAware does its own  *)
(* work and then calls observe inside a try/catch: if Dove refuses, or the  *)
(* call runs out of gas, the work stands and Dove never hears of it.        *)
(* Every operation is one transaction.  Labels, payload bytes, block        *)
(* numbers and timestamps are left out; of a payload the model keeps        *)
(* whether it is within MAX_DATA_LENGTH.                                    *)
(***************************************************************************)
EXTENDS Naturals, Sequences, FiniteSets, Sums

CONSTANTS
    Contracts,       \* the contracts that report to Dove
    Owners,          \* accounts that may come to own Dove
    EventTypes,      \* what contracts report
    MaxObservations, \* bound on the length of the log
    MaxActs          \* bound on the events the contracts emit

\* Dove's own address: it is the first of its observers.
Self == "DOVE_CORE"
Addresses == Contracts \union {Self}

Registered == "OBSERVER_REGISTERED"
Deactivated == "OBSERVER_DEACTIVATED"
Reactivated == "OBSERVER_REACTIVATED"
Transferred == "OWNERSHIP_TRANSFERRED"
SelfTypes == {Registered, Deactivated, Reactivated, Transferred}
Types == EventTypes \union SelfTypes

ASSUME DoveAssumption ==
    /\ IsFiniteSet(Contracts)
    /\ Self \notin Contracts
    /\ Owners # {}
    /\ MaxObservations \in Nat
    /\ MaxActs \in Nat

VARIABLES
    owner,            \* who may change the registry
    observers,        \* per address: known, active, how many observations
    observerList,     \* known observers in order of registration
    observations,     \* the log
    observationCount, \* the id of the next observation
    bySource,         \* per source: the ids of its observations
    byType,           \* per event type: the ids of its observations
    status,           \* the status cache that getDoveStatus returns
    acted             \* events contracts emitted as active observers, per type

log == <<observations, observationCount, bySource, byType>>
vars == <<owner, observers, observerList, observations, observationCount,
          bySource, byType, status, acted>>

Observation == [id : Nat, source : Addresses, eventType : Types]
ObserverRecord == [known : BOOLEAN, active : BOOLEAN, count : Nat]
Unknown == [known |-> FALSE, active |-> FALSE, count |-> 0]
NewObserver == [known |-> TRUE, active |-> TRUE, count |-> 0]

\* The constructor registers Dove itself, and seeds the status cache as if that
\* had been observed.
Init ==
    /\ owner \in Owners
    /\ observers = [a \in Addresses |-> IF a = Self THEN NewObserver ELSE Unknown]
    /\ observerList = <<Self>>
    /\ observations = << >>
    /\ observationCount = 0
    /\ bySource = [a \in Addresses |-> << >>]
    /\ byType = [t \in Types |-> << >>]
    /\ status = [totalObservations |-> 0, activeObservers |-> 1,
                 totalRegisteredObservers |-> 1,
                 lastObservationSource |-> Self, lastObservationType |-> Registered]
    /\ acted = [c \in Contracts |-> [t \in EventTypes |-> 0]]
-----------------------------------------------------------------------------
\* One entry of the log, submitted by `by' (observe and _selfObserve store it
\* alike).  `registry' and `counts' are the observers and the status cache as
\* the calling function has already changed them.

\* Mutant: the status cache is given the id instead of the number of entries.
CachedStatus_BeforeIncrement(counts, source, type) ==
    [counts EXCEPT !.totalObservations = observationCount,
                   !.lastObservationSource = source,
                   !.lastObservationType = type]

CachedStatus(counts, source, type) ==
    [counts EXCEPT !.totalObservations = observationCount + 1,
                   !.lastObservationSource = source,
                   !.lastObservationType = type]

Entry(source, type) == [id |-> observationCount, source |-> source, eventType |-> type]

\* Mutant: the source index is keyed by the caller.
Logged_IndexedByCaller(by, source, type, registry, counts) ==
    /\ observations' = Append(observations, Entry(source, type))
    /\ observationCount' = observationCount + 1
    /\ bySource' = [bySource EXCEPT ![by] = Append(@, observationCount)]
    /\ byType' = [byType EXCEPT ![type] = Append(@, observationCount)]
    /\ observers' = [registry EXCEPT ![by].count = @ + 1]
    /\ status' = CachedStatus(counts, source, type)

\* Mutant: the observation is counted for the source it names.
Logged_CountedForSource(by, source, type, registry, counts) ==
    /\ observations' = Append(observations, Entry(source, type))
    /\ observationCount' = observationCount + 1
    /\ bySource' = [bySource EXCEPT ![source] = Append(@, observationCount)]
    /\ byType' = [byType EXCEPT ![type] = Append(@, observationCount)]
    /\ observers' = [registry EXCEPT ![source].count = @ + 1]
    /\ status' = CachedStatus(counts, source, type)

Logged(by, source, type, registry, counts) ==
    /\ observations' = Append(observations, Entry(source, type))
    /\ observationCount' = observationCount + 1
    /\ bySource' = [bySource EXCEPT ![source] = Append(@, observationCount)]
    /\ byType' = [byType EXCEPT ![type] = Append(@, observationCount)]
    /\ observers' = [registry EXCEPT ![by].count = @ + 1]
    /\ status' = CachedStatus(counts, source, type)

\* Dove's payloads are an address or two, a timestamp and a label of at most 64
\* bytes: they never reach the limit at which _selfObserve would say nothing.
SelfLogged(type, registry, counts) == Logged(Self, Self, type, registry, counts)

RoomInLog == Len(observations) < MaxObservations

\* observe: only an active observer is heard, with a payload within the limit.
\* The source it names need not be itself, and EventTypes may hold the types
\* that Dove uses for its own entries.
Observe(by, source, type) ==
    /\ RoomInLog
    /\ observers[by].active
    /\ Logged(by, source, type, observers, status)
    /\ UNCHANGED <<owner, observerList, acted>>

\* A contract completes an operation, emits its event and calls _observe.
\* `acted' counts what contracts do while they are active observers.
Emit(c, type) ==
    /\ acted[c][type] < MaxActs
    /\ acted' = IF observers[c].active THEN [acted EXCEPT ![c][type] = @ + 1] ELSE acted

\* observe does not revert: the caller is an active observer and the payload is
\* within the limit.
Accepts(c, fits) == observers[c].active /\ fits

\* The call to Dove succeeds.
ActWitnessed(c, type, fits) ==
    /\ RoomInLog
    /\ Emit(c, type)
    /\ Accepts(c, fits)
    /\ Logged(c, c, type, observers, status)
    /\ UNCHANGED <<owner, observerList>>

\* Dove refuses, or the gas left for the call does not suffice: the catch is
\* empty and the contract's own work stands.
ActUnwitnessed(c, type, fits, starved) ==
    /\ Emit(c, type)
    /\ ~Accepts(c, fits) \/ starved
    /\ UNCHANGED <<owner, observers, observerList, observations, observationCount,
                   bySource, byType, status>>
-----------------------------------------------------------------------------
\* The owner's operations.

\* Mutant: registering an observer that is already known is not refused.
RegisterObserver_Again(caller, o) ==
    /\ RoomInLog
    /\ caller = owner
    /\ SelfLogged(Registered,
                  [observers EXCEPT ![o] = NewObserver],
                  [status EXCEPT !.activeObservers = @ + 1,
                                 !.totalRegisteredObservers = @ + 1])
    /\ observerList' = Append(observerList, o)
    /\ UNCHANGED <<owner, acted>>

RegisterObserver(caller, o) ==
    /\ RoomInLog
    /\ caller = owner
    /\ ~observers[o].known
    /\ SelfLogged(Registered,
                  [observers EXCEPT ![o] = NewObserver],
                  [status EXCEPT !.activeObservers = @ + 1,
                                 !.totalRegisteredObservers = @ + 1])
    /\ observerList' = Append(observerList, o)
    /\ UNCHANGED <<owner, acted>>

\* Mutant: the decrement is unchecked and wraps around to 2^256 - 1.
DeactivateObserver_Wraps(caller, o) ==
    /\ RoomInLog
    /\ caller = owner
    /\ observers[o].known
    /\ SelfLogged(Deactivated,
                  [observers EXCEPT ![o].active = FALSE],
                  [status EXCEPT !.activeObservers =
                     IF @ = 0 THEN Cardinality(Addresses) + 1 ELSE @ - 1])
    /\ UNCHANGED <<owner, observerList, acted>>

\* Mutant: nothing is logged when an observer is silenced.
DeactivateObserver_Silently(caller, o) ==
    /\ caller = owner
    /\ observers[o].known
    /\ status.activeObservers > 0
    /\ observers' = [observers EXCEPT ![o].active = FALSE]
    /\ status' = [status EXCEPT !.activeObservers = @ - 1]
    /\ UNCHANGED <<owner, observerList, acted, log>>

\* The observer need not be active; the checked decrement reverts at zero.
DeactivateObserver(caller, o) ==
    /\ RoomInLog
    /\ caller = owner
    /\ observers[o].known
    /\ status.activeObservers > 0
    /\ SelfLogged(Deactivated,
                  [observers EXCEPT ![o].active = FALSE],
                  [status EXCEPT !.activeObservers = @ - 1])
    /\ UNCHANGED <<owner, observerList, acted>>

\* Mutant: an observer that is active is reactivated.
ReactivateObserver_Twice(caller, o) ==
    /\ RoomInLog
    /\ caller = owner
    /\ observers[o].known
    /\ SelfLogged(Reactivated,
                  [observers EXCEPT ![o].active = TRUE],
                  [status EXCEPT !.activeObservers = @ + 1])
    /\ UNCHANGED <<owner, observerList, acted>>

ReactivateObserver(caller, o) ==
    /\ RoomInLog
    /\ caller = owner
    /\ observers[o].known
    /\ ~observers[o].active
    /\ SelfLogged(Reactivated,
                  [observers EXCEPT ![o].active = TRUE],
                  [status EXCEPT !.activeObservers = @ + 1])
    /\ UNCHANGED <<owner, observerList, acted>>

TransferOwnership(caller, newOwner) ==
    /\ RoomInLog
    /\ caller = owner
    /\ owner' = newOwner
    /\ SelfLogged(Transferred, observers, status)
    /\ UNCHANGED <<observerList, acted>>
-----------------------------------------------------------------------------
\* Views.

\* Mutant: the slice stops before the newest entry.
GetObservations_LastMissing(offset, limit) ==
    LET total == Len(observations)
        end == IF offset + limit >= total THEN total - 1 ELSE offset + limit
    IN  IF offset >= total THEN << >> ELSE SubSeq(observations, offset + 1, end)

GetObservations(offset, limit) ==
    LET total == Len(observations)
        end == IF offset + limit > total THEN total ELSE offset + limit
    IN  IF offset >= total THEN << >> ELSE SubSeq(observations, offset + 1, end)
-----------------------------------------------------------------------------
Reporting ==
    \/ \E by \in Addresses \ {Self}, source \in Addresses, type \in EventTypes :
         Observe(by, source, type)
    \/ \E c \in Contracts, type \in EventTypes, fits \in BOOLEAN :
         \/ ActWitnessed(c, type, fits)
         \/ \E starved \in BOOLEAN : ActUnwitnessed(c, type, fits, starved)

Governance ==
    \E caller \in Owners :
        \/ \E o \in Addresses : \/ RegisterObserver(caller, o)
                                \/ DeactivateObserver(caller, o)
                                \/ ReactivateObserver(caller, o)
        \/ \E newOwner \in Owners : TransferOwnership(caller, newOwner)

Next == Reporting \/ Governance

Spec == Init /\ [][Next]_vars
-----------------------------------------------------------------------------
\* Properties.

\* Every variable has its type; in particular the count of active observers
\* never leaves the range a registry of this size can give it.
TypeOK ==
    /\ owner \in Owners
    /\ observers \in [Addresses -> ObserverRecord]
    /\ observerList \in Seq(Addresses)
    /\ observations \in Seq(Observation)
    /\ observationCount \in Nat
    /\ bySource \in [Addresses -> Seq(Nat)]
    /\ byType \in [Types -> Seq(Nat)]
    /\ status \in [totalObservations : Nat, activeObservers : 0 .. Cardinality(Addresses),
                   totalRegisteredObservers : Nat,
                   lastObservationSource : Addresses, lastObservationType : Types]
    /\ acted \in [Contracts -> [EventTypes -> Nat]]

\* `ids' lists the members of `set' in order and once each.
Lists(ids, set) ==
    /\ \A i \in 1 .. Len(ids), j \in 1 .. Len(ids) : i < j => ids[i] < ids[j]
    /\ {ids[i] : i \in 1 .. Len(ids)} = set

IdsOfSource(a) == {k - 1 : k \in {i \in 1 .. Len(observations) : observations[i].source = a}}
IdsOfType(t) == {k - 1 : k \in {i \in 1 .. Len(observations) : observations[i].eventType = t}}

\* The two indexes and the log agree: the ids kept for a source, and those kept
\* for an event type, are exactly the entries of that source or type, in order
\* and without repetition, whoever submitted them.
IndexesAgree ==
    /\ \A a \in Addresses : Lists(bySource[a], IdsOfSource(a))
    /\ \A t \in Types : Lists(byType[t], IdsOfType(t))

\* The counter, the ids and the status cache agree with the log: getDoveStatus
\* describes the newest entry, also after operations that log on Dove's behalf.
StatusAgrees ==
    /\ observationCount = Len(observations)
    /\ \A i \in 1 .. Len(observations) : observations[i].id = i - 1
    /\ status.totalObservations = Len(observations)
    /\ observations # << >> =>
         /\ status.lastObservationSource = observations[Len(observations)].source
         /\ status.lastObservationType = observations[Len(observations)].eventType

Active == {a \in Addresses : observers[a].active}

\* The registry agrees with itself: the list names every known observer once,
\* the cached totals follow it, and the cached number of active observers never
\* exceeds the number that can actually report.
RegistryAgrees ==
    /\ {observerList[i] : i \in 1 .. Len(observerList)}
         = {a \in Addresses : observers[a].known}
    /\ \A i \in 1 .. Len(observerList), j \in 1 .. Len(observerList) :
         observerList[i] = observerList[j] => i = j
    /\ status.totalRegisteredObservers = Len(observerList)
    /\ \A a \in Active : observers[a].known
    /\ status.activeObservers <= Cardinality(Active)

\* What the listed observers are credited with, in the order of the list.
CreditsListed == [i \in 1 .. Len(observerList) |-> observers[observerList[i]].count]

\* Every entry is on some listed observer's account: what the observers are
\* credited with adds up to the log, though entries may name another source.
EveryEntryCounted == SumUpTo(CreditsListed, Len(observerList)) = Len(observations)

\* Deactivation preserves the record: a known observer stays known, and what it
\* has been credited with is never taken back.
HistoryPreserved ==
    [][\A a \in Addresses :
         /\ observers[a].known => observers'[a].known
         /\ observers'[a].count >= observers[a].count]_vars

\* A reader who asks for the log page by page gets the log, for every page size.
PagesTileLog ==
    \A limit \in 1 .. MaxObservations :
        LET page[k \in 0 .. Len(observations)] ==
                IF k = 0 THEN << >>
                ELSE page[k - 1] \o GetObservations((k - 1) * limit, limit)
        IN  page[Len(observations)] = observations

\* Dove behaves as the witness: one entry per accepted report, by an active
\* observer, and no change of owner or registry without an entry of its own.
Witness == INSTANCE DoveWitness WITH
             log <- observations,
             known <- {a \in Addresses : observers[a].known},
             active <- Active

ImplementsWitness == Witness!Spec

\* The status cache says how many observers are active.
ActiveCountRight == status.activeObservers = Cardinality(Active)

\* Whatever a contract does while it is an active observer is in the log.
NothingInvisible ==
    \A c \in Contracts, t \in EventTypes :
        acted[c][t] <= Cardinality({i \in 1 .. Len(observations) :
                                      /\ observations[i].source = c
                                      /\ observations[i].eventType = t})
=============================================================================
