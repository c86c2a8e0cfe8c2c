--------------------------- MODULE DoveCore_proofs --------------------------
(***************************************************************************)
(* DoveCore keeps its log, its indexes, its status cache and its registry   *)
(* in agreement, and implements DoveWitness, for any number of contracts,   *)
(* owners and observations.                                                 *)
(***************************************************************************)
EXTENDS DoveCore, Sums_proofs, SequenceTheorems, FiniteSetTheorems, TLAPS

\* The log, apart from who wrote it.
LogTypeOK ==
    /\ observations \in Seq(Observation)
    /\ observationCount \in Nat
    /\ bySource \in [Addresses -> Seq(Nat)]
    /\ byType \in [Types -> Seq(Nat)]

LogNumbered ==
    /\ observationCount = Len(observations)
    /\ \A i \in 1 .. Len(observations) : observations[i].id = i - 1

LogInv == LogTypeOK /\ LogNumbered /\ IndexesAgree

DoveInv == TypeOK /\ IndexesAgree /\ StatusAgrees /\ RegistryAgrees

StatusType == [totalObservations : Nat, activeObservers : 0 .. Cardinality(Addresses),
               totalRegisteredObservers : Nat,
               lastObservationSource : Addresses, lastObservationType : Types]
-----------------------------------------------------------------------------
\* Addresses and counts of active observers.

LEMMA AddressesFinite ==
    /\ IsFiniteSet(Addresses) /\ Cardinality(Addresses) \in Nat
    /\ Self \in Addresses /\ Contracts \subseteq Addresses
<1>1. IsFiniteSet({Self})
  BY FS_Singleton
<1>2. IsFiniteSet(Addresses)
  BY <1>1, DoveAssumption, FS_Union DEF DoveAssumption, Addresses
<1> QED
  BY <1>2, FS_CardinalityType DEF Addresses

LEMMA SubsetCount ==
    ASSUME NEW S, S \subseteq Addresses
    PROVE  IsFiniteSet(S) /\ Cardinality(S) \in Nat /\ Cardinality(S) <= Cardinality(Addresses)
  BY AddressesFinite, FS_Subset, FS_CardinalityType

\* Adding or removing one element.
LEMMA CountAdd ==
    ASSUME NEW S, S \subseteq Addresses, NEW x \in Addresses, x \notin S
    PROVE  Cardinality(S \union {x}) = Cardinality(S) + 1
  BY SubsetCount, FS_AddElement

LEMMA CountRemove ==
    ASSUME NEW S, S \subseteq Addresses, NEW x \in Addresses
    PROVE  Cardinality(S \ {x}) >= Cardinality(S) - 1
<1>1. CASE x \in S
  BY <1>1, SubsetCount, FS_RemoveElement
<1>2. CASE x \notin S
  <2>1. S \ {x} = S
    BY <1>2
  <2> QED
    BY <2>1, SubsetCount
<1> QED
  BY <1>1, <1>2

LEMMA TypesKnown ==
    /\ Registered \in Types /\ Deactivated \in Types /\ Reactivated \in Types
    /\ Transferred \in Types /\ EventTypes \subseteq Types
    /\ Registered \in SelfTypes /\ Deactivated \in SelfTypes /\ Reactivated \in SelfTypes
    /\ Transferred \in SelfTypes
  BY DEF Types, SelfTypes
-----------------------------------------------------------------------------
\* What one more entry does to the log and its indexes.

\* A list of members of S stays one when a larger number joins both.
LEMMA ListsAppend ==
    ASSUME NEW ids \in Seq(Nat), NEW S, Lists(ids, S), NEW n \in Nat,
           \A m \in S : m < n
    PROVE  Lists(Append(ids, n), S \union {n})
<1> DEFINE new == Append(ids, n)
<1>1. /\ new \in Seq(Nat) /\ Len(ids) \in Nat /\ Len(new) = Len(ids) + 1
      /\ \A i \in 1 .. Len(ids) : new[i] = ids[i]
      /\ new[Len(ids) + 1] = n
  BY AppendProperties, LenProperties
<1>2. /\ \A i \in 1 .. Len(ids), j \in 1 .. Len(ids) : i < j => ids[i] < ids[j]
      /\ {ids[i] : i \in 1 .. Len(ids)} = S
  BY DEF Lists
<1> HIDE DEF new
<1>3. \A i \in 1 .. Len(new), j \in 1 .. Len(new) : i < j => new[i] < new[j]
  <2> SUFFICES ASSUME NEW i \in 1 .. Len(new), NEW j \in 1 .. Len(new), i < j
               PROVE  new[i] < new[j]
    OBVIOUS
  <2>1. i \in 1 .. Len(ids) /\ new[i] = ids[i]
    BY <1>1
  <2>2. CASE j = Len(ids) + 1
    BY <1>1, <1>2, <2>1, <2>2
  <2>3. CASE j \in 1 .. Len(ids)
    BY <1>1, <1>2, <2>1, <2>3
  <2> QED
    BY <1>1, <2>2, <2>3
<1>4. {new[i] : i \in 1 .. Len(new)} = S \union {n}
  <2>1. ASSUME NEW i \in 1 .. Len(new) PROVE new[i] \in S \union {n}
    <3>1. CASE i = Len(ids) + 1
      BY <1>1, <3>1
    <3>2. CASE i \in 1 .. Len(ids)
      BY <1>1, <1>2, <3>2
    <3> QED
      BY <1>1, <3>1, <3>2
  <2>2. ASSUME NEW m \in S PROVE \E i \in 1 .. Len(new) : new[i] = m
    <3>1. PICK i \in 1 .. Len(ids) : ids[i] = m
      BY <1>2
    <3>2. i \in 1 .. Len(new) /\ new[i] = m
      BY <1>1, <3>1
    <3> QED
      BY <3>2
  <2>3. \E i \in 1 .. Len(new) : new[i] = n
    BY <1>1
  <2> QED
    BY <2>1, <2>2, <2>3
<1> QED
  BY <1>3, <1>4 DEF Lists, new

\* The ids of a source, and of a type, by their entries.
LEMMA IdsMembers ==
    ASSUME NEW obs, Len(obs) \in Nat, NEW x
    PROVE  /\ {k - 1 : k \in {i \in 1 .. Len(obs) : obs[i].source = x}}
                = {m \in Nat : m < Len(obs) /\ obs[m + 1].source = x}
           /\ {k - 1 : k \in {i \in 1 .. Len(obs) : obs[i].eventType = x}}
                = {m \in Nat : m < Len(obs) /\ obs[m + 1].eventType = x}
<1>1. ASSUME NEW m
      PROVE  m \in {k - 1 : k \in {i \in 1 .. Len(obs) : obs[i].source = x}}
               <=> m \in Nat /\ m < Len(obs) /\ obs[m + 1].source = x
  <2>1. ASSUME m \in {k - 1 : k \in {i \in 1 .. Len(obs) : obs[i].source = x}}
        PROVE  m \in Nat /\ m < Len(obs) /\ obs[m + 1].source = x
    <3>1. PICK k \in 1 .. Len(obs) : obs[k].source = x /\ m = k - 1
      BY <2>1
    <3>2. m + 1 = k
      BY <3>1
    <3> QED
      BY <3>1, <3>2
  <2>2. ASSUME m \in Nat, m < Len(obs), obs[m + 1].source = x
        PROVE  m \in {k - 1 : k \in {i \in 1 .. Len(obs) : obs[i].source = x}}
    <3>1. m + 1 \in 1 .. Len(obs) /\ m = (m + 1) - 1
      BY <2>2
    <3> QED
      BY <2>2, <3>1
  <2> QED
    BY <2>1, <2>2
<1>2. ASSUME NEW m
      PROVE  m \in {k - 1 : k \in {i \in 1 .. Len(obs) : obs[i].eventType = x}}
               <=> m \in Nat /\ m < Len(obs) /\ obs[m + 1].eventType = x
  <2>1. ASSUME m \in {k - 1 : k \in {i \in 1 .. Len(obs) : obs[i].eventType = x}}
        PROVE  m \in Nat /\ m < Len(obs) /\ obs[m + 1].eventType = x
    <3>1. PICK k \in 1 .. Len(obs) : obs[k].eventType = x /\ m = k - 1
      BY <2>1
    <3>2. m + 1 = k
      BY <3>1
    <3> QED
      BY <3>1, <3>2
  <2>2. ASSUME m \in Nat, m < Len(obs), obs[m + 1].eventType = x
        PROVE  m \in {k - 1 : k \in {i \in 1 .. Len(obs) : obs[i].eventType = x}}
    <3>1. m + 1 \in 1 .. Len(obs) /\ m = (m + 1) - 1
      BY <2>2
    <3> QED
      BY <2>2, <3>1
  <2> QED
    BY <2>1, <2>2
<1> QED
  BY <1>1, <1>2

\* The log part of the invariant survives an entry, whoever submits it.
LEMMA LoggedStep ==
    ASSUME LogInv, NEW by \in Addresses, NEW source \in Addresses, NEW type \in Types,
           NEW registry, NEW counts, Logged(by, source, type, registry, counts)
    PROVE  /\ LogInv'
           /\ Len(observations') = Len(observations) + 1
           /\ observations'[Len(observations')] = Entry(source, type)
<1> DEFINE n == Len(observations)
           e == Entry(source, type)
<1>1. /\ observations \in Seq(Observation) /\ observationCount = n /\ n \in Nat
      /\ bySource \in [Addresses -> Seq(Nat)] /\ byType \in [Types -> Seq(Nat)]
  BY LenProperties DEF LogInv, LogTypeOK, LogNumbered
<1>2. e \in Observation /\ e.id = n /\ e.source = source /\ e.eventType = type
  BY <1>1 DEF Entry, Observation
<1>3. /\ observations' = Append(observations, e) /\ observationCount' = n + 1
      /\ bySource' = [bySource EXCEPT ![source] = Append(bySource[source], n)]
      /\ byType' = [byType EXCEPT ![type] = Append(byType[type], n)]
  BY <1>1 DEF Logged
<1> HIDE DEF e
<1>4. /\ observations' \in Seq(Observation) /\ Len(observations') = n + 1
      /\ \A i \in 1 .. n : observations'[i] = observations[i]
      /\ observations'[n + 1] = e
  BY <1>1, <1>2, <1>3, AppendProperties
<1>5. LogTypeOK'
  <2>1. bySource' \in [Addresses -> Seq(Nat)]
    BY <1>1, <1>3, AppendProperties
  <2>2. byType' \in [Types -> Seq(Nat)]
    BY <1>1, <1>3, AppendProperties
  <2> QED
    BY <1>1, <1>3, <1>4, <2>1, <2>2 DEF LogTypeOK
<1>6. LogNumbered'
  <2>1. ASSUME NEW i \in 1 .. n + 1 PROVE observations'[i].id = i - 1
    <3>1. CASE i \in 1 .. n
      BY <1>4, <3>1 DEF LogInv, LogNumbered
    <3>2. CASE i = n + 1
      BY <1>1, <1>2, <1>4, <3>2
    <3> QED
      BY <1>1, <3>1, <3>2
  <2> QED
    BY <1>3, <1>4, <2>1 DEF LogNumbered
<1>7. \A s \in Addresses : Lists(bySource'[s], IdsOfSource(s)')
  <2> SUFFICES ASSUME NEW s \in Addresses PROVE Lists(bySource'[s], IdsOfSource(s)')
    OBVIOUS
  <2>1. /\ IdsOfSource(s) = {m \in Nat : m < n /\ observations[m + 1].source = s}
        /\ IdsOfSource(s)' = {m \in Nat : m < n + 1 /\ observations'[m + 1].source = s}
    <3>1. Len(observations) \in Nat /\ Len(observations') \in Nat
      BY <1>1, <1>4
    <3> QED
      BY <1>4, <3>1, IdsMembers DEF IdsOfSource
  <2>2. \A m \in Nat : m < n => observations'[m + 1] = observations[m + 1]
    BY <1>1, <1>4
  <2>3. Lists(bySource[s], IdsOfSource(s)) /\ bySource[s] \in Seq(Nat)
    BY <1>1 DEF LogInv, IndexesAgree
  <2>4. CASE s = source
    <3>1. IdsOfSource(s)' = IdsOfSource(s) \union {n}
      BY <1>1, <1>2, <1>4, <2>1, <2>2, <2>4
    <3>2. bySource'[s] = Append(bySource[s], n)
      BY <1>1, <1>3, <2>4
    <3>3. \A m \in IdsOfSource(s) : m < n
      BY <2>1
    <3> QED
      BY <1>1, <2>3, <3>1, <3>2, <3>3, ListsAppend
  <2>5. CASE s # source
    <3>1. IdsOfSource(s)' = IdsOfSource(s)
      BY <1>1, <1>2, <1>4, <2>1, <2>2, <2>5
    <3>2. bySource'[s] = bySource[s]
      BY <1>1, <1>3, <2>5
    <3> QED
      BY <2>3, <3>1, <3>2
  <2> QED
    BY <2>4, <2>5
<1>8. \A t \in Types : Lists(byType'[t], IdsOfType(t)')
  <2> SUFFICES ASSUME NEW t \in Types PROVE Lists(byType'[t], IdsOfType(t)')
    OBVIOUS
  <2>1. /\ IdsOfType(t) = {m \in Nat : m < n /\ observations[m + 1].eventType = t}
        /\ IdsOfType(t)' = {m \in Nat : m < n + 1 /\ observations'[m + 1].eventType = t}
    <3>1. Len(observations) \in Nat /\ Len(observations') \in Nat
      BY <1>1, <1>4
    <3> QED
      BY <1>4, <3>1, IdsMembers DEF IdsOfType
  <2>2. \A m \in Nat : m < n => observations'[m + 1] = observations[m + 1]
    BY <1>1, <1>4
  <2>3. Lists(byType[t], IdsOfType(t)) /\ byType[t] \in Seq(Nat)
    BY <1>1 DEF LogInv, IndexesAgree
  <2>4. CASE t = type
    <3>1. IdsOfType(t)' = IdsOfType(t) \union {n}
      BY <1>1, <1>2, <1>4, <2>1, <2>2, <2>4
    <3>2. byType'[t] = Append(byType[t], n)
      BY <1>1, <1>3, <2>4
    <3>3. \A m \in IdsOfType(t) : m < n
      BY <2>1
    <3> QED
      BY <1>1, <2>3, <3>1, <3>2, <3>3, ListsAppend
  <2>5. CASE t # type
    <3>1. IdsOfType(t)' = IdsOfType(t)
      BY <1>1, <1>2, <1>4, <2>1, <2>2, <2>5
    <3>2. byType'[t] = byType[t]
      BY <1>1, <1>3, <2>5
    <3> QED
      BY <2>3, <3>1, <3>2
  <2> QED
    BY <2>4, <2>5
<1>9. IndexesAgree'
  BY <1>7, <1>8 DEF IndexesAgree
<1> QED
  BY <1>4, <1>5, <1>6, <1>9 DEF LogInv, e

\* What an entry does to the registry: it credits the one who submits it.
LEMMA RegistryEffect ==
    ASSUME NEW by \in Addresses, NEW source, NEW type,
           NEW registry \in [Addresses -> ObserverRecord], NEW counts,
           Logged(by, source, type, registry, counts)
    PROVE  /\ observers' \in [Addresses -> ObserverRecord]
           /\ \A a \in Addresses : /\ observers'[a].active = registry[a].active
                                   /\ observers'[a].known = registry[a].known
                                   /\ observers'[a].count >= registry[a].count
                                   /\ a # by => observers'[a].count = registry[a].count
                                   /\ a = by => observers'[a].count = registry[a].count + 1
<1>1. observers' = [registry EXCEPT ![by] = [registry[by] EXCEPT !.count = registry[by].count + 1]]
  BY DEF Logged
<1>2. registry[by] \in ObserverRecord
  OBVIOUS
<1>3. [registry[by] EXCEPT !.count = registry[by].count + 1] \in ObserverRecord
  BY <1>2 DEF ObserverRecord
<1>4. observers' \in [Addresses -> ObserverRecord]
  BY <1>1, <1>3
<1>5. \A a \in Addresses : /\ observers'[a].active = registry[a].active
                           /\ observers'[a].known = registry[a].known
                           /\ observers'[a].count >= registry[a].count
                           /\ a # by => observers'[a].count = registry[a].count
                           /\ a = by => observers'[a].count = registry[a].count + 1
  <2> SUFFICES ASSUME NEW a \in Addresses
               PROVE  /\ observers'[a].active = registry[a].active
                      /\ observers'[a].known = registry[a].known
                      /\ observers'[a].count >= registry[a].count
                      /\ a # by => observers'[a].count = registry[a].count
                      /\ a = by => observers'[a].count = registry[a].count + 1
    OBVIOUS
  <2>1. registry[a] \in ObserverRecord
    OBVIOUS
  <2>2. CASE a = by
    BY <1>1, <2>1, <2>2 DEF ObserverRecord
  <2>3. CASE a # by
    BY <1>1, <2>1, <2>3 DEF ObserverRecord
  <2> QED
    BY <2>2, <2>3
<1> QED
  BY <1>4, <1>5

\* The whole effect of an entry on DoveInv: what the caller made of the registry
\* and of the cached counts decides the rest.
LEMMA EntryStep ==
    ASSUME DoveInv, NEW by \in Addresses, NEW source \in Addresses, NEW type \in Types,
           NEW registry \in [Addresses -> ObserverRecord], NEW counts \in StatusType,
           Logged(by, source, type, registry, counts)
    PROVE  /\ LogInv'
           /\ StatusAgrees'
           /\ status' \in StatusType
           /\ status'.activeObservers = counts.activeObservers
           /\ status'.totalRegisteredObservers = counts.totalRegisteredObservers
           /\ observers' \in [Addresses -> ObserverRecord]
           /\ \A a \in Addresses : /\ observers'[a].active = registry[a].active
                                    /\ observers'[a].known = registry[a].known
<1>1. LogInv
  BY DEF DoveInv, TypeOK, StatusAgrees, LogInv, LogTypeOK, LogNumbered
<1>2. /\ LogInv' /\ Len(observations') = Len(observations) + 1
      /\ observations'[Len(observations')] = Entry(source, type)
  BY <1>1, LoggedStep
<1>3. observationCount = Len(observations) /\ Len(observations) \in Nat
  BY <1>1, LenProperties DEF LogInv, LogTypeOK, LogNumbered
<1>4. status' = [counts EXCEPT !.totalObservations = observationCount + 1,
                               !.lastObservationSource = source,
                               !.lastObservationType = type]
  BY DEF Logged, CachedStatus
<1>5. /\ status' \in StatusType /\ status'.totalObservations = Len(observations')
      /\ status'.activeObservers = counts.activeObservers
      /\ status'.totalRegisteredObservers = counts.totalRegisteredObservers
      /\ status'.lastObservationSource = source /\ status'.lastObservationType = type
  <2>1. observationCount + 1 \in Nat /\ observationCount + 1 = Len(observations')
    BY <1>2, <1>3
  <2> QED
    BY <1>4, <2>1 DEF StatusType
<1>6. StatusAgrees'
  BY <1>2, <1>5 DEF StatusAgrees, LogInv, LogNumbered, Entry
<1>7. /\ observers' \in [Addresses -> ObserverRecord]
      /\ \A a \in Addresses : /\ observers'[a].active = registry[a].active
                              /\ observers'[a].known = registry[a].known
  BY RegistryEffect
<1> QED
  BY <1>2, <1>5, <1>6, <1>7
-----------------------------------------------------------------------------
\* The invariant, one operation at a time.

LEMMA InitInv == Init => DoveInv
<1> SUFFICES ASSUME Init PROVE DoveInv
  OBVIOUS
<1>1. /\ Self \in Addresses /\ Registered \in Types
      /\ IsFiniteSet(Addresses) /\ Cardinality(Addresses) \in Nat
  BY AddressesFinite, TypesKnown
<1>2. Active = {Self}
  BY <1>1 DEF Init, Active, NewObserver, Unknown
<1>3. Cardinality(Active) = 1 /\ 1 \in 0 .. Cardinality(Addresses)
  BY <1>1, <1>2, FS_Singleton, SubsetCount
<1>4. observers \in [Addresses -> ObserverRecord]
  BY DEF Init, ObserverRecord, NewObserver, Unknown
<1>5. observerList = <<Self>> /\ observerList \in Seq(Addresses) /\ Len(observerList) = 1
  BY <1>1 DEF Init
<1>6. observations = << >> /\ Len(observations) = 0 /\ observations \in Seq(Observation)
  BY DEF Init
<1>7. /\ \A a \in Addresses : bySource[a] = << >>
      /\ \A u \in Types : byType[u] = << >>
  BY DEF Init
<1>8. TypeOK
  <2>1. bySource \in [Addresses -> Seq(Nat)] /\ byType \in [Types -> Seq(Nat)]
    BY DEF Init
  <2>2. status \in StatusType
    BY <1>1, <1>3 DEF Init, StatusType
  <2>3. /\ owner \in Owners /\ observationCount \in Nat
        /\ acted \in [Contracts -> [EventTypes -> Nat]]
    BY DEF Init
  <2> QED
    BY <1>4, <1>5, <1>6, <2>1, <2>2, <2>3 DEF TypeOK, StatusType
<1>9. IndexesAgree
  BY <1>6, <1>7 DEF IndexesAgree, Lists, IdsOfSource, IdsOfType
<1>10. StatusAgrees
  BY <1>6 DEF Init, StatusAgrees
<1>11. RegistryAgrees
  <2>1. {observerList[i] : i \in 1 .. Len(observerList)} = {Self}
    BY <1>5
  <2>2. {a \in Addresses : observers[a].known} = {Self}
    BY <1>1 DEF Init, NewObserver, Unknown
  <2>3. /\ status.totalRegisteredObservers = 1 /\ status.activeObservers = 1
        /\ \A a \in Active : observers[a].known
    BY <1>1, <1>2 DEF Init, NewObserver
  <2> QED
    BY <1>3, <1>5, <2>1, <2>2, <2>3 DEF RegistryAgrees
<1> QED
  BY <1>8, <1>9, <1>10, <1>11 DEF DoveInv

\* From the parts of DoveInv to the whole.
LEMMA AssembleInv ==
    ASSUME LogInv', StatusAgrees', status' \in StatusType,
           observers' \in [Addresses -> ObserverRecord],
           owner' \in Owners, observerList' \in Seq(Addresses),
           acted' \in [Contracts -> [EventTypes -> Nat]], RegistryAgrees'
    PROVE  DoveInv'
<1>1. /\ observations' \in Seq(Observation) /\ observationCount' \in Nat
      /\ bySource' \in [Addresses -> Seq(Nat)] /\ byType' \in [Types -> Seq(Nat)]
  BY DEF LogInv, LogTypeOK
<1>2. TypeOK'
  BY <1>1 DEF TypeOK, StatusType
<1> QED
  BY <1>2 DEF DoveInv, LogInv

LEMMA InvTypes ==
    ASSUME DoveInv
    PROVE  /\ status \in StatusType /\ observers \in [Addresses -> ObserverRecord]
           /\ owner \in Owners /\ observerList \in Seq(Addresses)
           /\ acted \in [Contracts -> [EventTypes -> Nat]]
           /\ status.activeObservers \in Nat /\ status.totalRegisteredObservers \in Nat
           /\ status.activeObservers <= Cardinality(Active)
           /\ Active \subseteq Addresses
  BY AddressesFinite DEF DoveInv, TypeOK, StatusType, RegistryAgrees, Active

\* An entry that leaves the registry alone: a report, or a change of owner.
LEMMA PlainEntryStep ==
    ASSUME DoveInv, NEW by \in Addresses, NEW source \in Addresses, NEW type \in Types,
           Logged(by, source, type, observers, status), UNCHANGED observerList,
           owner' \in Owners, acted' \in [Contracts -> [EventTypes -> Nat]]
    PROVE  DoveInv'
<1>1. status \in StatusType /\ observers \in [Addresses -> ObserverRecord]
  BY InvTypes
<1>2. /\ LogInv' /\ StatusAgrees' /\ status' \in StatusType
      /\ status'.activeObservers = status.activeObservers
      /\ status'.totalRegisteredObservers = status.totalRegisteredObservers
      /\ observers' \in [Addresses -> ObserverRecord]
      /\ \A a \in Addresses : /\ observers'[a].active = observers[a].active
                              /\ observers'[a].known = observers[a].known
  BY <1>1, EntryStep
<1>3. Active' = Active /\ {a \in Addresses : observers'[a].known}
                            = {a \in Addresses : observers[a].known}
  BY <1>2 DEF Active
<1>4. RegistryAgrees'
  <2>1. \A a \in Active' : observers'[a].known
    BY <1>2, <1>3 DEF DoveInv, RegistryAgrees, Active
  <2> QED
    BY <1>2, <1>3, <2>1 DEF DoveInv, RegistryAgrees
<1>5. observerList' \in Seq(Addresses)
  BY InvTypes
<1> QED
  BY <1>2, <1>4, <1>5, AssembleInv

LEMMA RegisterStep ==
    ASSUME DoveInv, NEW caller \in Owners, NEW o \in Addresses, RegisterObserver(caller, o)
    PROVE  DoveInv'
<1> DEFINE registry == [observers EXCEPT ![o] = NewObserver]
           counts == [status EXCEPT !.activeObservers = @ + 1,
                                    !.totalRegisteredObservers = @ + 1]
           n == Len(observerList)
<1>1. /\ status \in StatusType /\ observers \in [Addresses -> ObserverRecord]
      /\ observerList \in Seq(Addresses) /\ n \in Nat
      /\ status.activeObservers \in Nat /\ status.totalRegisteredObservers \in Nat
      /\ status.activeObservers <= Cardinality(Active) /\ Active \subseteq Addresses
      /\ Cardinality(Active) \in Nat
  BY InvTypes, LenProperties, SubsetCount
<1>2. /\ ~observers[o].known /\ Self \in Addresses /\ Registered \in Types
      /\ observerList' = Append(observerList, o)
      /\ Logged(Self, Self, Registered, registry, counts)
      /\ UNCHANGED <<owner, acted>>
  BY AddressesFinite, TypesKnown DEF RegisterObserver, SelfLogged
<1>3. o \notin Active
  BY <1>2 DEF DoveInv, RegistryAgrees
<1>4. /\ Cardinality(Active \union {o}) = Cardinality(Active) + 1
      /\ Cardinality(Active \union {o}) <= Cardinality(Addresses)
      /\ Cardinality(Addresses) \in Nat
  <2>1. Active \union {o} \subseteq Addresses
    BY <1>1
  <2> QED
    BY <1>1, <1>3, <2>1, CountAdd, SubsetCount, AddressesFinite
<1>5. registry \in [Addresses -> ObserverRecord]
  <2>1. NewObserver \in ObserverRecord
    BY DEF NewObserver, ObserverRecord
  <2> QED
    BY <1>1, <2>1
<1>6. /\ counts \in StatusType /\ counts.activeObservers = status.activeObservers + 1
      /\ counts.totalRegisteredObservers = status.totalRegisteredObservers + 1
  <2>1. status.activeObservers + 1 \in 0 .. Cardinality(Addresses)
    BY <1>1, <1>4
  <2>2. status.totalRegisteredObservers + 1 \in Nat
    BY <1>1
  <2>3. status \in StatusType
    BY <1>1
  <2> QED
    BY <2>1, <2>2, <2>3 DEF StatusType
<1>7. \A a \in Addresses : registry[a] = IF a = o THEN NewObserver ELSE observers[a]
  BY <1>1
<1> HIDE DEF registry, counts
<1>8. /\ LogInv' /\ StatusAgrees' /\ status' \in StatusType
      /\ status'.activeObservers = counts.activeObservers
      /\ status'.totalRegisteredObservers = counts.totalRegisteredObservers
      /\ observers' \in [Addresses -> ObserverRecord]
      /\ \A a \in Addresses : /\ observers'[a].active = registry[a].active
                              /\ observers'[a].known = registry[a].known
  BY <1>2, <1>5, <1>6, EntryStep
<1>9. /\ Active' = Active \union {o}
      /\ {a \in Addresses : observers'[a].known}
           = {a \in Addresses : observers[a].known} \union {o}
  BY <1>7, <1>8 DEF Active, NewObserver
<1>10. /\ observerList' \in Seq(Addresses) /\ Len(observerList') = n + 1
       /\ \A i \in 1 .. n : observerList'[i] = observerList[i]
       /\ observerList'[n + 1] = o
  BY <1>1, <1>2, AppendProperties
<1>11. /\ {observerList[i] : i \in 1 .. n} = {a \in Addresses : observers[a].known}
       /\ \A i \in 1 .. n, j \in 1 .. n : observerList[i] = observerList[j] => i = j
       /\ status.totalRegisteredObservers = n
       /\ \A a \in Active : observers[a].known
  BY DEF DoveInv, RegistryAgrees
<1>12. {observerList'[i] : i \in 1 .. n + 1} = {observerList[i] : i \in 1 .. n} \union {o}
  <2>1. \A i \in 1 .. n + 1 : i \in 1 .. n \/ i = n + 1
    BY <1>1
  <2>2. n + 1 \in 1 .. n + 1 /\ \A i \in 1 .. n : i \in 1 .. n + 1
    BY <1>1
  <2> QED
    BY <1>10, <2>1, <2>2
<1>13. ASSUME NEW i \in 1 .. n + 1, NEW j \in 1 .. n + 1, observerList'[i] = observerList'[j]
       PROVE  i = j
  <2>1. \A k \in 1 .. n : observerList[k] # o
    BY <1>2, <1>11
  <2>2. \A k \in 1 .. n + 1 : k \in 1 .. n \/ k = n + 1
    BY <1>1
  <2> QED
    BY <1>10, <1>11, <1>13, <2>1, <2>2
<1>14. RegistryAgrees'
  <2>1. status'.activeObservers <= Cardinality(Active')
    BY <1>1, <1>4, <1>6, <1>8, <1>9
  <2>2. \A a \in Active' : observers'[a].known
    BY <1>9, <1>11 DEF Active
  <2>3. status'.totalRegisteredObservers = Len(observerList')
    BY <1>6, <1>8, <1>10, <1>11
  <2> QED
    BY <1>9, <1>10, <1>11, <1>12, <1>13, <2>1, <2>2, <2>3 DEF RegistryAgrees
<1>15. owner' \in Owners /\ acted' \in [Contracts -> [EventTypes -> Nat]]
  BY <1>2, InvTypes
<1> QED
  BY <1>8, <1>10, <1>14, <1>15, AssembleInv

\* Silencing or unsilencing a known observer changes neither the list nor who is
\* known; the cached count must still not exceed the number of active ones.
LEMMA ActiveEntryStep ==
    ASSUME DoveInv, NEW o \in Addresses, observers[o].known, NEW b \in BOOLEAN,
           NEW type \in Types, NEW counts \in StatusType,
           counts.totalRegisteredObservers = status.totalRegisteredObservers,
           counts.activeObservers
             <= Cardinality(IF b THEN Active \union {o} ELSE Active \ {o}),
           Logged(Self, Self, type, [observers EXCEPT ![o].active = b], counts),
           UNCHANGED <<owner, observerList, acted>>
    PROVE  DoveInv'
<1> DEFINE registry == [observers EXCEPT ![o].active = b]
<1>1. observers \in [Addresses -> ObserverRecord] /\ Self \in Addresses
  BY InvTypes, AddressesFinite
<1>2. \A a \in Addresses :
        /\ registry[a] \in ObserverRecord
        /\ registry[a].known = observers[a].known
        /\ registry[a].active = IF a = o THEN b ELSE observers[a].active
  <2> SUFFICES ASSUME NEW a \in Addresses
               PROVE  /\ registry[a] \in ObserverRecord
                      /\ registry[a].known = observers[a].known
                      /\ registry[a].active = IF a = o THEN b ELSE observers[a].active
    OBVIOUS
  <2>1. observers[a] \in ObserverRecord
    BY <1>1
  <2>2. CASE a = o
    BY <1>1, <2>1, <2>2 DEF ObserverRecord
  <2>3. CASE a # o
    BY <1>1, <2>1, <2>3
  <2> QED
    BY <2>2, <2>3
<1>3. registry \in [Addresses -> ObserverRecord]
  BY <1>1, <1>2
<1>10. Logged(Self, Self, type, registry, counts)
  OBVIOUS
<1> HIDE DEF registry
<1>4. /\ LogInv' /\ StatusAgrees' /\ status' \in StatusType
      /\ status'.activeObservers = counts.activeObservers
      /\ status'.totalRegisteredObservers = status.totalRegisteredObservers
      /\ observers' \in [Addresses -> ObserverRecord]
      /\ \A a \in Addresses : /\ observers'[a].active = registry[a].active
                              /\ observers'[a].known = registry[a].known
  BY <1>1, <1>3, <1>10, EntryStep
<1>5. Active' = IF b THEN Active \union {o} ELSE Active \ {o}
  BY <1>2, <1>4 DEF Active
<1>6. {a \in Addresses : observers'[a].known} = {a \in Addresses : observers[a].known}
  BY <1>2, <1>4
<1>7. \A a \in Active' : observers'[a].known
  BY <1>2, <1>4, <1>5 DEF DoveInv, RegistryAgrees, Active
<1>8. RegistryAgrees'
  BY <1>4, <1>5, <1>6, <1>7 DEF DoveInv, RegistryAgrees
<1>9. /\ owner' \in Owners /\ observerList' \in Seq(Addresses)
      /\ acted' \in [Contracts -> [EventTypes -> Nat]]
  BY InvTypes
<1> QED
  BY <1>4, <1>8, <1>9, AssembleInv

LEMMA DeactivateStep ==
    ASSUME DoveInv, NEW caller \in Owners, NEW o \in Addresses, DeactivateObserver(caller, o)
    PROVE  DoveInv'
<1> DEFINE counts == [status EXCEPT !.activeObservers = @ - 1]
<1>1. /\ status \in StatusType /\ status.activeObservers \in Nat
      /\ status.activeObservers <= Cardinality(Active) /\ Active \subseteq Addresses
  BY InvTypes
<1>2. /\ status.activeObservers > 0 /\ observers[o].known /\ Deactivated \in Types
      /\ Logged(Self, Self, Deactivated, [observers EXCEPT ![o].active = FALSE], counts)
      /\ UNCHANGED <<owner, observerList, acted>>
  BY TypesKnown DEF DeactivateObserver, SelfLogged
<1>3. /\ Cardinality(Active \ {o}) >= Cardinality(Active) - 1
      /\ Cardinality(Active \ {o}) \in Nat /\ Cardinality(Active) \in Nat
      /\ Cardinality(Active) <= Cardinality(Addresses) /\ Cardinality(Addresses) \in Nat
  <2>1. Active \ {o} \subseteq Addresses
    BY <1>1
  <2> QED
    BY <1>1, <2>1, CountRemove, SubsetCount, AddressesFinite
<1>4. /\ counts \in StatusType /\ counts.activeObservers = status.activeObservers - 1
      /\ counts.totalRegisteredObservers = status.totalRegisteredObservers
  <2>1. status.activeObservers - 1 \in 0 .. Cardinality(Addresses)
    BY <1>1, <1>2, <1>3
  <2> QED
    BY <1>1, <2>1 DEF StatusType
<1> HIDE DEF counts
<1>5. counts.activeObservers <= Cardinality(Active \ {o})
  BY <1>1, <1>3, <1>4
<1> QED
  BY <1>2, <1>4, <1>5, ActiveEntryStep

LEMMA ReactivateStep ==
    ASSUME DoveInv, NEW caller \in Owners, NEW o \in Addresses, ReactivateObserver(caller, o)
    PROVE  DoveInv'
<1> DEFINE counts == [status EXCEPT !.activeObservers = @ + 1]
<1>1. /\ status \in StatusType /\ status.activeObservers \in Nat
      /\ status.activeObservers <= Cardinality(Active) /\ Active \subseteq Addresses
  BY InvTypes
<1>2. /\ ~observers[o].active /\ observers[o].known /\ Reactivated \in Types
      /\ Logged(Self, Self, Reactivated, [observers EXCEPT ![o].active = TRUE], counts)
      /\ UNCHANGED <<owner, observerList, acted>>
  BY TypesKnown DEF ReactivateObserver, SelfLogged
<1>3. /\ Cardinality(Active \union {o}) = Cardinality(Active) + 1
      /\ Cardinality(Active \union {o}) <= Cardinality(Addresses)
      /\ Cardinality(Active) \in Nat /\ Cardinality(Addresses) \in Nat
  <2>1. Active \union {o} \subseteq Addresses /\ o \notin Active
    BY <1>1, <1>2 DEF Active
  <2> QED
    BY <1>1, <2>1, CountAdd, SubsetCount, AddressesFinite
<1>4. /\ counts \in StatusType /\ counts.activeObservers = status.activeObservers + 1
      /\ counts.totalRegisteredObservers = status.totalRegisteredObservers
  <2>1. status.activeObservers + 1 \in 0 .. Cardinality(Addresses)
    BY <1>1, <1>3
  <2> QED
    BY <1>1, <2>1 DEF StatusType
<1> HIDE DEF counts
<1>5. counts.activeObservers <= Cardinality(Active \union {o})
  BY <1>1, <1>3, <1>4
<1> QED
  BY <1>2, <1>4, <1>5, ActiveEntryStep

LEMMA EmitTyped ==
    ASSUME DoveInv, NEW c \in Contracts, NEW type \in EventTypes, Emit(c, type)
    PROVE  acted' \in [Contracts -> [EventTypes -> Nat]]
<1>1. acted \in [Contracts -> [EventTypes -> Nat]]
  BY InvTypes
<1>2. [acted[c] EXCEPT ![type] = acted[c][type] + 1] \in [EventTypes -> Nat]
  BY <1>1
<1>3. acted' = acted \/
      acted' = [acted EXCEPT ![c] = [acted[c] EXCEPT ![type] = acted[c][type] + 1]]
  BY DEF Emit
<1> QED
  BY <1>1, <1>2, <1>3

LEMMA StutterInv ==
    ASSUME DoveInv, acted' \in [Contracts -> [EventTypes -> Nat]],
           UNCHANGED <<owner, observers, observerList, observations, observationCount,
                       bySource, byType, status>>
    PROVE  DoveInv'
<1>1. Active' = Active
  BY DEF Active
<1>2. TypeOK'
  BY DEF DoveInv, TypeOK
<1>3. IndexesAgree'
  BY DEF DoveInv, IndexesAgree, IdsOfSource, IdsOfType
<1>4. StatusAgrees'
  BY DEF DoveInv, StatusAgrees
<1>5. RegistryAgrees'
  BY <1>1 DEF DoveInv, RegistryAgrees
<1> QED
  BY <1>2, <1>3, <1>4, <1>5 DEF DoveInv

LEMMA StepInv == DoveInv /\ [Next]_vars => DoveInv'
<1> SUFFICES ASSUME DoveInv, [Next]_vars PROVE DoveInv'
  OBVIOUS
<1> USE AddressesFinite, TypesKnown
<1>1. ASSUME NEW by \in Addresses \ {Self}, NEW source \in Addresses, NEW type \in EventTypes,
             Observe(by, source, type)
      PROVE  DoveInv'
  <2>1. /\ Logged(by, source, type, observers, status) /\ UNCHANGED observerList
        /\ owner' = owner /\ acted' = acted
    BY <1>1 DEF Observe
  <2>2. owner' \in Owners /\ acted' \in [Contracts -> [EventTypes -> Nat]]
    BY <2>1, InvTypes
  <2>3. by \in Addresses /\ source \in Addresses /\ type \in Types
    OBVIOUS
  <2> QED
    BY <2>1, <2>2, <2>3, PlainEntryStep
<1>2. ASSUME NEW c \in Contracts, NEW type \in EventTypes, NEW fits \in BOOLEAN,
             ActWitnessed(c, type, fits)
      PROVE  DoveInv'
  <2>1. /\ Logged(c, c, type, observers, status) /\ UNCHANGED observerList
        /\ owner' = owner /\ Emit(c, type)
    BY <1>2 DEF ActWitnessed
  <2>2. owner' \in Owners /\ acted' \in [Contracts -> [EventTypes -> Nat]]
    BY <2>1, InvTypes, EmitTyped
  <2>3. c \in Addresses /\ type \in Types
    OBVIOUS
  <2> QED
    BY <2>1, <2>2, <2>3, PlainEntryStep
<1>3. ASSUME NEW c \in Contracts, NEW type \in EventTypes, NEW fits \in BOOLEAN,
             NEW starved \in BOOLEAN, ActUnwitnessed(c, type, fits, starved)
      PROVE  DoveInv'
  <2>1. acted' \in [Contracts -> [EventTypes -> Nat]]
    BY <1>3, EmitTyped DEF ActUnwitnessed
  <2> QED
    BY <1>3, <2>1, StutterInv DEF ActUnwitnessed
<1>4. ASSUME NEW caller \in Owners, NEW newOwner \in Owners,
             TransferOwnership(caller, newOwner)
      PROVE  DoveInv'
  <2>1. /\ Logged(Self, Self, Transferred, observers, status) /\ UNCHANGED observerList
        /\ owner' = newOwner /\ acted' = acted
    BY <1>4 DEF TransferOwnership, SelfLogged
  <2>2. owner' \in Owners /\ acted' \in [Contracts -> [EventTypes -> Nat]]
    BY <2>1, InvTypes
  <2> QED
    BY <2>1, <2>2, PlainEntryStep
<1>5. CASE Reporting
  BY <1>1, <1>2, <1>3, <1>5 DEF Reporting
<1>6. CASE Governance
  BY <1>4, <1>6, RegisterStep, DeactivateStep, ReactivateStep DEF Governance
<1>7. CASE UNCHANGED vars
  <2>1. acted' \in [Contracts -> [EventTypes -> Nat]]
    BY <1>7, InvTypes DEF vars
  <2> QED
    BY <1>7, <2>1, StutterInv DEF vars
<1> QED
  BY <1>5, <1>6, <1>7 DEF Next

THEOREM DoveInvariant == Spec => []DoveInv
  BY InitInv, StepInv, PTL DEF Spec

\* Types hold throughout: in particular the checked decrement of
\* deactivateObserver keeps the cached count of active observers in range.
THEOREM DoveTypeCorrect == Spec => []TypeOK
<1>1. DoveInv => TypeOK
  BY DEF DoveInv
<1> QED
  BY <1>1, DoveInvariant, PTL

\* Both indexes name exactly the entries of their source or type, in order.
THEOREM IndexesAlwaysAgree == Spec => []IndexesAgree
<1>1. DoveInv => IndexesAgree
  BY DEF DoveInv
<1> QED
  BY <1>1, DoveInvariant, PTL

\* The status cache describes the log.
THEOREM StatusAlwaysAgrees == Spec => []StatusAgrees
<1>1. DoveInv => StatusAgrees
  BY DEF DoveInv
<1> QED
  BY <1>1, DoveInvariant, PTL

\* The registry agrees with its list, and the cached number of active observers
\* never exceeds the real one.
THEOREM RegistryAlwaysAgrees == Spec => []RegistryAgrees
<1>1. DoveInv => RegistryAgrees
  BY DEF DoveInv
<1> QED
  BY <1>1, DoveInvariant, PTL
-----------------------------------------------------------------------------
\* Records: what a step never takes from an observer, and what the witness sees.

KnownSet == {a \in Addresses : observers[a].known}

\* Dove is known to itself, and who is not known has been credited with nothing.
Records ==
    /\ observers[Self].known
    /\ \A a \in Addresses : ~observers[a].known => observers[a].count = 0

Preserved == \A a \in Addresses : /\ observers[a].known => observers'[a].known
                                  /\ observers'[a].count >= observers[a].count

LEMMA EntryRecords ==
    ASSUME DoveInv, Records, NEW by \in Addresses, observers[by].known,
           NEW source \in Addresses, NEW type \in Types,
           NEW registry \in [Addresses -> ObserverRecord], NEW counts,
           \A a \in Addresses : /\ observers[a].known => registry[a].known
                               /\ registry[a].count = observers[a].count,
           Logged(by, source, type, registry, counts)
    PROVE  /\ Records' /\ Preserved
           /\ KnownSet' = {a \in Addresses : registry[a].known}
           /\ Active' = {a \in Addresses : registry[a].active}
           /\ Witness!Added(source, type)
<1>1. /\ observers' \in [Addresses -> ObserverRecord]
      /\ \A a \in Addresses : /\ observers'[a].active = registry[a].active
                              /\ observers'[a].known = registry[a].known
                              /\ observers'[a].count >= registry[a].count
                              /\ a # by => observers'[a].count = registry[a].count
  BY RegistryEffect
<1>2. Preserved
  BY <1>1 DEF Preserved
<1>3. \A a \in Addresses : ~observers'[a].known => observers'[a].count = 0
  BY <1>1 DEF Records
<1>4. Records'
  BY <1>1, <1>3, AddressesFinite DEF Records
<1>5. KnownSet' = {a \in Addresses : registry[a].known}
  BY <1>1 DEF KnownSet
<1>6. Active' = {a \in Addresses : registry[a].active}
  BY <1>1 DEF Active
<1>7. Witness!Added(source, type)
  BY DEF Logged, Entry, DoveInv, StatusAgrees, Witness!Added
<1> QED
  BY <1>2, <1>4, <1>5, <1>6, <1>7

LEMMA InitRecords == Init => Records /\ Witness!Init
<1> SUFFICES ASSUME Init PROVE Records /\ Witness!Init
  OBVIOUS
<1>1. Records
  BY AddressesFinite DEF Init, Records, NewObserver, Unknown
<1>2. Active = {Self} /\ KnownSet = {Self}
  BY AddressesFinite DEF Init, Active, KnownSet, NewObserver, Unknown
<1>3. observations = << >> /\ owner \in Owners
  BY DEF Init
<1> QED
  BY <1>1, <1>2, <1>3 DEF Witness!Init, KnownSet

\* A report changes nothing of the registry but the reporter's count.
LEMMA ReportRecords ==
    ASSUME DoveInv, Records, NEW by \in Addresses, NEW source \in Addresses,
           NEW type \in EventTypes, observers[by].active, owner' = owner,
           Logged(by, source, type, observers, status)
    PROVE  Records' /\ Preserved /\ Witness!Report
<1>1. observers \in [Addresses -> ObserverRecord] /\ type \in Types
  BY InvTypes, TypesKnown
<1>2. by \in Active /\ observers[by].known
  BY DEF Active, DoveInv, RegistryAgrees
<1>3. /\ Records' /\ Preserved /\ Witness!Added(source, type)
      /\ KnownSet' = KnownSet /\ Active' = Active
  BY <1>1, <1>2, EntryRecords DEF KnownSet, Active
<1>4. Witness!Report
  BY <1>2, <1>3 DEF Witness!Report, KnownSet
<1> QED
  BY <1>3, <1>4

LEMMA RegisterRecords ==
    ASSUME DoveInv, Records, NEW caller \in Owners, NEW o \in Addresses,
           RegisterObserver(caller, o)
    PROVE  Records' /\ Preserved /\ Witness!Govern
<1> DEFINE registry == [observers EXCEPT ![o] = NewObserver]
           counts == [status EXCEPT !.activeObservers = @ + 1,
                                    !.totalRegisteredObservers = @ + 1]
<1>1. observers \in [Addresses -> ObserverRecord] /\ NewObserver \in ObserverRecord
  BY InvTypes DEF NewObserver, ObserverRecord
<1>2. /\ ~observers[o].known /\ Self \in Addresses /\ Registered \in Types
      /\ Registered \in SelfTypes
      /\ Logged(Self, Self, Registered, registry, counts) /\ owner' = owner
  BY AddressesFinite, TypesKnown DEF RegisterObserver, SelfLogged
<1>3. registry \in [Addresses -> ObserverRecord]
  BY <1>1
<1>4. \A a \in Addresses : registry[a] = IF a = o THEN NewObserver ELSE observers[a]
  BY <1>1
<1> HIDE DEF registry, counts
<1>5. \A a \in Addresses : /\ observers[a].known => registry[a].known
                           /\ registry[a].count = observers[a].count
  BY <1>2, <1>4 DEF Records, NewObserver
<1>6. /\ Records' /\ Preserved /\ Witness!Added(Self, Registered)
      /\ KnownSet' = {a \in Addresses : registry[a].known}
      /\ Active' = {a \in Addresses : registry[a].active}
  BY <1>2, <1>3, <1>5, EntryRecords DEF Records
<1>7. KnownSet' = KnownSet \union {o} /\ Active' = Active \union {o}
  BY <1>4, <1>6 DEF KnownSet, Active, NewObserver
<1>8. Witness!Govern
  BY <1>2, <1>6, <1>7 DEF Witness!Govern, KnownSet
<1> QED
  BY <1>6, <1>8

\* Deactivation and reactivation.
LEMMA ActiveRecords ==
    ASSUME DoveInv, Records, NEW o \in Addresses, observers[o].known, NEW b \in BOOLEAN,
           NEW type \in SelfTypes, NEW counts, owner' = owner,
           Logged(Self, Self, type, [observers EXCEPT ![o].active = b], counts)
    PROVE  Records' /\ Preserved /\ Witness!Govern
<1> DEFINE registry == [observers EXCEPT ![o].active = b]
<1>1. observers \in [Addresses -> ObserverRecord] /\ Self \in Addresses /\ type \in Types
  BY InvTypes, AddressesFinite DEF Types
<1>2. \A a \in Addresses :
        /\ registry[a] \in ObserverRecord
        /\ registry[a].known = observers[a].known /\ registry[a].count = observers[a].count
        /\ registry[a].active = IF a = o THEN b ELSE observers[a].active
  <2> SUFFICES ASSUME NEW a \in Addresses
               PROVE  /\ registry[a] \in ObserverRecord
                      /\ registry[a].known = observers[a].known
                      /\ registry[a].count = observers[a].count
                      /\ registry[a].active = IF a = o THEN b ELSE observers[a].active
    OBVIOUS
  <2>1. observers[a] \in ObserverRecord
    BY <1>1
  <2>2. CASE a = o
    BY <1>1, <2>1, <2>2 DEF ObserverRecord
  <2>3. CASE a # o
    BY <1>1, <2>1, <2>3
  <2> QED
    BY <2>2, <2>3
<1>3. registry \in [Addresses -> ObserverRecord]
  BY <1>1, <1>2
<1>4. Logged(Self, Self, type, registry, counts)
  OBVIOUS
<1> HIDE DEF registry
<1>5. /\ Records' /\ Preserved /\ Witness!Added(Self, type)
      /\ KnownSet' = {a \in Addresses : registry[a].known}
      /\ Active' = {a \in Addresses : registry[a].active}
  BY <1>1, <1>2, <1>3, <1>4, EntryRecords DEF Records
<1>6. KnownSet' = KnownSet /\ Active' \in {Active \ {o}, Active \union {o}}
  BY <1>2, <1>5 DEF KnownSet, Active
<1>7. o \in KnownSet
  BY DEF KnownSet
<1>8. Witness!Govern
  BY <1>5, <1>6, <1>7 DEF Witness!Govern, KnownSet
<1> QED
  BY <1>5, <1>8

LEMMA TransferRecords ==
    ASSUME DoveInv, Records, NEW caller \in Owners, NEW newOwner \in Owners,
           TransferOwnership(caller, newOwner)
    PROVE  Records' /\ Preserved /\ Witness!Govern
<1>1. /\ observers \in [Addresses -> ObserverRecord] /\ Self \in Addresses
      /\ Transferred \in Types /\ Transferred \in SelfTypes
  BY InvTypes, AddressesFinite, TypesKnown
<1>2. Logged(Self, Self, Transferred, observers, status) /\ owner' = newOwner
  BY DEF TransferOwnership, SelfLogged
<1>3. /\ Records' /\ Preserved /\ Witness!Added(Self, Transferred)
      /\ KnownSet' = KnownSet /\ Active' = Active
  BY <1>1, <1>2, EntryRecords DEF Records, KnownSet, Active
<1>4. Witness!Govern
  BY <1>1, <1>2, <1>3 DEF Witness!Govern, KnownSet
<1> QED
  BY <1>3, <1>4

LEMMA UntouchedRecords ==
    ASSUME DoveInv, Records, UNCHANGED <<owner, observers, observations>>
    PROVE  Records' /\ Preserved /\ UNCHANGED Witness!vars
<1>1. observers \in [Addresses -> ObserverRecord]
  BY InvTypes
<1>2. \A a \in Addresses : observers[a].count \in Nat
  BY <1>1 DEF ObserverRecord
<1> QED
  BY <1>2 DEF Records, Preserved, Witness!vars, Active

LEMMA StepRecords ==
    DoveInv /\ Records /\ [Next]_vars =>
        Records' /\ Preserved /\ [Witness!Next]_(Witness!vars)
<1> SUFFICES ASSUME DoveInv, Records, [Next]_vars
             PROVE  Records' /\ Preserved /\ (Witness!Next \/ UNCHANGED Witness!vars)
  OBVIOUS
<1>1. ASSUME NEW by \in Addresses \ {Self}, NEW source \in Addresses,
             NEW type \in EventTypes, Observe(by, source, type)
      PROVE  Records' /\ Preserved /\ Witness!Report
  BY <1>1, ReportRecords DEF Observe
<1>2. ASSUME NEW c \in Contracts, NEW type \in EventTypes, NEW fits \in BOOLEAN,
             ActWitnessed(c, type, fits)
      PROVE  Records' /\ Preserved /\ Witness!Report
  BY <1>2, AddressesFinite, ReportRecords DEF ActWitnessed, Accepts
<1>3. ASSUME NEW c \in Contracts, NEW type \in EventTypes, NEW fits \in BOOLEAN,
             NEW starved \in BOOLEAN, ActUnwitnessed(c, type, fits, starved)
      PROVE  Records' /\ Preserved /\ UNCHANGED Witness!vars
  BY <1>3, UntouchedRecords DEF ActUnwitnessed
<1>4. CASE Reporting
  BY <1>1, <1>2, <1>3, <1>4 DEF Reporting, Witness!Next
<1>5. ASSUME NEW caller \in Owners, NEW o \in Addresses, DeactivateObserver(caller, o)
      PROVE  Records' /\ Preserved /\ Witness!Govern
  BY <1>5, ActiveRecords, TypesKnown DEF DeactivateObserver, SelfLogged
<1>6. ASSUME NEW caller \in Owners, NEW o \in Addresses, ReactivateObserver(caller, o)
      PROVE  Records' /\ Preserved /\ Witness!Govern
  BY <1>6, ActiveRecords, TypesKnown DEF ReactivateObserver, SelfLogged
<1>7. CASE Governance
  BY <1>5, <1>6, <1>7, RegisterRecords, TransferRecords DEF Governance, Witness!Next
<1>8. CASE UNCHANGED vars
  BY <1>8, UntouchedRecords DEF vars
<1> QED
  BY <1>4, <1>7, <1>8 DEF Next

LEMMA RecordsInvariant == Spec => [](DoveInv /\ Records)
  BY InitInv, InitRecords, StepInv, StepRecords, PTL DEF Spec

\* A deactivated observer keeps its record: no operation makes a known observer
\* unknown or takes back an observation it was credited with.
THEOREM RecordsArePreserved == Spec => HistoryPreserved
<1>1. DoveInv /\ Records /\ [Next]_vars => [Preserved]_vars
  BY StepRecords
<1> QED
  BY <1>1, RecordsInvariant, PTL DEF Spec, HistoryPreserved, Preserved

\* Dove is a faithful witness: its log only grows, one entry at a time, active
\* observers alone add to it, and no change of its owner or of its registry goes
\* without an entry.
THEOREM DoveImplementsWitness == Spec => ImplementsWitness
  BY RecordsInvariant, InitRecords, StepRecords, PTL DEF Spec, Witness!Spec, ImplementsWitness
-----------------------------------------------------------------------------
\* Credits: the sum of what the listed observers are credited with.

CreditsTyped == Summable(CreditsListed, Len(observerList))

LEMMA CreditsSummable == DoveInv => CreditsTyped
  BY InvTypes, ElementOfSeq DEF CreditsTyped, CreditsListed, Summable, ObserverRecord

\* The list of observers does not change: the reporter's credit and the length of
\* the log grow by one.
LEMMA EntryCredited ==
    ASSUME DoveInv, DoveInv', EveryEntryCounted,
           NEW by \in Addresses, observers[by].known, NEW source, NEW type,
           NEW registry \in [Addresses -> ObserverRecord], NEW counts,
           \A a \in Addresses : registry[a].count = observers[a].count,
           Logged(by, source, type, registry, counts),
           observerList' = observerList
    PROVE  EveryEntryCounted'
<1> DEFINE n == Len(observerList)
<1>1. /\ observerList \in Seq(Addresses) /\ n \in Nat /\ observations \in Seq(Observation)
      /\ \A i \in 1 .. n : observerList[i] \in Addresses
  BY InvTypes, ElementOfSeq, LenProperties DEF DoveInv, TypeOK
<1>2. \A a \in Addresses :
        /\ a # by => observers'[a].count = observers[a].count
        /\ a = by => observers'[a].count = observers[a].count + 1
  BY RegistryEffect
<1>3. PICK k \in 1 .. n : observerList[k] = by
  BY DEF DoveInv, RegistryAgrees
<1>4. \A i \in 1 .. n : i # k => observerList[i] # by
  BY <1>3 DEF DoveInv, RegistryAgrees
<1>5. /\ \A i \in 1 .. n : i # k => CreditsListed'[i] = CreditsListed[i]
      /\ CreditsListed'[k] = CreditsListed[k] + 1
  BY <1>1, <1>2, <1>3, <1>4 DEF CreditsListed
<1>6. Summable(CreditsListed, n) /\ Summable(CreditsListed', n)
  <2>1. DoveInv' => CreditsTyped'
    BY CreditsSummable, PTL
  <2> QED
    BY <2>1, CreditsSummable DEF CreditsTyped
<1>7. SumUpTo(CreditsListed', n) = SumUpTo(CreditsListed, n) - CreditsListed[k] + CreditsListed'[k]
  BY <1>1, <1>5, <1>6, SumOfChanged
<1>8. Len(observations') = Len(observations) + 1
  BY <1>1 DEF Logged
<1>9. SumUpTo(CreditsListed, n) = Len(observations)
  BY DEF EveryEntryCounted
<1>10. SumUpTo(CreditsListed', n) = Len(observations')
  BY <1>1, <1>5, <1>6, <1>7, <1>8, <1>9, LenProperties DEF Summable
<1> QED
  BY <1>10 DEF EveryEntryCounted
\* A new observer joins the list with no credit; Dove's own entry is credited to
\* Dove, the first of the list.
LEMMA RegisterCredited ==
    ASSUME DoveInv, DoveInv', Records, EveryEntryCounted,
           NEW caller \in Owners, NEW o \in Addresses, RegisterObserver(caller, o)
    PROVE  EveryEntryCounted'
<1> DEFINE registry == [observers EXCEPT ![o] = NewObserver]
           counts == [status EXCEPT !.activeObservers = @ + 1,
                                    !.totalRegisteredObservers = @ + 1]
           n == Len(observerList)
           credits == CreditsListed'
<1>1. /\ observerList \in Seq(Addresses) /\ n \in Nat /\ observations \in Seq(Observation)
      /\ \A i \in 1 .. n : observerList[i] \in Addresses
      /\ observers \in [Addresses -> ObserverRecord] /\ NewObserver \in ObserverRecord
      /\ Self \in Addresses
  BY InvTypes, AddressesFinite, ElementOfSeq, LenProperties
     DEF DoveInv, TypeOK, NewObserver, ObserverRecord
<1>2. /\ Logged(Self, Self, Registered, registry, counts)
      /\ observerList' = Append(observerList, o) /\ ~observers[o].known
  BY DEF RegisterObserver, SelfLogged
<1>3. registry \in [Addresses -> ObserverRecord]
  BY <1>1
<1>4. \A a \in Addresses : registry[a].count = observers[a].count
  BY <1>1, <1>2 DEF Records, NewObserver
<1> HIDE DEF registry, counts
<1>5. \A a \in Addresses :
        /\ a # Self => observers'[a].count = observers[a].count
        /\ a = Self => observers'[a].count = observers[a].count + 1
  <2>1. \A a \in Addresses :
          /\ a # Self => observers'[a].count = registry[a].count
          /\ a = Self => observers'[a].count = registry[a].count + 1
    BY <1>1, <1>2, <1>3, RegistryEffect
  <2> QED
    BY <1>4, <2>1
<1>6. o # Self /\ observers[o].count = 0
  BY <1>2 DEF Records
<1>7. /\ Len(observerList') = n + 1 /\ observerList'[n + 1] = o
      /\ \A i \in 1 .. n : observerList'[i] = observerList[i]
  BY <1>1, <1>2, AppendProperties
<1>8. PICK k \in 1 .. n : observerList[k] = Self
  BY <1>1 DEF DoveInv, RegistryAgrees, Records
<1>9. \A i \in 1 .. n : i # k => observerList[i] # Self
  BY <1>8 DEF DoveInv, RegistryAgrees
<1>10. /\ \A i \in 1 .. n : i # k => credits[i] = CreditsListed[i]
       /\ credits[k] = CreditsListed[k] + 1
       /\ credits[n + 1] = 0
  BY <1>1, <1>5, <1>6, <1>7, <1>8, <1>9 DEF CreditsListed
<1>11. Summable(CreditsListed, n) /\ Summable(credits, n + 1)
  <2>1. DoveInv' => CreditsTyped'
    BY CreditsSummable, PTL
  <2> QED
    BY <1>7, <2>1, CreditsSummable DEF CreditsTyped
<1>12. Len(observations') = Len(observations) + 1
  BY <1>1, <1>2 DEF Logged
<1>13. SumUpTo(CreditsListed, n) = Len(observations)
  BY DEF EveryEntryCounted
<1> HIDE DEF credits
<1>14. SumUpTo(credits, n + 1) = SumUpTo(credits, n) + credits[n + 1]
  BY <1>1, <1>11, SumOfNext
<1>15. Summable(credits, n)
  BY <1>1, <1>11 DEF Summable
<1>16. SumUpTo(credits, n) = SumUpTo(CreditsListed, n) - CreditsListed[k] + credits[k]
  BY <1>1, <1>10, <1>11, <1>15, SumOfChanged
<1>17. SumUpTo(credits, n + 1) = Len(observations')
  BY <1>1, <1>10, <1>11, <1>12, <1>13, <1>14, <1>16, LenProperties DEF Summable
<1> QED
  BY <1>7, <1>17 DEF EveryEntryCounted, credits

LEMMA StepCredited ==
    DoveInv /\ DoveInv' /\ Records /\ EveryEntryCounted /\ [Next]_vars => EveryEntryCounted'
<1> SUFFICES ASSUME DoveInv, DoveInv', Records, EveryEntryCounted, [Next]_vars
             PROVE  EveryEntryCounted'
  OBVIOUS
<1>1. /\ observers \in [Addresses -> ObserverRecord]
      /\ observers[Self].known /\ Self \in Addresses
      /\ \A a \in Addresses : observers[a].active => observers[a].known
  BY InvTypes, AddressesFinite DEF Records, DoveInv, RegistryAgrees, Active
<1>2. \A o \in Addresses, b \in BOOLEAN :
        /\ [observers EXCEPT ![o].active = b] \in [Addresses -> ObserverRecord]
        /\ \A a \in Addresses :
             [observers EXCEPT ![o].active = b][a].count = observers[a].count
  <2> SUFFICES ASSUME NEW o \in Addresses, NEW b \in BOOLEAN
               PROVE  /\ [observers EXCEPT ![o].active = b] \in [Addresses -> ObserverRecord]
                      /\ \A a \in Addresses :
                           [observers EXCEPT ![o].active = b][a].count = observers[a].count
    OBVIOUS
  <2>1. observers[o] \in ObserverRecord
    BY <1>1
  <2>2. /\ [observers[o] EXCEPT !.active = b] \in ObserverRecord
        /\ [observers[o] EXCEPT !.active = b].count = observers[o].count
    BY <2>1 DEF ObserverRecord
  <2> QED
    BY <1>1, <2>2
<1>3. ASSUME NEW by \in Addresses \ {Self}, NEW source \in Addresses,
             NEW type \in EventTypes, Observe(by, source, type)
      PROVE  EveryEntryCounted'
  BY <1>1, <1>3, EntryCredited DEF Observe
<1>4. ASSUME NEW c \in Contracts, NEW type \in EventTypes, NEW fits \in BOOLEAN,
             ActWitnessed(c, type, fits)
      PROVE  EveryEntryCounted'
  BY <1>1, <1>4, AddressesFinite, EntryCredited DEF ActWitnessed, Accepts
<1>5. ASSUME UNCHANGED <<observers, observerList, observations>>
      PROVE  EveryEntryCounted'
  BY <1>5 DEF EveryEntryCounted, CreditsListed
<1>6. CASE Reporting
  BY <1>3, <1>4, <1>5, <1>6 DEF Reporting, ActUnwitnessed
<1>7. ASSUME NEW caller \in Owners, NEW o \in Addresses, DeactivateObserver(caller, o)
      PROVE  EveryEntryCounted'
  <2>1. /\ Logged(Self, Self, Deactivated, [observers EXCEPT ![o].active = FALSE],
                  [status EXCEPT !.activeObservers = @ - 1])
        /\ observerList' = observerList
    BY <1>7 DEF DeactivateObserver, SelfLogged
  <2> QED
    BY <1>1, <1>2, <2>1, EntryCredited
<1>8. ASSUME NEW caller \in Owners, NEW o \in Addresses, ReactivateObserver(caller, o)
      PROVE  EveryEntryCounted'
  <2>1. /\ Logged(Self, Self, Reactivated, [observers EXCEPT ![o].active = TRUE],
                  [status EXCEPT !.activeObservers = @ + 1])
        /\ observerList' = observerList
    BY <1>8 DEF ReactivateObserver, SelfLogged
  <2> QED
    BY <1>1, <1>2, <2>1, EntryCredited
<1>9. ASSUME NEW caller \in Owners, NEW newOwner \in Owners,
             TransferOwnership(caller, newOwner)
      PROVE  EveryEntryCounted'
  BY <1>1, <1>9, EntryCredited DEF TransferOwnership, SelfLogged
<1>10. CASE Governance
  BY <1>7, <1>8, <1>9, <1>10, RegisterCredited DEF Governance
<1>11. CASE UNCHANGED vars
  BY <1>5, <1>11 DEF vars
<1> QED
  BY <1>6, <1>10, <1>11 DEF Next

LEMMA InitCredited == Init => EveryEntryCounted
<1> SUFFICES ASSUME Init PROVE EveryEntryCounted
  OBVIOUS
<1>1. Len(observerList) = 1 /\ Len(observations) = 0 /\ CreditsListed[1] = 0
  BY AddressesFinite DEF Init, CreditsListed, NewObserver
<1>2. Summable(CreditsListed, 1)
  BY <1>1 DEF Summable
<1>3. SumUpTo(CreditsListed, 0 + 1) = SumUpTo(CreditsListed, 0) + CreditsListed[0 + 1]
  BY <1>2, SumOfNext
<1>4. SumUpTo(CreditsListed, 1) = 0
  BY <1>1, <1>3, SumOfNone
<1> QED
  BY <1>1, <1>4 DEF EveryEntryCounted

\* Every entry of the log is on the account of a listed observer: the credits of
\* the observers, active or not, add up to the length of the log, whatever
\* sources the entries name.
THEOREM EveryEntryIsCounted == Spec => []EveryEntryCounted
<1>1. DoveInv /\ [Next]_vars => DoveInv'
  BY StepInv
<1> QED
  BY <1>1, InitInv, InitCredited, StepCredited, RecordsInvariant, DoveInvariant, PTL DEF Spec
-----------------------------------------------------------------------------
\* Pages: after k pages of some size the reader has the first entries of the log,
\* as many as k pages hold.

IsPages(page, limit) ==
    page = [k \in 0 .. Len(observations) |->
              IF k = 0 THEN << >>
              ELSE page[k - 1] \o GetObservations((k - 1) * limit, limit)]

ReadAfter(k, limit) == IF k * limit > Len(observations) THEN Len(observations) ELSE k * limit

LEMMA PageStep ==
    ASSUME observations \in Seq(Observation), NEW limit \in Nat \ {0},
           NEW k \in Nat \ {0}
    PROVE  SubSeq(observations, 1, ReadAfter(k - 1, limit))
             \o GetObservations((k - 1) * limit, limit)
               = SubSeq(observations, 1, ReadAfter(k, limit))
<1> DEFINE n == Len(observations)
           o == (k - 1) * limit
<1>1. n \in Nat /\ o \in Nat /\ o + limit = k * limit
  BY LenProperties
<1> HIDE DEF o
<1>2. ReadAfter(k - 1, limit) = IF o > n THEN n ELSE o
  BY DEF ReadAfter, o
<1>3. ReadAfter(k, limit) = IF o + limit > n THEN n ELSE o + limit
  BY <1>1 DEF ReadAfter
<1>4. CASE o >= n
  <2>1. /\ ReadAfter(k - 1, limit) = n /\ ReadAfter(k, limit) = n
        /\ GetObservations(o, limit) = << >>
    BY <1>1, <1>2, <1>3, <1>4 DEF GetObservations
  <2>2. SubSeq(observations, 1, n) = observations
    BY SubSeqFull
  <2>3. observations \o << >> = observations
    BY ConcatEmptySeq
  <2> QED
    BY <2>1, <2>2, <2>3 DEF o
<1>5. CASE o < n
  <2> DEFINE end == IF o + limit > n THEN n ELSE o + limit
  <2>1. end \in Nat /\ o <= end /\ end <= n
    BY <1>1, <1>5
  <2>2. GetObservations(o, limit) = SubSeq(observations, o + 1, end)
    BY <1>1, <1>5 DEF GetObservations
  <2>3. ReadAfter(k - 1, limit) = o /\ ReadAfter(k, limit) = end
    BY <1>1, <1>2, <1>3, <1>5
  <2> HIDE DEF end
  <2>4. SubSeq(observations, 1, o) \o SubSeq(observations, o + 1, end)
          = SubSeq(observations, 1, end)
    BY <1>1, <2>1, ConcatAdjacentSubSeq
  <2> QED
    BY <2>2, <2>3, <2>4 DEF o
<1>6. o >= n \/ o < n
  BY <1>1
<1> QED
  BY ONLY <1>4, <1>5, <1>6, Zenon

\* The pages read are the first entries of the log, whatever function satisfies
\* the equation; and one does.
LEMMA PagesSolved ==
    ASSUME observations \in Seq(Observation), NEW limit \in Nat \ {0}
    PROVE  /\ \E page : IsPages(page, limit)
           /\ \A page : IsPages(page, limit) =>
                \A k \in 0 .. Len(observations) :
                  page[k] = SubSeq(observations, 1, ReadAfter(k, limit))
<1> DEFINE n == Len(observations)
           g == [k \in 0 .. n |-> SubSeq(observations, 1, ReadAfter(k, limit))]
<1>1. n \in Nat
  BY LenProperties
<1>2. SubSeq(observations, 1, ReadAfter(0, limit)) = << >>
  BY <1>1, SubSeqEmpty DEF ReadAfter
<1>3. \A k \in 0 .. n : g[k] = IF k = 0 THEN << >>
                               ELSE g[k - 1] \o GetObservations((k - 1) * limit, limit)
  <2> TAKE k \in 0 .. n
  <2>1. CASE k = 0
    BY <1>1, <1>2, <2>1
  <2>2. CASE k # 0
    <3>1. k \in Nat \ {0} /\ k - 1 \in 0 .. n
      BY <1>1, <2>2
    <3>2. g[k - 1] = SubSeq(observations, 1, ReadAfter(k - 1, limit))
      BY <3>1
    <3>3. g[k] = SubSeq(observations, 1, ReadAfter(k, limit))
      OBVIOUS
    <3>4. SubSeq(observations, 1, ReadAfter(k - 1, limit))
            \o GetObservations((k - 1) * limit, limit)
              = SubSeq(observations, 1, ReadAfter(k, limit))
      BY <3>1, PageStep
    <3> QED
      BY ONLY <2>2, <3>2, <3>3, <3>4, Zenon
  <2> QED
    BY <2>1, <2>2
<1>4. IsPages(g, limit)
  BY <1>3 DEF IsPages
<1>5. ASSUME NEW page, IsPages(page, limit)
      PROVE  \A k \in 0 .. n : page[k] = g[k]
  <2> DEFINE S == {k \in Nat : k <= n => page[k] = g[k]}
  <2> HIDE DEF g
  <2>1. 0 \in S
    BY <1>1, <1>5, <1>3 DEF IsPages
  <2>2. \A k \in Nat : k \in S => k + 1 \in S
    <3> SUFFICES ASSUME NEW k \in Nat, k \in S, k + 1 <= n
                 PROVE  page[k + 1] = g[k + 1]
      OBVIOUS
    <3>1. k \in 0 .. n /\ k + 1 \in 0 .. n /\ k + 1 # 0 /\ (k + 1) - 1 = k
      BY <1>1
    <3> DEFINE j == k + 1
               o == (j - 1) * limit
    <3>2. j \in 0 .. n /\ j # 0 /\ j - 1 = k /\ page[k] = g[k]
      BY <3>1
    <3> HIDE DEF j
    <3>3. page[j] = page[j - 1] \o GetObservations(o, limit)
      BY <1>5, <3>2, Zenon DEF IsPages
    <3>4. g[j] = g[j - 1] \o GetObservations(o, limit)
      BY <1>3, <3>2, Zenon
    <3>5. page[j] = g[j]
      BY ONLY <3>2, <3>3, <3>4, Zenon
    <3> QED
      BY <3>5 DEF j
  <2>3. Nat \subseteq S
    <3> HIDE DEF S
    <3> QED
      BY <2>1, <2>2, InductionOnNat
  <2> QED
    BY <1>1, <2>3
<1> QED
  BY <1>4, <1>5

\* A reader who asks for the log page by page gets the log, every entry once and
\* in order, whatever the length of the log and the size of the pages.
THEOREM PagesAlwaysTile == Spec => []PagesTileLog
<1>1. TypeOK => PagesTileLog
  <2> SUFFICES ASSUME TypeOK, NEW limit \in 1 .. MaxObservations
               PROVE  LET page[k \in 0 .. Len(observations)] ==
                              IF k = 0 THEN << >>
                              ELSE page[k - 1] \o GetObservations((k - 1) * limit, limit)
                      IN  page[Len(observations)] = observations
    BY DEF PagesTileLog
  <2> DEFINE n == Len(observations)
             ch == CHOOSE page : page = [k \in 0 .. n |->
                       IF k = 0 THEN << >>
                       ELSE page[k - 1] \o GetObservations((k - 1) * limit, limit)]
  <2>1. /\ observations \in Seq(Observation) /\ n \in Nat /\ limit \in Nat \ {0}
    BY DoveAssumption, LenProperties DEF TypeOK, DoveAssumption
  <2>2. \E page : page = [k \in 0 .. n |->
                       IF k = 0 THEN << >>
                       ELSE page[k - 1] \o GetObservations((k - 1) * limit, limit)]
    BY <2>1, PagesSolved DEF IsPages
  <2>3. IsPages(ch, limit)
    BY <2>2, Zenon DEF IsPages
  <2> HIDE DEF ch
  <2>4. ch[n] = SubSeq(observations, 1, ReadAfter(n, limit))
    BY <2>1, <2>3, PagesSolved
  <2>5. n * limit >= n
    BY <2>1
  <2>6. ReadAfter(n, limit) = n
    BY <2>1, <2>5 DEF ReadAfter
  <2>7. ch[n] = observations
    BY <2>1, <2>4, <2>6, SubSeqFull
  <2> QED
    BY <2>7 DEF ch
<1> QED
  BY <1>1, DoveTypeCorrect, PTL
=============================================================================
