---------------------- MODULE Phase1aDeployment_proofs ----------------------
(***************************************************************************)
(* Proofs about the deployment of phase 1a, for any sinks, any sources,     *)
(* any number of pending transactions and any number of faults: no contract *)
(* is used before a checkpoint lists it, a receiver that has a source keeps *)
(* one, and a deployment that finished is wired as its script says.         *)
(***************************************************************************)
EXTENDS Phase1aDeployment, FiniteSetTheorems, FunctionTheorems, TLAPS

-----------------------------------------------------------------------------
(* The steps of the script come in an order in which they can be taken.     *)

Sinks == ToSet(SinkOrder)
Others == {"add", "overwrite", "throw", "keep"}
Slots == Keys \union {"observers", "initialized", "mevSink", "dataYieldSource", Bootstrap}
Step ==
    [do : {"deploy"}, key : Keys]
    \union [do : {"write"}, of : Keys, slot : Slots, to : SUBSET Keys, other : Others]

\* The contracts a step uses, and the sequences that deploy a contract first.
Uses(s) == IF s.do = "write" THEN {s.of} \union s.to ELSE {}
Deploys(q, k) == \E j \in DOMAIN q : q[j] = Deploy(k)
Ordered(q) == \A i \in DOMAIN q : \A k \in Uses(q[i]) : \E j \in 1 .. i - 1 : q[j] = Deploy(k)

LEMMA SinkKeys ==
    /\ SinkOrder \in Seq(STRING) /\ DOMAIN SinkOrder = 1 .. Len(SinkOrder)
    /\ \A i \in DOMAIN SinkOrder : SinkOrder[i] \in STRING /\ SinkOrder[i] \in Sinks
    /\ \A k \in Sinks : \E i \in DOMAIN SinkOrder : SinkOrder[i] = k
    /\ Sinks \subseteq Keys /\ {"mev", "dataYield"} \subseteq Sinks
    /\ {"dove", "governance", "receiver", "router", "observer"} \subseteq Keys
BY DeploymentAssumption DEF Sinks, Keys, ToSet

LEMMA DeployStep ==
    ASSUME NEW k \in Keys
    PROVE  Deploy(k) \in Step /\ Uses(Deploy(k)) = {}
BY DEF Deploy, Step, Uses

LEMMA WriteStepOf ==
    ASSUME NEW of \in Keys, NEW slot \in Slots, NEW to \in SUBSET Keys, NEW other \in Others
    PROVE  Write(of, slot, to, other) \in Step /\ Uses(Write(of, slot, to, other)) = {of} \union to
BY DEF Write, Step, Uses

\* The writes that are made for one key after the other.
LEMMA WiringSteps ==
    ASSUME NEW k \in Keys
    PROVE  /\ Register(k) \in Step /\ Uses(Register(k)) = {"dove", k}
           /\ RegisterSink(k) \in Step /\ Uses(RegisterSink(k)) = {"router", k}
           /\ SetRouter(k) \in Step /\ Uses(SetRouter(k)) = {k, "router"}
<1>1. Register(k) \in Step /\ Uses(Register(k)) = {"dove"} \union {k}
  <2>1. "dove" \in Keys /\ "observers" \in Slots /\ {k} \in SUBSET Keys /\ "add" \in Others
        BY SinkKeys DEF Slots, Others
  <2>2. QED BY <2>1, WriteStepOf DEF Register
<1>2. RegisterSink(k) \in Step /\ Uses(RegisterSink(k)) = {"router"} \union {k}
  <2>1. "router" \in Keys /\ k \in Slots /\ {k} \in SUBSET Keys /\ "overwrite" \in Others
        BY SinkKeys DEF Slots, Others
  <2>2. RegisterSink(k) = [do |-> "write", of |-> "router", slot |-> k, to |-> {k}, other |-> "overwrite"]
        BY DEF RegisterSink, Write
  <2>3. QED BY <2>1, <2>2 DEF Step, Uses
<1>3. SetRouter(k) \in Step /\ Uses(SetRouter(k)) = {k} \union {"router"}
  <2>1. "router" \in Slots /\ {"router"} \in SUBSET Keys /\ "throw" \in Others
        BY SinkKeys DEF Slots, Others
  <2>2. QED BY <2>1, WriteStepOf DEF SetRouter
<1>4. QED BY <1>1, <1>2, <1>3

\* How many sinks are deployed.
SinkCount == Len(SinkOrder)

\* What is where in two sequences put one after the other.
LEMMA Joined ==
    ASSUME NEW a \in Seq(Step), NEW b \in Seq(Step)
    PROVE  /\ a \o b \in Seq(Step) /\ Len(a \o b) = Len(a) + Len(b)
           /\ \A i \in 1 .. Len(a) : (a \o b)[i] = a[i]
           /\ \A i \in 1 .. Len(b) : (a \o b)[Len(a) + i] = b[i]
<1> DEFINE c == a \o b
<1>1. /\ c \in Seq(Step) /\ Len(c) = Len(a) + Len(b)
      /\ \A i \in 1 .. Len(a) : c[i] = a[i]
      /\ \A i \in 1 .. Len(b) : c[Len(a) + i] = b[i]
      OBVIOUS
<1>2. QED BY <1>1

\* What a step may be.
LEMMA StepKinds ==
    /\ \A k \in Keys : Deploy(k) \in Step /\ Register(k) \in Step /\ RegisterSink(k) \in Step /\ SetRouter(k) \in Step
    /\ Write("router", "receiver", {"receiver"}, "throw") \in Step
    /\ Write("observer", "initialized", {"receiver", "router"} \union Sinks, "keep") \in Step
    /\ Write("dataYield", "mevSink", {"mev"}, "overwrite") \in Step
    /\ Write("mev", "dataYieldSource", {"dataYield"}, "overwrite") \in Step
    /\ Write("receiver", Bootstrap, {}, "overwrite") \in Step
<1>1. /\ "throw" \in Others /\ "keep" \in Others /\ "overwrite" \in Others
      /\ {"receiver", "initialized", "mevSink", "dataYieldSource", Bootstrap} \subseteq Slots
      BY SinkKeys DEF Others, Slots
<1>2. Write("router", "receiver", {"receiver"}, "throw") \in Step
      BY <1>1, SinkKeys, WriteStepOf
<1>3. Write("observer", "initialized", {"receiver", "router"} \union Sinks, "keep") \in Step
  <2>1. {"receiver", "router"} \union Sinks \in SUBSET Keys
        BY SinkKeys
  <2>2. \A to \in SUBSET Keys : Write("observer", "initialized", to, "keep") \in Step
        BY <1>1, SinkKeys, WriteStepOf
  <2>3. QED BY <2>1, <2>2
<1>4. Write("dataYield", "mevSink", {"mev"}, "overwrite") \in Step
      BY <1>1, SinkKeys, WriteStepOf
<1>5. Write("mev", "dataYieldSource", {"dataYield"}, "overwrite") \in Step
      BY <1>1, SinkKeys, WriteStepOf
<1>6. Write("receiver", Bootstrap, {}, "overwrite") \in Step
      BY <1>1, SinkKeys, WriteStepOf
<1>7. QED BY <1>2, <1>3, <1>4, <1>5, <1>6, DeployStep, WiringSteps

LEMMA StepPlaces ==
    /\ SinkCount \in Nat /\ Steps \in Seq(Step) /\ Len(Steps) = 4 * SinkCount + 15
    /\ Steps[1] = Deploy("dove") /\ Steps[2] = Deploy("governance") /\ Steps[3] = Register("governance")
    /\ Steps[4] = Deploy("receiver") /\ Steps[5] = Register("receiver")
    /\ Steps[SinkCount + 6] = Deploy("router") /\ Steps[SinkCount + 7] = Register("router")
    /\ \A i \in 1 .. SinkCount : /\ Steps[5 + i] = Deploy(SinkOrder[i])
                                 /\ Steps[SinkCount + 7 + i] = Register(SinkOrder[i])
                                 /\ Steps[2 * SinkCount + 7 + i] = RegisterSink(SinkOrder[i])
                                 /\ Steps[3 * SinkCount + 9 + i] = SetRouter(SinkOrder[i])
    /\ Steps[3 * SinkCount + 8] = Write("router", "receiver", {"receiver"}, "throw")
    /\ Steps[3 * SinkCount + 9] = SetRouter("receiver")
    /\ Steps[4 * SinkCount + 10] = Deploy("observer") /\ Steps[4 * SinkCount + 11] = Register("observer")
    /\ Steps[4 * SinkCount + 12] = Write("observer", "initialized", {"receiver", "router"} \union Sinks, "keep")
    /\ Steps[4 * SinkCount + 13] = Write("dataYield", "mevSink", {"mev"}, "overwrite")
    /\ Steps[4 * SinkCount + 14] = Write("mev", "dataYieldSource", {"dataYield"}, "overwrite")
    /\ Steps[4 * SinkCount + 15] = Write("receiver", Bootstrap, {}, "overwrite")
<1> DEFINE start == <<Deploy("dove"), Deploy("governance"), Register("governance"),
                      Deploy("receiver"), Register("receiver")>>
           sinks == [i \in DOMAIN SinkOrder |-> Deploy(SinkOrder[i])]
           router == <<Deploy("router"), Register("router")>>
           registers == [i \in DOMAIN SinkOrder |-> Register(SinkOrder[i])]
           points == [i \in DOMAIN SinkOrder |-> RegisterSink(SinkOrder[i])]
           joins == <<Write("router", "receiver", {"receiver"}, "throw"), SetRouter("receiver")>>
           guards == [i \in DOMAIN SinkOrder |-> SetRouter(SinkOrder[i])]
           finish == <<Deploy("observer"), Register("observer"),
                       Write("observer", "initialized", {"receiver", "router"} \union Sinks, "keep"),
                       Write("dataYield", "mevSink", {"mev"}, "overwrite"),
                       Write("mev", "dataYieldSource", {"dataYield"}, "overwrite"),
                       Write("receiver", Bootstrap, {}, "overwrite")>>
<1>1. Steps = start \o sinks \o router \o registers \o points \o joins \o guards \o finish
      BY DEF Steps, ForEach, Sinks
<1>2. SinkCount \in Nat /\ DOMAIN SinkOrder = 1 .. SinkCount
      BY SinkKeys DEF SinkCount
<1>3. start \in Seq(Step) /\ Len(start) = 5
      /\ start[1] = Deploy("dove") /\ start[2] = Deploy("governance") /\ start[3] = Register("governance")
      /\ start[4] = Deploy("receiver") /\ start[5] = Register("receiver")
      BY StepKinds, SinkKeys
<1>4. router \in Seq(Step) /\ Len(router) = 2
      /\ router[1] = Deploy("router") /\ router[2] = Register("router")
      BY StepKinds, SinkKeys
<1>5. joins \in Seq(Step) /\ Len(joins) = 2
      /\ joins[1] = Write("router", "receiver", {"receiver"}, "throw") /\ joins[2] = SetRouter("receiver")
      BY StepKinds, SinkKeys
<1>6. finish \in Seq(Step) /\ Len(finish) = 6
      /\ finish[1] = Deploy("observer") /\ finish[2] = Register("observer")
      /\ finish[3] = Write("observer", "initialized", {"receiver", "router"} \union Sinks, "keep")
      /\ finish[4] = Write("dataYield", "mevSink", {"mev"}, "overwrite")
      /\ finish[5] = Write("mev", "dataYieldSource", {"dataYield"}, "overwrite")
      /\ finish[6] = Write("receiver", Bootstrap, {}, "overwrite")
  <2>1. finish \in Seq(Step)
        BY StepKinds, SinkKeys
  <2>2. QED BY <2>1
<1>7. /\ sinks \in Seq(Step) /\ Len(sinks) = SinkCount
      /\ registers \in Seq(Step) /\ Len(registers) = SinkCount
      /\ points \in Seq(Step) /\ Len(points) = SinkCount
      /\ guards \in Seq(Step) /\ Len(guards) = SinkCount
      /\ \A i \in 1 .. SinkCount :
            /\ sinks[i] = Deploy(SinkOrder[i]) /\ registers[i] = Register(SinkOrder[i])
            /\ points[i] = RegisterSink(SinkOrder[i]) /\ guards[i] = SetRouter(SinkOrder[i])
  <2>1. \A i \in 1 .. SinkCount :
            /\ sinks[i] = Deploy(SinkOrder[i]) /\ registers[i] = Register(SinkOrder[i])
            /\ points[i] = RegisterSink(SinkOrder[i]) /\ guards[i] = SetRouter(SinkOrder[i])
            /\ SinkOrder[i] \in Keys
        BY <1>2, SinkKeys
  <2>2. /\ sinks = [i \in 1 .. SinkCount |-> sinks[i]]
        /\ registers = [i \in 1 .. SinkCount |-> registers[i]]
        /\ points = [i \in 1 .. SinkCount |-> points[i]]
        /\ guards = [i \in 1 .. SinkCount |-> guards[i]]
        BY <1>2
  <2> HIDE DEF sinks, registers, points, guards
  <2>3. /\ \A i \in 1 .. SinkCount : sinks[i] \in Step
        /\ \A i \in 1 .. SinkCount : registers[i] \in Step
        /\ \A i \in 1 .. SinkCount : points[i] \in Step
        /\ \A i \in 1 .. SinkCount : guards[i] \in Step
        BY <2>1, StepKinds
  <2>4. \A q : q = [i \in 1 .. SinkCount |-> q[i]] /\ (\A i \in 1 .. SinkCount : q[i] \in Step)
               => q \in Seq(Step) /\ Len(q) = SinkCount
    <3> SUFFICES ASSUME NEW q, q = [i \in 1 .. SinkCount |-> q[i]],
                        \A i \in 1 .. SinkCount : q[i] \in Step
                 PROVE  q \in Seq(Step) /\ Len(q) = SinkCount
        OBVIOUS
    <3>1. q \in [1 .. SinkCount -> Step]
          OBVIOUS
    <3>2. QED BY <1>2, <3>1
  <2>5. QED BY <2>1, <2>2, <2>3, <2>4
<1> HIDE DEF start, sinks, router, registers, points, joins, guards, finish
<1> DEFINE s1 == start \o sinks
           s2 == s1 \o router
           s3 == s2 \o registers
           s4 == s3 \o points
           s5 == s4 \o joins
           s6 == s5 \o guards
           s7 == s6 \o finish
<1>8. Steps = s7
       BY <1>1
<1>9. s1 = start \o sinks
       OBVIOUS
<1> HIDE DEF s1
<1>10. s2 = s1 \o router
      OBVIOUS
<1> HIDE DEF s2
<1>11. s3 = s2 \o registers
      OBVIOUS
<1> HIDE DEF s3
<1>12. s4 = s3 \o points
      OBVIOUS
<1> HIDE DEF s4
<1>13. s5 = s4 \o joins
      OBVIOUS
<1> HIDE DEF s5
<1>14. s6 = s5 \o guards
      OBVIOUS
<1> HIDE DEF s6
<1>15. s7 = s6 \o finish
      OBVIOUS
<1> HIDE DEF s7
<1>16. s1 \in Seq(Step) /\ Len(s1) = SinkCount + 5
  <2>1. start \in Seq(Step) /\ sinks \in Seq(Step) /\ Len(start) = 5 /\ Len(sinks) = SinkCount
        BY <1>3, <1>7
  <2>2. s1 \in Seq(Step) /\ Len(s1) = Len(start) + Len(sinks)
        BY ONLY <1>9, <2>1, Joined
  <2>3. QED BY <1>2, <2>1, <2>2
<1>17. s2 \in Seq(Step) /\ Len(s2) = SinkCount + 7
  <2>1. s1 \in Seq(Step) /\ router \in Seq(Step) /\ Len(s1) = SinkCount + 5 /\ Len(router) = 2
        BY <1>16, <1>4
  <2>2. s2 \in Seq(Step) /\ Len(s2) = Len(s1) + Len(router)
        BY ONLY <1>10, <2>1, Joined
  <2>3. QED BY <1>2, <2>1, <2>2
<1>18. s3 \in Seq(Step) /\ Len(s3) = 2 * SinkCount + 7
  <2>1. s2 \in Seq(Step) /\ registers \in Seq(Step) /\ Len(s2) = SinkCount + 7 /\ Len(registers) = SinkCount
        BY <1>17, <1>7
  <2>2. s3 \in Seq(Step) /\ Len(s3) = Len(s2) + Len(registers)
        BY ONLY <1>11, <2>1, Joined
  <2>3. QED BY <1>2, <2>1, <2>2
<1>19. s4 \in Seq(Step) /\ Len(s4) = 3 * SinkCount + 7
  <2>1. s3 \in Seq(Step) /\ points \in Seq(Step) /\ Len(s3) = 2 * SinkCount + 7 /\ Len(points) = SinkCount
        BY <1>18, <1>7
  <2>2. s4 \in Seq(Step) /\ Len(s4) = Len(s3) + Len(points)
        BY ONLY <1>12, <2>1, Joined
  <2>3. QED BY <1>2, <2>1, <2>2
<1>20. s5 \in Seq(Step) /\ Len(s5) = 3 * SinkCount + 9
  <2>1. s4 \in Seq(Step) /\ joins \in Seq(Step) /\ Len(s4) = 3 * SinkCount + 7 /\ Len(joins) = 2
        BY <1>19, <1>5
  <2>2. s5 \in Seq(Step) /\ Len(s5) = Len(s4) + Len(joins)
        BY ONLY <1>13, <2>1, Joined
  <2>3. QED BY <1>2, <2>1, <2>2
<1>21. s6 \in Seq(Step) /\ Len(s6) = 4 * SinkCount + 9
  <2>1. s5 \in Seq(Step) /\ guards \in Seq(Step) /\ Len(s5) = 3 * SinkCount + 9 /\ Len(guards) = SinkCount
        BY <1>20, <1>7
  <2>2. s6 \in Seq(Step) /\ Len(s6) = Len(s5) + Len(guards)
        BY ONLY <1>14, <2>1, Joined
  <2>3. QED BY <1>2, <2>1, <2>2
<1>22. s7 \in Seq(Step) /\ Len(s7) = 4 * SinkCount + 15
  <2>1. s6 \in Seq(Step) /\ finish \in Seq(Step) /\ Len(s6) = 4 * SinkCount + 9 /\ Len(finish) = 6
        BY <1>21, <1>6
  <2>2. s7 \in Seq(Step) /\ Len(s7) = Len(s6) + Len(finish)
        BY ONLY <1>15, <2>1, Joined
  <2>3. QED BY <1>2, <2>1, <2>2
<1>23. \A i \in 1 .. Len(s7) : Steps[i] = s7[i]
       BY <1>8
<1>24. /\ \A i \in 1 .. Len(s6) : Steps[i] = s6[i]
       /\ \A i \in 1 .. Len(finish) : Steps[Len(s6) + i] = finish[i]
  <2>1. s6 \in Seq(Step) /\ finish \in Seq(Step) /\ s7 \in Seq(Step)
        BY <1>21, <1>6, <1>22
  <2>2. /\ Len(s7) = Len(s6) + Len(finish) /\ Len(s6) \in Nat /\ Len(finish) \in Nat
        /\ \A i \in 1 .. Len(s6) : s7[i] = s6[i]
        /\ \A i \in 1 .. Len(finish) : s7[Len(s6) + i] = finish[i]
        BY ONLY <1>15, <2>1, Joined
  <2>3. QED BY ONLY <1>23, <2>2
<1>25. /\ \A i \in 1 .. Len(s5) : Steps[i] = s5[i]
       /\ \A i \in 1 .. Len(guards) : Steps[Len(s5) + i] = guards[i]
  <2>1. s5 \in Seq(Step) /\ guards \in Seq(Step) /\ s6 \in Seq(Step)
        BY <1>20, <1>7, <1>21
  <2>2. /\ Len(s6) = Len(s5) + Len(guards) /\ Len(s5) \in Nat /\ Len(guards) \in Nat
        /\ \A i \in 1 .. Len(s5) : s6[i] = s5[i]
        /\ \A i \in 1 .. Len(guards) : s6[Len(s5) + i] = guards[i]
        BY ONLY <1>14, <2>1, Joined
  <2>3. QED BY ONLY <1>24, <2>2
<1>26. /\ \A i \in 1 .. Len(s4) : Steps[i] = s4[i]
       /\ \A i \in 1 .. Len(joins) : Steps[Len(s4) + i] = joins[i]
  <2>1. s4 \in Seq(Step) /\ joins \in Seq(Step) /\ s5 \in Seq(Step)
        BY <1>19, <1>5, <1>20
  <2>2. /\ Len(s5) = Len(s4) + Len(joins) /\ Len(s4) \in Nat /\ Len(joins) \in Nat
        /\ \A i \in 1 .. Len(s4) : s5[i] = s4[i]
        /\ \A i \in 1 .. Len(joins) : s5[Len(s4) + i] = joins[i]
        BY ONLY <1>13, <2>1, Joined
  <2>3. QED BY ONLY <1>25, <2>2
<1>27. /\ \A i \in 1 .. Len(s3) : Steps[i] = s3[i]
       /\ \A i \in 1 .. Len(points) : Steps[Len(s3) + i] = points[i]
  <2>1. s3 \in Seq(Step) /\ points \in Seq(Step) /\ s4 \in Seq(Step)
        BY <1>18, <1>7, <1>19
  <2>2. /\ Len(s4) = Len(s3) + Len(points) /\ Len(s3) \in Nat /\ Len(points) \in Nat
        /\ \A i \in 1 .. Len(s3) : s4[i] = s3[i]
        /\ \A i \in 1 .. Len(points) : s4[Len(s3) + i] = points[i]
        BY ONLY <1>12, <2>1, Joined
  <2>3. QED BY ONLY <1>26, <2>2
<1>28. /\ \A i \in 1 .. Len(s2) : Steps[i] = s2[i]
       /\ \A i \in 1 .. Len(registers) : Steps[Len(s2) + i] = registers[i]
  <2>1. s2 \in Seq(Step) /\ registers \in Seq(Step) /\ s3 \in Seq(Step)
        BY <1>17, <1>7, <1>18
  <2>2. /\ Len(s3) = Len(s2) + Len(registers) /\ Len(s2) \in Nat /\ Len(registers) \in Nat
        /\ \A i \in 1 .. Len(s2) : s3[i] = s2[i]
        /\ \A i \in 1 .. Len(registers) : s3[Len(s2) + i] = registers[i]
        BY ONLY <1>11, <2>1, Joined
  <2>3. QED BY ONLY <1>27, <2>2
<1>29. /\ \A i \in 1 .. Len(s1) : Steps[i] = s1[i]
       /\ \A i \in 1 .. Len(router) : Steps[Len(s1) + i] = router[i]
  <2>1. s1 \in Seq(Step) /\ router \in Seq(Step) /\ s2 \in Seq(Step)
        BY <1>16, <1>4, <1>17
  <2>2. /\ Len(s2) = Len(s1) + Len(router) /\ Len(s1) \in Nat /\ Len(router) \in Nat
        /\ \A i \in 1 .. Len(s1) : s2[i] = s1[i]
        /\ \A i \in 1 .. Len(router) : s2[Len(s1) + i] = router[i]
        BY ONLY <1>10, <2>1, Joined
  <2>3. QED BY ONLY <1>28, <2>2
<1>30. /\ \A i \in 1 .. Len(start) : Steps[i] = start[i]
       /\ \A i \in 1 .. Len(sinks) : Steps[Len(start) + i] = sinks[i]
  <2>1. start \in Seq(Step) /\ sinks \in Seq(Step) /\ s1 \in Seq(Step)
        BY <1>3, <1>7, <1>16
  <2>2. /\ Len(s1) = Len(start) + Len(sinks) /\ Len(start) \in Nat /\ Len(sinks) \in Nat
        /\ \A i \in 1 .. Len(start) : s1[i] = start[i]
        /\ \A i \in 1 .. Len(sinks) : s1[Len(start) + i] = sinks[i]
        BY ONLY <1>9, <2>1, Joined
  <2>3. QED BY ONLY <1>29, <2>2
<1>31. /\ Steps \in Seq(Step) /\ Len(Steps) = 4 * SinkCount + 15
       BY <1>8, <1>22
<1>32. /\ \A i \in 1 .. SinkCount : Steps[5 + i] = Deploy(SinkOrder[i])
       /\ \A i \in 1 .. SinkCount : Steps[SinkCount + 7 + i] = Register(SinkOrder[i])
       /\ \A i \in 1 .. SinkCount : Steps[2 * SinkCount + 7 + i] = RegisterSink(SinkOrder[i])
       /\ \A i \in 1 .. SinkCount : Steps[3 * SinkCount + 9 + i] = SetRouter(SinkOrder[i])
  <2>1. \A i \in 1 .. SinkCount : Steps[5 + i] = Deploy(SinkOrder[i])
        BY <1>3, <1>7, <1>30
  <2>2. \A i \in 1 .. SinkCount : Steps[SinkCount + 7 + i] = Register(SinkOrder[i])
        BY <1>7, <1>17, <1>28
  <2>3. \A i \in 1 .. SinkCount : Steps[2 * SinkCount + 7 + i] = RegisterSink(SinkOrder[i])
        BY <1>7, <1>18, <1>27
  <2>4. \A i \in 1 .. SinkCount : Steps[3 * SinkCount + 9 + i] = SetRouter(SinkOrder[i])
        BY <1>7, <1>20, <1>25
  <2>5. QED BY <2>1, <2>2, <2>3, <2>4
<1>33. \A i \in 1 .. 5 : Steps[i] = start[i]
       BY <1>3, <1>30
<1>34. \A i \in 1 .. 2 : Steps[SinkCount + 5 + i] = router[i] /\ Steps[3 * SinkCount + 7 + i] = joins[i]
       BY <1>4, <1>5, <1>16, <1>19, <1>26, <1>29
<1>35. \A i \in 1 .. 6 : Steps[4 * SinkCount + 9 + i] = finish[i]
       BY <1>6, <1>21, <1>24
<1>36. /\ SinkCount + 6 = SinkCount + 5 + 1 /\ SinkCount + 7 = SinkCount + 5 + 2
       /\ 3 * SinkCount + 8 = 3 * SinkCount + 7 + 1 /\ 3 * SinkCount + 9 = 3 * SinkCount + 7 + 2
       /\ 4 * SinkCount + 10 = 4 * SinkCount + 9 + 1 /\ 4 * SinkCount + 11 = 4 * SinkCount + 9 + 2
       /\ 4 * SinkCount + 12 = 4 * SinkCount + 9 + 3 /\ 4 * SinkCount + 13 = 4 * SinkCount + 9 + 4
       /\ 4 * SinkCount + 14 = 4 * SinkCount + 9 + 5 /\ 4 * SinkCount + 15 = 4 * SinkCount + 9 + 6
       BY <1>2
<1>37. Steps[1] = Deploy("dove") /\ Steps[2] = Deploy("governance") /\ Steps[3] = Register("governance")
       /\ Steps[4] = Deploy("receiver") /\ Steps[5] = Register("receiver")
       BY <1>3, <1>33
<1>38. /\ Steps[SinkCount + 6] = Deploy("router") /\ Steps[SinkCount + 7] = Register("router")
       /\ Steps[3 * SinkCount + 8] = Write("router", "receiver", {"receiver"}, "throw")
       /\ Steps[3 * SinkCount + 9] = SetRouter("receiver")
       BY <1>4, <1>5, <1>34, <1>36
<1>39. /\ Steps[4 * SinkCount + 10] = Deploy("observer") /\ Steps[4 * SinkCount + 11] = Register("observer")
       /\ Steps[4 * SinkCount + 12] = Write("observer", "initialized", {"receiver", "router"} \union Sinks, "keep")
       /\ Steps[4 * SinkCount + 13] = Write("dataYield", "mevSink", {"mev"}, "overwrite")
       /\ Steps[4 * SinkCount + 14] = Write("mev", "dataYieldSource", {"dataYield"}, "overwrite")
       /\ Steps[4 * SinkCount + 15] = Write("receiver", Bootstrap, {}, "overwrite")
       BY <1>6, <1>35, <1>36
<1>40. QED BY <1>2, <1>31, <1>32, <1>37, <1>38, <1>39

\* The script is ordered, and deploys a contract of every key.
LEMMA StepsOrdered ==
    Steps \in Seq(Step) /\ Ordered(Steps) /\ \A k \in Keys : Deploys(Steps, k)
<1>1. SinkCount \in Nat /\ Steps \in Seq(Step) /\ DOMAIN Steps = 1 .. 4 * SinkCount + 15
      BY StepPlaces
<1>2. \A k \in Keys : /\ Uses(Deploy(k)) = {} /\ Uses(Register(k)) = {"dove", k}
                      /\ Uses(RegisterSink(k)) = {"router", k} /\ Uses(SetRouter(k)) = {k, "router"}
      BY DeployStep, WiringSteps
<1>3. \A k \in Keys \ {"observer"} : \E j \in 1 .. SinkCount + 6 : Steps[j] = Deploy(k)
  <2> SUFFICES ASSUME NEW k \in Keys \ {"observer"}
               PROVE  \E j \in 1 .. SinkCount + 6 : Steps[j] = Deploy(k)
      OBVIOUS
  <2>1. CASE k \in Sinks
    <3>1. PICK n \in 1 .. SinkCount : SinkOrder[n] = k
          BY <2>1, SinkKeys DEF SinkCount
    <3>2. 5 + n \in 1 .. SinkCount + 6 /\ Steps[5 + n] = Deploy(k)
          BY <1>1, <3>1, StepPlaces
    <3>3. QED BY <3>2
  <2>2. CASE k \notin Sinks
    <3>1. k \in {"dove", "governance", "receiver", "router"}
          BY <2>2 DEF Keys, Sinks
    <3>2. {1, 2, 4, SinkCount + 6} \subseteq 1 .. SinkCount + 6
          BY <1>1
    <3>3. QED BY <3>1, <3>2, StepPlaces
  <2>3. QED BY <2>1, <2>2
<1>4. ASSUME NEW i \in DOMAIN Steps, i > SinkCount + 6, "observer" \in Uses(Steps[i])
      PROVE  i > 4 * SinkCount + 10
  <2>1. "observer" \notin Sinks
        BY DeploymentAssumption DEF Sinks
  <2>2. SUFFICES ASSUME i <= 4 * SinkCount + 10 PROVE FALSE
        BY <1>1
  <2>3. \A n \in 1 .. SinkCount : SinkOrder[n] \in Keys /\ SinkOrder[n] # "observer"
        BY <2>1, SinkKeys DEF SinkCount
  <2>4. Uses(Write("router", "receiver", {"receiver"}, "throw")) = {"router", "receiver"}
        BY DEF Uses, Write
  <2>5. \A n \in 1 .. SinkCount : /\ "observer" \notin Uses(Register(SinkOrder[n]))
                                  /\ "observer" \notin Uses(RegisterSink(SinkOrder[n]))
                                  /\ "observer" \notin Uses(SetRouter(SinkOrder[n]))
        BY <1>2, <2>3
  <2>6. /\ "observer" \notin Uses(Register("router")) /\ "observer" \notin Uses(SetRouter("receiver"))
        /\ "observer" \notin Uses(Deploy("observer"))
        BY <1>2, SinkKeys
  <2>7. SinkCount \in Nat /\ i \in Nat /\ i > SinkCount + 6 /\ i <= 4 * SinkCount + 10
        BY <1>1, <1>4, <2>2
  <2>8. \/ i = SinkCount + 7 \/ i - SinkCount - 7 \in 1 .. SinkCount
        \/ i - 2 * SinkCount - 7 \in 1 .. SinkCount \/ i = 3 * SinkCount + 8 \/ i = 3 * SinkCount + 9
        \/ i - 3 * SinkCount - 9 \in 1 .. SinkCount \/ i = 4 * SinkCount + 10
        BY ONLY <2>7
  <2>9. \A n \in 1 .. SinkCount : /\ i = SinkCount + 7 + n => "observer" \notin Uses(Steps[i])
                                  /\ i = 2 * SinkCount + 7 + n => "observer" \notin Uses(Steps[i])
                                  /\ i = 3 * SinkCount + 9 + n => "observer" \notin Uses(Steps[i])
        BY <2>5, StepPlaces
  <2>10. /\ i = SinkCount + 7 + (i - SinkCount - 7) /\ i = 2 * SinkCount + 7 + (i - 2 * SinkCount - 7)
         /\ i = 3 * SinkCount + 9 + (i - 3 * SinkCount - 9)
         BY ONLY <2>7
  <2>11. i = SinkCount + 7 \/ i = 3 * SinkCount + 9 \/ i = 4 * SinkCount + 10
            => "observer" \notin Uses(Steps[i])
         BY <2>6, StepPlaces
  <2>12. i = 3 * SinkCount + 8 => "observer" \notin Uses(Steps[i])
         BY <2>4, StepPlaces
  <2>13. QED BY <1>4, <2>8, <2>9, <2>10, <2>11, <2>12
<1>5. Ordered(Steps)
  <2> SUFFICES ASSUME NEW i \in DOMAIN Steps, NEW k \in Uses(Steps[i])
               PROVE  \E j \in 1 .. i - 1 : Steps[j] = Deploy(k)
      BY DEF Ordered
  <2>1. k \in Keys
    <3>1. Steps[i] \in Step
          BY <1>1
    <3>2. QED BY <3>1 DEF Step, Uses
  <2>2. CASE i \in 1 .. 5
    <3>1. /\ i \in {1, 2, 4} => Uses(Steps[i]) = {}
          /\ i = 3 => Uses(Steps[i]) = {"dove", "governance"}
          /\ i = 5 => Uses(Steps[i]) = {"dove", "receiver"}
      <4>1. /\ Uses(Deploy("dove")) = {} /\ Uses(Deploy("governance")) = {} /\ Uses(Deploy("receiver")) = {}
            /\ Uses(Register("governance")) = {"dove", "governance"}
            /\ Uses(Register("receiver")) = {"dove", "receiver"}
            BY <1>2, SinkKeys
      <4>2. /\ i = 1 => Uses(Steps[i]) = {}
            /\ i = 2 => Uses(Steps[i]) = {}
            /\ i = 4 => Uses(Steps[i]) = {}
            BY <4>1, StepPlaces
      <4>3. /\ i = 3 => Uses(Steps[i]) = {"dove", "governance"}
            /\ i = 5 => Uses(Steps[i]) = {"dove", "receiver"}
            BY <4>1, StepPlaces
      <4>4. QED BY <4>2, <4>3
    <3>2. (i = 3 /\ k \in {"dove", "governance"}) \/ (i = 5 /\ k \in {"dove", "receiver"})
      <4>1. i \in {1, 2, 3, 4, 5}
            BY <2>2
      <4>2. QED BY <3>1, <4>1
    <3>3. CASE i = 3
          BY <3>2, <3>3, StepPlaces
    <3>4. CASE i = 5
          BY <3>2, <3>4, StepPlaces
    <3>5. QED BY <3>2, <3>3, <3>4
  <2>3. CASE i \in 6 .. SinkCount + 6
    <3>1. Uses(Steps[i]) = {}
      <4>1. CASE i = SinkCount + 6
            BY <1>2, <4>1, SinkKeys, StepPlaces
      <4>2. CASE i # SinkCount + 6
        <5>1. i - 5 \in 1 .. SinkCount /\ i = 5 + (i - 5)
              BY <1>1, <2>3, <4>2
        <5>2. Steps[i] = Deploy(SinkOrder[i - 5]) /\ SinkOrder[i - 5] \in Keys
              BY <5>1, SinkKeys, StepPlaces DEF SinkCount
        <5>3. QED BY <1>2, <5>2
      <4>3. QED BY <4>1, <4>2
    <3>2. QED BY <3>1
  <2>4. CASE i > SinkCount + 6
    <3>1. CASE k = "observer"
      <4>1. 4 * SinkCount + 10 \in 1 .. i - 1
            BY <1>1, <1>4, <2>4, <3>1
      <4>2. QED BY <3>1, <4>1, StepPlaces
    <3>2. CASE k # "observer"
      <4>1. PICK j \in 1 .. SinkCount + 6 : Steps[j] = Deploy(k)
            BY <1>3, <2>1, <3>2
      <4>2. j \in 1 .. i - 1
            BY <1>1, <2>4
      <4>3. QED BY <4>1, <4>2
    <3>3. QED BY <3>1, <3>2
  <2>5. QED BY <1>1, <2>2, <2>3, <2>4
<1>6. ASSUME NEW k \in Keys PROVE Deploys(Steps, k)
  <2>1. CASE k = "observer"
    <3>1. 4 * SinkCount + 10 \in DOMAIN Steps
          BY <1>1
    <3>2. QED BY <2>1, <3>1, StepPlaces DEF Deploys
  <2>2. CASE k # "observer"
    <3>1. PICK j \in 1 .. SinkCount + 6 : Steps[j] = Deploy(k)
          BY <1>3, <2>2
    <3>2. j \in DOMAIN Steps
          BY <1>1
    <3>3. QED BY <3>1, <3>2 DEF Deploys
  <2>3. QED BY <2>1, <2>2
<1>7. QED BY <1>1, <1>5, <1>6

\* A deployment step is at the place of its key; a write step is one of eight kinds.
Registered == {"governance", "receiver", "router", "observer"} \union Sinks
Wiring ==
    {Register(k) : k \in Registered} \union {RegisterSink(k) : k \in Sinks}
    \union {SetRouter(k) : k \in {"receiver"} \union Sinks}
    \union {Write("router", "receiver", {"receiver"}, "throw"),
            Write("observer", "initialized", {"receiver", "router"} \union Sinks, "keep"),
            Write("dataYield", "mevSink", {"mev"}, "overwrite"),
            Write("mev", "dataYieldSource", {"dataYield"}, "overwrite")}
    \union {Write("receiver", name, {}, "overwrite") : name \in SourceNames}

\* A write of the script that stores no contract approves the bootstrap source.
Scripted(w) == w \in Wiring /\ (w.to = {} => w.slot = Bootstrap)

LEMMA StepAt ==
    ASSUME NEW i \in DOMAIN Steps
    PROVE  \/ /\ Steps[i].do = "deploy" /\ Steps[i] = Deploy(Steps[i].key)
              /\ \/ i = 1 /\ Steps[i].key = "dove"
                 \/ i = 2 /\ Steps[i].key = "governance"
                 \/ i = 4 /\ Steps[i].key = "receiver"
                 \/ \E n \in 1 .. SinkCount : i = 5 + n /\ Steps[i].key = SinkOrder[n]
                 \/ i = SinkCount + 6 /\ Steps[i].key = "router"
                 \/ i = 4 * SinkCount + 10 /\ Steps[i].key = "observer"
           \/ Steps[i].do = "write" /\ Scripted(Steps[i])
<1> DEFINE Place == \/ i = 1 /\ Steps[i] = Deploy("dove")
                    \/ i = 2 /\ Steps[i] = Deploy("governance")
                    \/ i = 4 /\ Steps[i] = Deploy("receiver")
                    \/ \E n \in 1 .. SinkCount : i = 5 + n /\ Steps[i] = Deploy(SinkOrder[n])
                    \/ i = SinkCount + 6 /\ Steps[i] = Deploy("router")
                    \/ i = 4 * SinkCount + 10 /\ Steps[i] = Deploy("observer")
       IsWrite == Steps[i].do = "write" /\ Scripted(Steps[i])
<1>1. \A k : Deploy(k).do = "deploy" /\ Deploy(k).key = k
      BY DEF Deploy
<1>2. /\ \A k \in Registered : Register(k).do = "write" /\ Scripted(Register(k))
      /\ \A k \in Sinks : RegisterSink(k).do = "write" /\ Scripted(RegisterSink(k))
      /\ \A k \in {"receiver"} \union Sinks : SetRouter(k).do = "write" /\ Scripted(SetRouter(k))
  <2>1. \A k \in Registered : Register(k) \in Wiring /\ Register(k).to # {}
        BY DEF Wiring, Register, Write
  <2>2. \A k \in Sinks : RegisterSink(k) \in Wiring /\ RegisterSink(k).to # {}
        BY DEF Wiring, RegisterSink, Write
  <2>3. \A k \in {"receiver"} \union Sinks : SetRouter(k) \in Wiring /\ SetRouter(k).to # {}
        BY DEF Wiring, SetRouter, Write
  <2>4. \A k : Register(k).do = "write" /\ RegisterSink(k).do = "write" /\ SetRouter(k).do = "write"
        BY DEF Register, RegisterSink, SetRouter, Write
  <2>5. QED BY <2>1, <2>2, <2>3, <2>4 DEF Scripted
<1>3. \A w \in {Write("router", "receiver", {"receiver"}, "throw"),
                Write("observer", "initialized", {"receiver", "router"} \union Sinks, "keep"),
                Write("dataYield", "mevSink", {"mev"}, "overwrite"),
                Write("mev", "dataYieldSource", {"dataYield"}, "overwrite"),
                Write("receiver", Bootstrap, {}, "overwrite")} : w.do = "write" /\ Scripted(w)
  <2>1. \A of, slot, to, other : /\ Write(of, slot, to, other).do = "write"
                                  /\ Write(of, slot, to, other).slot = slot
                                  /\ Write(of, slot, to, other).to = to
        BY DEF Write
  <2>2. Write("receiver", Bootstrap, {}, "overwrite")
          \in {Write("receiver", name, {}, "overwrite") : name \in SourceNames}
        BY Zenon DEF SourceNames
  <2>3. {"receiver"} # {} /\ {"receiver", "router"} \union Sinks # {} /\ {"mev"} # {} /\ {"dataYield"} # {}
        OBVIOUS
  <2>4. \A w \in {Write("router", "receiver", {"receiver"}, "throw"),
                  Write("observer", "initialized", {"receiver", "router"} \union Sinks, "keep"),
                  Write("dataYield", "mevSink", {"mev"}, "overwrite"),
                  Write("mev", "dataYieldSource", {"dataYield"}, "overwrite"),
                  Write("receiver", Bootstrap, {}, "overwrite")} : w \in Wiring
        BY <2>2, Zenon DEF Wiring
  <2>5. \A w \in {Write("router", "receiver", {"receiver"}, "throw"),
                  Write("observer", "initialized", {"receiver", "router"} \union Sinks, "keep"),
                  Write("dataYield", "mevSink", {"mev"}, "overwrite"),
                  Write("mev", "dataYieldSource", {"dataYield"}, "overwrite"),
                  Write("receiver", Bootstrap, {}, "overwrite")} :
             w.do = "write" /\ (w.to # {} \/ w.slot = Bootstrap)
        BY <2>1, <2>3
  <2>6. QED BY <2>4, <2>5, Zenon DEF Scripted
<1>4. SinkCount \in Nat /\ i \in 1 .. 4 * SinkCount + 15
      BY StepPlaces
<1>5. /\ \A n \in 1 .. SinkCount : SinkOrder[n] \in Sinks
      /\ "governance" \in Registered /\ "receiver" \in Registered /\ "router" \in Registered
      /\ "observer" \in Registered /\ Sinks \subseteq Registered
      BY SinkKeys DEF SinkCount, Registered
<1>6. i \in 1 .. 5 => Place \/ IsWrite
  <2>1. i \in {1, 2, 4} => Place
        BY StepPlaces
  <2>2. i \in {3, 5} => IsWrite
    <3>1. i \in {3, 5} => Steps[i] \in {Register("governance"), Register("receiver")}
          BY StepPlaces
    <3>2. QED BY <1>2, <1>5, <3>1
  <2>3. i \in 1 .. 5 => i \in {1, 2, 3, 4, 5}
        OBVIOUS
  <2> HIDE DEF Place, IsWrite
  <2>4. QED BY <2>1, <2>2, <2>3
<1>7. ASSUME NEW n \in 1 .. SinkCount
      PROVE  /\ i = 5 + n => Place
             /\ i = SinkCount + 7 + n => IsWrite
             /\ i = 2 * SinkCount + 7 + n => IsWrite
             /\ i = 3 * SinkCount + 9 + n => IsWrite
  <2>1. i = 5 + n => Place
        BY StepPlaces
  <2>2. /\ i = SinkCount + 7 + n => Steps[i] = Register(SinkOrder[n])
        /\ i = 2 * SinkCount + 7 + n => Steps[i] = RegisterSink(SinkOrder[n])
        /\ i = 3 * SinkCount + 9 + n => Steps[i] = SetRouter(SinkOrder[n])
        BY StepPlaces
  <2>3. Register(SinkOrder[n]).do = "write" /\ Scripted(Register(SinkOrder[n]))
        BY <1>2, <1>5
  <2>4. RegisterSink(SinkOrder[n]).do = "write" /\ Scripted(RegisterSink(SinkOrder[n]))
        BY <1>2, <1>5
  <2>5. SetRouter(SinkOrder[n]).do = "write" /\ Scripted(SetRouter(SinkOrder[n]))
        BY <1>2, <1>5
  <2> HIDE DEF Place
  <2>6. QED BY <2>1, <2>2, <2>3, <2>4, <2>5
<1>8. /\ i = SinkCount + 6 => Place
      /\ i = 4 * SinkCount + 10 => Place
      BY StepPlaces
<1>9. /\ i = SinkCount + 7 => IsWrite
      /\ i = 3 * SinkCount + 9 => IsWrite
      /\ i = 4 * SinkCount + 11 => IsWrite
  <2>1. /\ i = SinkCount + 7 => Steps[i] = Register("router")
        /\ i = 3 * SinkCount + 9 => Steps[i] = SetRouter("receiver")
        /\ i = 4 * SinkCount + 11 => Steps[i] = Register("observer")
        BY StepPlaces
  <2>2. /\ Register("router").do = "write" /\ Scripted(Register("router"))
        /\ SetRouter("receiver").do = "write" /\ Scripted(SetRouter("receiver"))
        /\ Register("observer").do = "write" /\ Scripted(Register("observer"))
        BY <1>2, <1>5
  <2>3. QED BY <2>1, <2>2
<1>10. /\ i = 3 * SinkCount + 8 => IsWrite
       /\ i = 4 * SinkCount + 12 => IsWrite
       /\ i = 4 * SinkCount + 13 => IsWrite
       /\ i = 4 * SinkCount + 14 => IsWrite
       /\ i = 4 * SinkCount + 15 => IsWrite
       BY <1>3, StepPlaces
<1>11. \/ i \in 1 .. 5
       \/ i - 5 \in 1 .. SinkCount \/ i = SinkCount + 6 \/ i = SinkCount + 7
       \/ i - SinkCount - 7 \in 1 .. SinkCount \/ i - 2 * SinkCount - 7 \in 1 .. SinkCount
       \/ i = 3 * SinkCount + 8 \/ i = 3 * SinkCount + 9
       \/ i - 3 * SinkCount - 9 \in 1 .. SinkCount
       \/ i = 4 * SinkCount + 10 \/ i = 4 * SinkCount + 11 \/ i = 4 * SinkCount + 12
       \/ i = 4 * SinkCount + 13 \/ i = 4 * SinkCount + 14 \/ i = 4 * SinkCount + 15
       BY <1>4
<1>12. /\ i = 5 + (i - 5) /\ i = SinkCount + 7 + (i - SinkCount - 7)
       /\ i = 2 * SinkCount + 7 + (i - 2 * SinkCount - 7)
       /\ i = 3 * SinkCount + 9 + (i - 3 * SinkCount - 9)
       BY <1>4
<1>13. Place \/ IsWrite
  <2> HIDE DEF Place, IsWrite
  <2>1. QED BY <1>6, <1>7, <1>8, <1>9, <1>10, <1>11, <1>12
<1>14. Place => Steps[i].do = "deploy" /\ Steps[i] = Deploy(Steps[i].key)
       BY <1>1
<1>15. Place => \/ i = 1 /\ Steps[i].key = "dove"
                \/ i = 2 /\ Steps[i].key = "governance"
                \/ i = 4 /\ Steps[i].key = "receiver"
                \/ \E n \in 1 .. SinkCount : i = 5 + n /\ Steps[i].key = SinkOrder[n]
                \/ i = SinkCount + 6 /\ Steps[i].key = "router"
                \/ i = 4 * SinkCount + 10 /\ Steps[i].key = "observer"
       BY <1>1
<1> HIDE DEF Place
<1>16. QED BY <1>13, <1>14, <1>15

\* A contract of each key is deployed once, the observer after all others.
LEMMA DeployedOnce ==
    ASSUME NEW i \in DOMAIN Steps, NEW j \in DOMAIN Steps,
           Steps[i].do = "deploy", Steps[j].do = "deploy", Steps[i].key = Steps[j].key
    PROVE  i = j
<1>1. \A s \in Wiring : s.do = "write"
      BY DEF Wiring, Register, RegisterSink, SetRouter, Write
<1>2. \A n \in 1 .. SinkCount :
         /\ SinkOrder[n] \notin {"dove", "governance", "receiver", "router", "observer"}
         /\ \A m \in 1 .. SinkCount : SinkOrder[m] = SinkOrder[n] => m = n
      BY SinkKeys, DeploymentAssumption DEF SinkCount, Sinks
<1>3. \A p \in DOMAIN Steps : Steps[p].do = "deploy" =>
         \/ p = 1 /\ Steps[p].key = "dove"
         \/ p = 2 /\ Steps[p].key = "governance"
         \/ p = 4 /\ Steps[p].key = "receiver"
         \/ \E n \in 1 .. SinkCount : p = 5 + n /\ Steps[p].key = SinkOrder[n]
         \/ p = SinkCount + 6 /\ Steps[p].key = "router"
         \/ p = 4 * SinkCount + 10 /\ Steps[p].key = "observer"
      BY StepAt
<1>4. CASE Steps[i].key \in Sinks
  <2>1. Steps[i].key \notin {"dove", "governance", "receiver", "router", "observer"}
        BY <1>4, DeploymentAssumption DEF Sinks
  <2>2. PICK n \in 1 .. SinkCount : i = 5 + n /\ Steps[i].key = SinkOrder[n]
        BY <1>3, <2>1
  <2>3. PICK m \in 1 .. SinkCount : j = 5 + m /\ Steps[j].key = SinkOrder[m]
        BY <1>3, <2>1
  <2>4. QED BY <1>2, <2>2, <2>3
<1>5. CASE Steps[i].key \notin Sinks
  <2>1. \A n \in 1 .. SinkCount : SinkOrder[n] \in Sinks
        BY SinkKeys DEF SinkCount
  <2>2. QED BY <1>3, <1>5, <2>1
<1>6. QED BY <1>4, <1>5

LEMMA ObserverLast ==
    ASSUME NEW i \in DOMAIN Steps, Steps[i] = Deploy("observer"), NEW k \in Keys, k # "observer"
    PROVE  \E j \in 1 .. i - 1 : Steps[j] = Deploy(k)
<1>1. i = 4 * SinkCount + 10 /\ SinkCount \in Nat
  <2>1. Steps[i].do = "deploy" /\ Steps[i].key = "observer"
        BY DEF Deploy
  <2>2. 4 * SinkCount + 10 \in DOMAIN Steps /\ Steps[4 * SinkCount + 10] = Deploy("observer")
        BY StepPlaces
  <2>3. Steps[4 * SinkCount + 10].do = "deploy" /\ Steps[4 * SinkCount + 10].key = "observer"
        BY <2>2 DEF Deploy
  <2>4. QED BY <2>1, <2>2, <2>3, DeployedOnce, StepPlaces
<1>2. CASE k \in Sinks
  <2>1. PICK n \in 1 .. SinkCount : SinkOrder[n] = k
        BY <1>2, SinkKeys DEF SinkCount
  <2>2. 5 + n \in 1 .. i - 1 /\ Steps[5 + n] = Deploy(k)
        BY <1>1, <2>1, StepPlaces
  <2>3. QED BY <2>2
<1>3. CASE k \in {"dove", "governance", "receiver", "router"}
  <2>1. {1, 2, 4, SinkCount + 6} \subseteq 1 .. i - 1
        BY <1>1
  <2>2. QED BY <1>3, <2>1, StepPlaces
<1>4. QED BY <1>2, <1>3 DEF Keys, Sinks

\* Every contract is registered with DoveCore.
LEMMA AllRegistered ==
    ASSUME NEW k \in Registered
    PROVE  \E i \in DOMAIN Steps : Steps[i] = Register(k)
<1>1. CASE k \in Sinks
  <2>1. PICK n \in 1 .. SinkCount : SinkOrder[n] = k
        BY <1>1, SinkKeys DEF SinkCount
  <2>2. SinkCount + 7 + n \in DOMAIN Steps /\ Steps[SinkCount + 7 + n] = Register(k)
        BY <2>1, StepPlaces
  <2>3. QED BY <2>2
<1>2. CASE k \in {"governance", "receiver", "router", "observer"}
  <2>1. {3, 5, SinkCount + 7, 4 * SinkCount + 11} \subseteq DOMAIN Steps
        BY StepPlaces
  <2>2. QED BY <1>2, <2>1, StepPlaces
<1>3. QED BY <1>1, <1>2 DEF Registered

\* What is written into a slot, and how, is told by the slot, but for the observers.
LEMMA RouterIsNoSource ==
    /\ "router" \notin SourceNames /\ Bootstrap \in SourceNames
    /\ \A i \in DOMAIN Sources : Sources[i].source \in SourceNames
<1>1. Sources \in Seq([source : STRING \ {"router"}, approved : BOOLEAN])
      BY DeploymentAssumption
<1>2. \A i \in DOMAIN Sources : Sources[i].source # "router"
  <2>1. PICK E : E = [source : STRING \ {"router"}, approved : BOOLEAN]
        OBVIOUS
  <2>2. Sources \in Seq(E)
        BY <1>1, <2>1
  <2>3. \A i \in DOMAIN Sources : Sources[i] \in E
        BY <2>2
  <2>4. QED BY <2>1, <2>3
<1>3. Bootstrap # "router"
      BY DEF Bootstrap
<1>4. QED BY <1>2, <1>3 DEF SourceNames

LEMMA SlotsDiffer ==
    ASSUME NEW s \in Wiring, NEW t \in Wiring, s.of = t.of, s.slot = t.slot
    PROVE  s = t \/ (s.other = "add" /\ t.other = "add")
<1>1. /\ Sinks \intersect {"dove", "governance", "receiver", "router", "observer"} = {}
      /\ "router" \notin SourceNames
      BY RouterIsNoSource, DeploymentAssumption DEF Sinks
<1> DEFINE Kind(w) ==
       \/ w.of = "dove" /\ w.other = "add"
       \/ w.of = "router" /\ w.slot \in Sinks /\ w = RegisterSink(w.slot)
       \/ w.of \in {"receiver"} \union Sinks /\ w.slot = "router" /\ w = SetRouter(w.of)
       \/ w.of = "router" /\ w.slot = "receiver" /\ w = Write("router", "receiver", {"receiver"}, "throw")
       \/ w.of = "observer" /\ w = Write("observer", "initialized", {"receiver", "router"} \union Sinks, "keep")
       \/ w.of = "dataYield" /\ w.slot = "mevSink" /\ w = Write("dataYield", "mevSink", {"mev"}, "overwrite")
       \/ w.of = "mev" /\ w.slot = "dataYieldSource" /\ w = Write("mev", "dataYieldSource", {"dataYield"}, "overwrite")
       \/ w.of = "receiver" /\ w.slot \in SourceNames
          /\ w = Write("receiver", w.slot, {}, "overwrite")
<1>2. ASSUME NEW w \in Wiring PROVE Kind(w)
  <2>1. CASE w \in {Register(k) : k \in Registered}
        BY <2>1 DEF Register, Write
  <2>2. CASE w \in {RegisterSink(k) : k \in Sinks}
        BY <2>2 DEF RegisterSink, Write
  <2>3. CASE w \in {SetRouter(k) : k \in {"receiver"} \union Sinks}
        BY <2>3 DEF SetRouter, Write
  <2>4. CASE w = Write("router", "receiver", {"receiver"}, "throw")
        BY <2>4 DEF Write
  <2>5. CASE w = Write("observer", "initialized", {"receiver", "router"} \union Sinks, "keep")
        BY <2>5 DEF Write
  <2>6. CASE w = Write("dataYield", "mevSink", {"mev"}, "overwrite")
        BY <2>6 DEF Write
  <2>7. CASE w = Write("mev", "dataYieldSource", {"dataYield"}, "overwrite")
        BY <2>7 DEF Write
  <2>8. CASE w \in {Write("receiver", name, {}, "overwrite") : name \in SourceNames}
        BY <2>8 DEF Write
  <2> HIDE DEF Kind
  <2>9. QED BY <1>2, <2>1, <2>2, <2>3, <2>4, <2>5, <2>6, <2>7, <2>8 DEF Wiring
<1>3. {"mev", "dataYield"} \subseteq Sinks
      BY SinkKeys
<1>4. Kind(s) /\ Kind(t)
      BY <1>2
<1>5. CASE s.of = "dove"
      BY <1>1, <1>3, <1>4, <1>5
<1>6. CASE s.of = "router"
      BY <1>1, <1>3, <1>4, <1>6
<1>7. CASE s.of = "observer"
      BY <1>1, <1>3, <1>4, <1>7
<1>8. CASE s.of = "receiver"
      BY <1>1, <1>3, <1>4, <1>8 DEF Bootstrap
<1>9. CASE s.of \in Sinks
      BY <1>1, <1>3, <1>4, <1>9
<1>10. QED BY <1>3, <1>4, <1>5, <1>6, <1>7, <1>8, <1>9
-----------------------------------------------------------------------------
(* Types.                                                                   *)

Fact == [of : Keys \X Nat, slot : Slots \union SourceNames,
         to : UNION {[D -> Nat] : D \in SUBSET Keys}]
WriteTx == [do : {"write"}, via : Nat, fact : Fact, other : Others \union {"revoke"}]
Tx == [do : {"deploy"}, key : Keys] \union WriteTx

TypeInv ==
    /\ deployed \in [Keys -> Nat] /\ facts \subseteq Fact
    /\ mempool \in Seq(Tx)
    /\ phase \in {"idle", "running", "failed", "complete"}
    /\ step \in Nat \ {0} /\ awaiting \in Nat
    /\ system \in [Keys -> Nat] /\ resume \in [Keys -> Nat]
    /\ report \in [Keys -> Nat] /\ final \in [Keys -> Nat]
    /\ handoff \in Nat /\ handoffTx \in {"none", "sent", "mined", "reverted"}

LEMMA NoneTyped == None \in [Keys -> Nat]
BY DEF None

LEMMA HereTyped ==
    ASSUME TypeInv, NEW kind, AtStep(kind)
    PROVE  step \in DOMAIN Steps /\ Here = Steps[step] /\ Here \in Step /\ Here.do = kind
BY StepsOrdered DEF TypeInv, AtStep, Here

LEMMA DeployHere ==
    ASSUME TypeInv, AtStep("deploy")
    PROVE  Here.key \in Keys
BY HereTyped DEF Step

LEMMA WriteHere ==
    ASSUME TypeInv, AtStep("write")
    PROVE  Here.of \in Keys /\ Here.slot \in Slots /\ Here.to \in SUBSET Keys /\ Here.other \in Others
BY HereTyped DEF Step

LEMMA FactTyped ==
    ASSUME NEW of \in Keys, NEW n \in Nat, NEW slot \in Slots \union SourceNames,
           NEW D \in SUBSET Keys, NEW to \in [D -> Nat]
    PROVE  [of |-> <<of, n>>, slot |-> slot, to |-> to] \in Fact
<1>1. to \in UNION {[E -> Nat] : E \in SUBSET Keys}
      OBVIOUS
<1>2. <<of, n>> \in Keys \X Nat
      OBVIOUS
<1>3. QED BY <1>1, <1>2 DEF Fact

LEMMA StepFact ==
    ASSUME TypeInv, AtStep("write")
    PROVE  FactOf(Here, system) \in Fact
<1>1. Here.of \in Keys /\ system[Here.of] \in Nat /\ Here.slot \in Slots /\ Here.to \in SUBSET Keys
      BY WriteHere DEF TypeInv
<1>2. [k \in Here.to |-> system[k]] \in [Here.to -> Nat]
      BY <1>1 DEF TypeInv
<1>3. QED BY <1>1, <1>2, FactTyped DEF FactOf

LEMMA SourceFact ==
    ASSUME NEW n \in Nat, NEW name \in SourceNames
    PROVE  Source(n, name) \in Fact /\ Source(n, name).slot = name /\ Source(n, name).of = <<"receiver", n>>
<1>1. "receiver" \in Keys /\ name \in Slots \union SourceNames
      BY SinkKeys
<1>2. [k \in {} |-> 0] \in [{} -> Nat] /\ {} \in SUBSET Keys
      OBVIOUS
<1>3. Source(n, name) \in Fact
      BY <1>1, <1>2, FactTyped DEF Source
<1>4. QED BY <1>3 DEF Source

\* What the handoff executes: its configuration's entries, and at the end the revocation.
Entry == [source : SourceNames, approved : BOOLEAN]

LEMMA ExecutionKinds ==
    /\ DOMAIN Sources = 1 .. Len(Sources) /\ Len(Sources) \in Nat \ {0} /\ 0 \notin DOMAIN Executions
    /\ \A i \in DOMAIN Executions :
          \/ i \in DOMAIN Sources /\ Executions[i] = Sources[i] /\ Sources[i] \in Entry
          \/ /\ i = Len(Sources) + 1 /\ Revokes
             /\ Executions[i].source = Bootstrap /\ Executions[i].approved = FALSE
<1> DEFINE last == IF Revokes THEN <<[source |-> Bootstrap, approved |-> FALSE]>> ELSE <<>>
<1>1. Sources \in Seq(Entry) /\ Sources # <<>>
  <2>1. PICK E : E = [source : STRING \ {"router"}, approved : BOOLEAN]
        OBVIOUS
  <2>2. Sources \in Seq(E) /\ Sources # <<>>
        BY <2>1, DeploymentAssumption
  <2>3. \A i \in DOMAIN Sources : Sources[i] \in E /\ Sources[i].source \in SourceNames
        BY <2>2, RouterIsNoSource
  <2>4. \A e \in E : e.source \in SourceNames => e \in Entry
        BY <2>1 DEF Entry
  <2>5. \A i \in DOMAIN Sources : Sources[i] \in Entry
        BY <2>3, <2>4
  <2>6. QED BY <2>2, <2>5
<1>2. DOMAIN Sources = 1 .. Len(Sources) /\ Len(Sources) \in Nat \ {0}
      /\ \A i \in 1 .. Len(Sources) : Sources[i] \in Entry
      BY <1>1
<1>3. last \in Seq(Entry) /\ Len(last) \in {0, 1}
      /\ \A j \in 1 .. Len(last) : Revokes /\ last[j].source = Bootstrap /\ last[j].approved = FALSE
  <2>1. [source |-> Bootstrap, approved |-> FALSE] \in Entry
        BY RouterIsNoSource DEF Entry
  <2>2. CASE Revokes
    <3>1. \A r \in Entry : <<r>> \in Seq(Entry) /\ Len(<<r>>) = 1 /\ <<r>>[1] = r
          OBVIOUS
    <3>2. QED BY <2>1, <2>2, <3>1
  <2>3. CASE ~Revokes
    <3>1. last = <<>>
          BY <2>3
    <3>2. QED BY <3>1
  <2>4. QED BY <2>2, <2>3
<1>4. Executions = Sources \o last
      BY DEF Executions
<1> HIDE DEF last
<1>5. /\ DOMAIN Executions = 1 .. Len(Sources) + Len(last)
      /\ \A i \in 1 .. Len(Sources) : Executions[i] = Sources[i]
      /\ \A i \in Len(Sources) + 1 .. Len(Sources) + Len(last) : Executions[i] = last[i - Len(Sources)]
      BY <1>1, <1>2, <1>3, <1>4
<1>6. QED BY <1>2, <1>3, <1>5

LEMMA ExecutionEntry ==
    ASSUME NEW i \in DOMAIN Executions
    PROVE  Executions[i].source \in SourceNames /\ Executions[i].approved \in BOOLEAN
BY ExecutionKinds, RouterIsNoSource DEF Entry

LEMMA ExecutionTyped ==
    ASSUME TypeInv, NEW i \in DOMAIN Executions
    PROVE  Execution(Executions[i]) \in WriteTx
<1>1. "receiver" \in Keys /\ "governance" \in Keys
      BY SinkKeys
<1>2. final["receiver"] \in Nat /\ final["governance"] \in Nat
      BY <1>1 DEF TypeInv
<1>3. Source(final["receiver"], Executions[i].source) \in Fact
      BY <1>2, ExecutionEntry, SourceFact
<1>4. QED BY <1>2, <1>3 DEF Execution, WriteTx, Others

LEMMA Sent ==
    ASSUME mempool \in Seq(Tx), NEW tx \in Tx, Send(tx)
    PROVE  mempool' \in Seq(Tx) /\ ToSet(mempool') = ToSet(mempool) \union {tx}
<1>1. mempool' = Append(mempool, tx)
      BY DEF Send
<1>2. /\ mempool' \in Seq(Tx) /\ DOMAIN mempool' = DOMAIN mempool \union {Len(mempool) + 1}
      /\ \A i \in DOMAIN mempool : mempool'[i] = mempool[i]
      /\ mempool'[Len(mempool) + 1] = tx
      BY <1>1
<1>3. QED BY <1>2 DEF ToSet

LEMMA Mined ==
    ASSUME mempool \in Seq(Tx), mempool # <<>>
    PROVE  /\ Head(mempool) \in Tx /\ Head(mempool) \in ToSet(mempool)
           /\ Tail(mempool) \in Seq(Tx) /\ ToSet(Tail(mempool)) \subseteq ToSet(mempool)
<1>1. Len(mempool) \in Nat \ {0} /\ DOMAIN mempool = 1 .. Len(mempool) /\ Head(mempool) = mempool[1]
      BY SMT
<1>2. /\ Tail(mempool) \in Seq(Tx) /\ DOMAIN Tail(mempool) = 1 .. Len(mempool) - 1
      /\ \A i \in DOMAIN Tail(mempool) : Tail(mempool)[i] = mempool[i + 1] /\ i + 1 \in DOMAIN mempool
      BY <1>1
<1>3. QED BY <1>1, <1>2 DEF ToSet
-----------------------------------------------------------------------------
(* The types are an invariant.                                              *)

LEMMA StoredTyped ==
    ASSUME facts \subseteq Fact, NEW tx \in WriteTx
    PROVE  Stored(tx) \subseteq Fact
BY DEF Stored, WriteTx, InSlot

LEMMA AttachTyped ==
    ASSUME TypeInv, NEW k \in Keys, NEW n \in Nat, Attach(k, n)
    PROVE  system' \in [Keys -> Nat] /\ report' \in [Keys -> Nat] /\ step' \in Nat \ {0}
BY DEF TypeInv, Attach, Publish

\* What a write step sends.
WriteSent ==
    [do |-> "write", via |-> system["governance"], fact |-> FactOf(Here, system), other |-> Here.other]

LEMMA WriteSentTyped ==
    ASSUME TypeInv, AtStep("write")
    PROVE  WriteSent \in WriteTx
<1>1. FactOf(Here, system) \in Fact /\ Here.other \in Others
      BY StepFact, WriteHere
<1>2. system["governance"] \in Nat
      BY SinkKeys DEF TypeInv
<1>3. QED BY <1>1, <1>2 DEF WriteSent, WriteTx

LEMMA TypeScript ==
    ASSUME TypeInv, Run \/ ScriptStep \/ Interrupted
    PROVE  TypeInv'
<1>1. CASE Run
      BY <1>1, NoneTyped DEF TypeInv, Run, chain, handoffScript, reports
<1>2. CASE AttachResumed
  <2>1. Here.key \in Keys /\ resume[Here.key] \in Nat /\ Attach(Here.key, resume[Here.key])
        BY <1>2, DeployHere DEF AttachResumed, TypeInv
  <2>2. QED BY <1>2, <2>1, AttachTyped DEF TypeInv, AttachResumed, chain, handoffScript, reports
<1>3. CASE SendDeployment
  <2>1. Here.key \in Keys /\ [do |-> "deploy", key |-> Here.key] \in Tx
        BY <1>3, DeployHere DEF SendDeployment, Tx, reports
  <2>2. mempool' \in Seq(Tx)
        BY <1>3, <2>1, Sent DEF SendDeployment, TypeInv, reports
  <2>3. PICK ahead : ahead = PendingDeployments(Here.key)
        OBVIOUS
  <2>4. awaiting' \in Nat
    <3>1. IsFiniteSet(1 .. Len(mempool)) /\ DOMAIN mempool = 1 .. Len(mempool)
          BY FS_Interval DEF TypeInv
    <3>2. Cardinality(ahead) \in Nat
          BY <2>3, <3>1, FS_Subset, FS_CardinalityType DEF PendingDeployments
    <3>3. awaiting' = deployed[Here.key] + Cardinality(ahead) + 1
          BY <1>3, <2>3 DEF SendDeployment, reports
    <3>4. QED BY <2>1, <3>2, <3>3 DEF TypeInv
  <2>5. QED BY <1>3, <2>2, <2>4 DEF TypeInv, SendDeployment, chain, handoffScript, reports
<1>4. CASE Deployed
  <2>1. Here.key \in Keys /\ Attach(Here.key, awaiting)
        BY <1>4, DeployHere DEF Deployed
  <2>2. QED BY <1>4, <2>1, AttachTyped DEF TypeInv, Deployed, chain, handoffScript, reports
<1>5. CASE WriteStep
  <2>1. mempool' \in Seq(Tx)
    <3>1. WriteSent \in Tx
          BY <1>5, WriteSentTyped DEF WriteStep, Tx, reports
    <3>2. mempool' = mempool \/ Send(WriteSent)
          BY <1>5 DEF WriteStep, Written, WriteSent, reports
    <3>3. QED BY <3>1, <3>2, Sent DEF TypeInv
  <2>2. QED BY <1>5, <2>1 DEF TypeInv, WriteStep, chain, handoffScript, reports
<1>6. CASE WriteThrows
      BY <1>6, NoneTyped DEF TypeInv, WriteThrows, Ends, chain, handoffScript, reports
<1>7. CASE Complete
      BY <1>7, NoneTyped DEF TypeInv, Complete, Publish, Ends, chain, handoffScript, reports
<1>8. CASE Interrupted
      BY <1>8, NoneTyped DEF TypeInv, Interrupted, Ends, chain, handoffScript, reports
<1>9. QED BY <1>1, <1>2, <1>3, <1>4, <1>5, <1>6, <1>7, <1>8 DEF ScriptStep

LEMMA TypeChain ==
    ASSUME TypeInv, Mine \/ PendingLost
    PROVE  TypeInv'
<1>1. CASE MineDeployment
  <2>1. PICK tx : tx = Head(mempool)
        OBVIOUS
  <2>2. tx \in Tx /\ mempool' \in Seq(Tx)
        BY <1>1, <2>1, Mined DEF MineDeployment, TypeInv
  <2>3. tx.key \in Keys /\ deployed' = [deployed EXCEPT ![tx.key] = @ + 1] /\ facts' = facts
        BY <1>1, <2>1, <2>2 DEF MineDeployment, Tx, WriteTx
  <2>4. deployed' \in [Keys -> Nat]
        BY <2>3 DEF TypeInv
  <2>5. QED BY <1>1, <2>2, <2>3, <2>4 DEF TypeInv, MineDeployment, script, reports, handoffScript
<1>2. CASE MineWrite
  <2>1. PICK tx : tx = Head(mempool)
        OBVIOUS
  <2>2. tx \in Tx /\ tx.do = "write" /\ mempool' \in Seq(Tx)
        BY <1>2, <2>1, Mined DEF MineWrite, TypeInv
  <2>3. tx \in WriteTx
        BY <2>2 DEF Tx
  <2>4. facts' = Stored(tx)
        BY <1>2, <2>1 DEF MineWrite
  <2>5. facts' \subseteq Fact
        BY <2>3, <2>4, StoredTyped DEF TypeInv
  <2>6. handoffTx' \in {"none", "sent", "mined", "reverted"}
        BY <1>2 DEF MineWrite, TypeInv
  <2>7. QED BY <1>2, <2>2, <2>5, <2>6 DEF TypeInv, MineWrite, script, reports
<1>3. CASE PendingLost
      BY <1>3 DEF TypeInv, PendingLost, chain, script, reports, handoffScript
<1>4. QED BY <1>1, <1>2, <1>3 DEF Mine

\* What governance stores.
LEMMA GovernFacts ==
    ASSUME TypeInv, Govern
    PROVE  \/ facts' = facts
           \/ \E known \in {report, final}, name \in SourceNames :
                /\ known["receiver"] # 0
                /\ facts' = facts \union {Source(known["receiver"], name)}
           \/ \E known \in {report, final}, name \in SourceNames :
                facts' = facts \ {Source(known["receiver"], name)} /\ revoked'
<1>1. CASE \E known \in {report, final}, name \in SourceNames, approved \in BOOLEAN :
             /\ known["receiver"] # 0
             /\ facts' = IF approved THEN facts \union {Source(known["receiver"], name)}
                                     ELSE facts \ {Source(known["receiver"], name)}
             /\ revoked' = (revoked \/ ~approved)
      BY <1>1
<1>2. CASE facts' = facts
      BY <1>2
<1>3. QED BY <1>1, <1>2 DEF Govern, SetExecutor, TransferOwnership, SetApprovedSource

LEMMA TypeHandoff ==
    ASSUME TypeInv, HandoffStep \/ Govern
    PROVE  TypeInv'
<1>1. CASE HandoffStarts
      BY <1>1 DEF TypeInv, HandoffStarts, chain, script, reports
<1>2. CASE HandoffSends
  <2>1. PICK tx : tx = Execution(Executions[handoff])
        OBVIOUS
  <2>2. tx \in Tx
        BY <1>2, <2>1, ExecutionTyped DEF HandoffSends, Tx
  <2>3. Send(tx)
        BY <1>2, <2>1 DEF HandoffSends
  <2>4. mempool' \in Seq(Tx)
        BY <2>2, <2>3, Sent DEF TypeInv
  <2>5. QED BY <1>2, <2>4 DEF TypeInv, HandoffSends, chain, script, reports
<1>3. CASE HandoffReceipt
  <2>1. handoff' \in Nat
        BY <1>3 DEF TypeInv, HandoffReceipt
  <2>2. QED BY <1>3, <2>1 DEF TypeInv, HandoffReceipt, chain, script, reports
<1>4. CASE HandoffStops
      BY <1>4 DEF TypeInv, HandoffStops, chain, script, reports
<1>5. CASE Govern
  <2>1. UNCHANGED <<deployed, mempool, script, handoffScript>>
        BY <1>5 DEF Govern
  <2>2. report["receiver"] \in Nat /\ final["receiver"] \in Nat
        BY SinkKeys DEF TypeInv
  <2>3. facts' \subseteq Fact
        BY <1>5, <2>2, GovernFacts, SourceFact DEF TypeInv
  <2>4. QED BY <2>1, <2>3 DEF TypeInv, script, reports, handoffScript
<1>6. QED BY <1>1, <1>2, <1>3, <1>4, <1>5 DEF HandoffStep

LEMMA TypeInvariant == Init /\ [][Next]_vars => []TypeInv
<1>1. Init => TypeInv
  <2>1. <<>> \in Seq(Tx)
        OBVIOUS
  <2> SUFFICES ASSUME Init PROVE TypeInv
      OBVIOUS
  <2>2. deployed \in [Keys -> Nat] /\ system \in [Keys -> Nat]
        /\ resume \in [Keys -> Nat] /\ report \in [Keys -> Nat] /\ final \in [Keys -> Nat]
        BY NoneTyped DEF Init
  <2>3. mempool \in Seq(Tx) /\ facts \subseteq Fact
        BY <2>1 DEF Init
  <2>4. step \in Nat \ {0} /\ awaiting \in Nat /\ handoff \in Nat
        /\ phase \in {"idle", "running", "failed", "complete"}
        BY DEF Init
  <2>5. handoffTx \in {"none", "sent", "mined", "reverted"}
        BY Zenon DEF Init
  <2>6. QED BY <2>2, <2>3, <2>4, <2>5, Zenon DEF TypeInv
<1>2. TypeInv /\ [Next]_vars => TypeInv'
  <2>1. TypeInv /\ UNCHANGED vars => TypeInv'
        BY DEF TypeInv, vars, chain, script, reports, handoffScript
  <2>2. QED BY <2>1, TypeScript, TypeChain, TypeHandoff DEF Next
<1>3. QED BY <1>1, <1>2, PTL
-----------------------------------------------------------------------------
(* A receiver keeps a source.                                               *)

\* The sources that the handoff's configuration approves and does not revoke, and the
\* contracts that have one of them.
LastingSources == {Sources[i].source : i \in {j \in DOMAIN Sources : Lasting(j)}}
Replaced(of) == \E f \in facts : f.of = of /\ f.slot \in LastingSources
Target == <<"receiver", final["receiver"]>>

\* The handoff's transaction is the last one sent; of its approvals those seen mined last.
HandoffInv ==
    /\ handoff # 0 => phase # "running"
    /\ handoffTx # "none" => handoff \in DOMAIN Executions
    /\ handoffTx = "sent" =>
         mempool = <<>> \/ mempool[Len(mempool)] = Execution(Executions[handoff])

SourceInv ==
    Orderly /\ ~revoked =>
      /\ \A i \in DOMAIN Sources :
           Lasting(i) /\ (i < handoff \/ (i = handoff /\ handoffTx = "mined")) => Replaced(Target)
      /\ \A tx \in ToSet(mempool) :
           tx.do = "write" /\ tx.other = "revoke" => tx.fact.slot \in Withdrawn /\ Replaced(tx.fact.of)

LEMMA LastingNames ==
    /\ LastingSources \subseteq SourceNames /\ LastingSources \intersect Withdrawn = {}
    /\ \A i \in DOMAIN Sources : Lasting(i) => Sources[i].source \in LastingSources
BY RouterIsNoSource DEF LastingSources, Lasting

\* A slot that is stored stays, with its old or a new content, unless it is revoked.
LEMMA StoredKeeps ==
    ASSUME NEW tx, NEW f \in facts, ~(tx.other = "revoke" /\ f = tx.fact)
    PROVE  \E g \in Stored(tx) : g.of = f.of /\ g.slot = f.slot
<1>1. CASE f \in Stored(tx)
      BY <1>1
<1>2. CASE f \notin Stored(tx)
  <2>1. tx.fact \in Stored(tx) /\ f \in InSlot(tx.fact)
        BY <1>2 DEF Stored
  <2>2. QED BY <2>1 DEF InSlot
<1>3. QED BY <1>1, <1>2

\* What the chain mines does not take the last source of a receiver.
LEMMA MineKeeps ==
    ASSUME TypeInv, SourceInv, Orderly, ~revoked, MineWrite, NEW of
    PROVE  /\ Replaced(of) => Replaced(of)'
           /\ (\E f \in facts : f.of = of /\ f.slot \in SourceNames)
              => \E f \in facts' : f.of = of /\ f.slot \in SourceNames
<1>1. PICK tx : tx = Head(mempool)
      OBVIOUS
<1>2. tx \in ToSet(mempool) /\ tx.do = "write"
      BY <1>1, Mined DEF MineWrite, TypeInv
<1>3. facts' = Stored(tx)
      BY <1>1 DEF MineWrite
<1>4. tx.other = "revoke" => tx.fact.slot \in Withdrawn /\ Replaced(tx.fact.of)
      BY <1>2 DEF SourceInv
<1>5. ASSUME NEW f \in facts, f.slot \in LastingSources
      PROVE  \E g \in facts' : g.of = f.of /\ g.slot = f.slot
      BY <1>3, <1>4, <1>5, StoredKeeps, LastingNames
<1>6. ASSUME NEW f \in facts, f.slot \in SourceNames
      PROVE  \E g \in facts' : g.of = f.of /\ g.slot \in SourceNames
  <2>1. CASE tx.other = "revoke" /\ f = tx.fact
    <3>1. PICK g \in facts : g.of = f.of /\ g.slot \in LastingSources
          BY <1>4, <2>1 DEF Replaced
    <3>2. PICK h \in facts' : h.of = g.of /\ h.slot = g.slot
          BY <1>5, <3>1
    <3>3. QED BY <3>1, <3>2, LastingNames
  <2>2. CASE ~(tx.other = "revoke" /\ f = tx.fact)
    <3>1. PICK g \in facts' : g.of = f.of /\ g.slot = f.slot
          BY <1>3, <2>2, StoredKeeps
    <3>2. QED BY <1>6, <3>1
  <2>3. QED BY <2>1, <2>2
<1>7. QED BY <1>5, <1>6 DEF Replaced

\* The facts change when a write is mined, and when governance acts.
LEMMA OnlyMineStores ==
    ASSUME [Next]_vars, ~MineWrite, ~Govern
    PROVE  facts' = facts
BY DEF Next, vars, chain, Run, ScriptStep, AttachResumed, SendDeployment, Deployed, WriteStep,
       WriteThrows, Complete, Interrupted, Mine, MineDeployment, PendingLost, HandoffStep,
       HandoffStarts, HandoffSends, HandoffReceipt, HandoffStops, reports

\* No step takes the last source of a receiver.
LEMMA SourcesKept ==
    ASSUME TypeInv, SourceInv, [Next]_vars, Orderly, ~revoked, ~revoked', NEW of
    PROVE  /\ Replaced(of) => Replaced(of)'
           /\ (\E f \in facts : f.of = of /\ f.slot \in SourceNames)
              => \E f \in facts' : f.of = of /\ f.slot \in SourceNames
<1>1. CASE MineWrite
      BY <1>1, MineKeeps
<1>2. CASE ~MineWrite
  <2>1. facts \subseteq facts'
        BY <1>2, OnlyMineStores, GovernFacts
  <2>2. QED BY <2>1 DEF Replaced
<1>3. QED BY <1>1, <1>2

\* What a step may add to the pending transactions.
LEMMA PendingGrows ==
    ASSUME TypeInv, [Next]_vars, NEW tx \in ToSet(mempool'), tx \notin ToSet(mempool)
    PROVE  \/ tx.do = "deploy"
           \/ WriteStep /\ tx = WriteSent
           \/ HandoffSends /\ tx = Execution(Executions[handoff])
<1>1. mempool' # mempool
      BY DEF ToSet
<1>2. SendDeployment \/ WriteStep \/ Mine \/ PendingLost \/ HandoffSends
      BY <1>1 DEF Next, vars, Run, ScriptStep, AttachResumed, Deployed, WriteThrows, Complete,
         Interrupted, HandoffStep, HandoffStarts, HandoffReceipt, HandoffStops, Govern, reports
<1>3. CASE SendDeployment
  <2>1. [do |-> "deploy", key |-> Here.key] \in Tx
        BY <1>3, DeployHere DEF SendDeployment, Tx, reports
  <2>2. tx = [do |-> "deploy", key |-> Here.key]
        BY <1>3, <2>1, Sent DEF SendDeployment, TypeInv, reports
  <2>3. QED BY <2>2
<1>4. CASE WriteStep
  <2>1. WriteSent \in Tx
        BY <1>4, WriteSentTyped DEF WriteStep, Tx, reports
  <2>2. Send(WriteSent)
        BY <1>1, <1>4 DEF WriteStep, Written, WriteSent, reports
  <2>3. QED BY <1>4, <2>1, <2>2, Sent DEF TypeInv
<1>5. CASE Mine
      BY <1>5, Mined DEF Mine, MineDeployment, MineWrite, TypeInv
<1>6. CASE PendingLost
      BY <1>6 DEF PendingLost, ToSet
<1>7. CASE HandoffSends
  <2>1. PICK e : e = Execution(Executions[handoff])
        OBVIOUS
  <2>2. e \in Tx
        BY <1>7, <2>1, ExecutionTyped DEF HandoffSends, Tx
  <2>3. Send(e)
        BY <1>7, <2>1 DEF HandoffSends
  <2>4. QED BY <1>7, <2>1, <2>2, <2>3, Sent DEF TypeInv
<1>8. QED BY <1>2, <1>3, <1>4, <1>5, <1>6, <1>7

\* The last transaction of a sequence stays the last when the first is mined.
LEMMA LastStays ==
    ASSUME NEW q \in Seq(Tx), Tail(q) # <<>>, q # <<>>
    PROVE  Tail(q)[Len(Tail(q))] = q[Len(q)]
<1>1. Len(q) \in Nat \ {0} /\ Len(Tail(q)) = Len(q) - 1
      BY SMT
<1>2. Len(Tail(q)) # 0
  <2>1. Tail(q) \in Seq(Tx)
        BY SMT
  <2>2. \A t \in Seq(Tx) : Len(t) = 0 => t = <<>>
        OBVIOUS
  <2>3. QED BY <2>1, <2>2
<1>3. \A i \in 1 .. Len(q) - 1 : Tail(q)[i] = q[i + 1]
      BY SMT
<1>4. QED BY <1>1, <1>2, <1>3

LEMMA OnlyLeft ==
    ASSUME NEW q \in Seq(Tx), q # <<>>, Tail(q) = <<>>
    PROVE  Head(q) = q[Len(q)]
<1>1. Len(q) \in Nat \ {0} /\ Len(Tail(q)) = Len(q) - 1 /\ Head(q) = q[1]
      BY SMT
<1>2. Len(Tail(q)) = 0
  <2>1. Len(<<>>) = 0
        OBVIOUS
  <2>2. QED BY <2>1, Zenon
<1>3. Len(q) = 1
      BY <1>1, <1>2
<1>4. QED BY <1>1, <1>3

\* The steps of the handoff's own state, and the others.
LEMMA HandoffKept ==
    ASSUME [Next]_vars, ~HandoffStep, ~MineWrite
    PROVE  handoff' = handoff /\ handoffTx' = handoffTx
BY DEF Next, vars, handoffScript, Run, ScriptStep, AttachResumed, SendDeployment, Deployed,
       WriteStep, WriteThrows, Complete, Interrupted, Mine, MineDeployment, PendingLost, Govern,
       reports

LEMMA IdleKeeps ==
    ASSUME [Next]_vars, phase # "running", handoff # 0 \/ HandoffStep
    PROVE  phase' = phase /\ final' = final
BY DEF Next, vars, script, reports, Run, ScriptStep, AttachResumed, SendDeployment, Deployed,
       WriteStep, WriteThrows, Complete, Interrupted, Mine, MineDeployment, MineWrite, PendingLost,
       HandoffStep, HandoffStarts, HandoffSends, HandoffReceipt, HandoffStops, Govern, AtStep

LEMMA HandoffStepInv ==
    ASSUME TypeInv, HandoffInv, [Next]_vars
    PROVE  HandoffInv'
<1>1. CASE HandoffStarts
  <2>1. handoffTx = "none"
    <3>1. handoff \notin DOMAIN Executions
          BY <1>1, ExecutionKinds DEF HandoffStarts
    <3>2. QED BY <3>1 DEF HandoffInv
  <2>2. phase' # "running" /\ handoffTx' = "none"
        BY <1>1, <2>1 DEF HandoffStarts, script
  <2>3. QED BY <2>2 DEF HandoffInv
<1>2. CASE HandoffSends
  <2>1. handoff \in DOMAIN Executions /\ handoff' = handoff /\ handoff # 0 /\ phase' = phase
        BY <1>2, ExecutionKinds DEF HandoffSends, script
  <2>2. PICK tx : tx = Execution(Executions[handoff])
        OBVIOUS
  <2>3. tx \in Tx /\ mempool' = Append(mempool, tx)
        BY <1>2, <2>2, ExecutionTyped DEF HandoffSends, Send, Tx
  <2>4. mempool'[Len(mempool')] = tx
        BY <2>3 DEF TypeInv
  <2>5. tx = Execution(Executions[handoff])'
        BY <1>2, <2>1, <2>2 DEF HandoffSends, Execution, Source, script, reports
  <2>6. QED BY <2>1, <2>4, <2>5 DEF HandoffInv
<1>3. CASE HandoffReceipt
  <2>1. phase' = phase /\ handoffTx' = "none" /\ handoff # 0
        BY <1>3, ExecutionKinds DEF HandoffReceipt, HandoffInv, script
  <2>2. QED BY <2>1 DEF HandoffInv
<1>4. CASE HandoffStops
      BY <1>4 DEF HandoffStops, HandoffInv
<1>5. CASE MineWrite
  <2>1. /\ UNCHANGED <<handoff, phase, final>> /\ mempool' = Tail(mempool)
        /\ mempool # <<>> /\ mempool \in Seq(Tx)
        BY <1>5 DEF MineWrite, script, reports, TypeInv
  <2>2. handoffTx' # "none" => handoffTx # "none"
        BY <1>5 DEF MineWrite
  <2>3. handoffTx' = "sent" => handoffTx = "sent"
        BY <1>5 DEF MineWrite
  <2>4. Execution(Executions[handoff])' = Execution(Executions[handoff])
        BY <2>1 DEF Execution, Source
  <2>5. mempool' # <<>> => mempool'[Len(mempool')] = mempool[Len(mempool)]
        BY <2>1, LastStays
  <2>6. QED BY <2>1, <2>2, <2>3, <2>4, <2>5 DEF HandoffInv
<1>6. CASE ~HandoffStep /\ ~MineWrite
  <2>1. handoff' = handoff /\ handoffTx' = handoffTx
        BY <1>6, HandoffKept
  <2>2. CASE handoff = 0
    <3>1. handoffTx = "none"
          BY <2>2, ExecutionKinds DEF HandoffInv
    <3>2. QED BY <2>1, <2>2, <3>1 DEF HandoffInv
  <2>3. CASE handoff # 0
    <3>1. phase # "running"
          BY <2>3 DEF HandoffInv
    <3>2. phase' = phase /\ final' = final
          BY <2>3, <3>1, IdleKeeps
    <3>3. mempool' = mempool \/ mempool' = <<>> \/ (mempool # <<>> /\ mempool' = Tail(mempool))
          BY <1>6, <3>1 DEF Next, vars, Run, ScriptStep, AttachResumed, SendDeployment, Deployed,
             WriteStep, WriteThrows, Complete, Interrupted, Mine, MineDeployment, PendingLost,
             Govern, AtStep, reports
    <3>4. mempool' # <<>> => mempool # <<>> /\ mempool'[Len(mempool')] = mempool[Len(mempool)]
          BY <3>3, LastStays DEF TypeInv
    <3>5. Execution(Executions[handoff])' = Execution(Executions[handoff])
          BY <2>1, <3>2 DEF Execution, Source
    <3>6. QED BY <2>1, <3>1, <3>2, <3>4, <3>5 DEF HandoffInv
  <2>4. QED BY <2>2, <2>3
<1>7. QED BY <1>1, <1>2, <1>3, <1>4, <1>5, <1>6 DEF HandoffStep

\* The approval of a lasting source that is mined and not refused is stored.
LEMMA ApprovalStored ==
    ASSUME TypeInv, HandoffInv, MineWrite, handoffTx # "mined", handoffTx' = "mined",
           handoff \in DOMAIN Sources, Lasting(handoff)
    PROVE  Replaced(Target)'
<1>1. handoffTx = "sent" /\ Tail(mempool) = <<>> /\ ~Refused(Head(mempool)) /\ mempool # <<>>
      BY DEF MineWrite
<1>2. PICK tx : tx = Head(mempool)
      OBVIOUS
<1>3. tx = Execution(Executions[handoff]) /\ handoff \in DOMAIN Executions
  <2>1. tx = mempool[Len(mempool)]
        BY <1>1, <1>2, OnlyLeft DEF TypeInv
  <2>2. QED BY <1>1, <2>1 DEF HandoffInv
<1>4. Executions[handoff] = Sources[handoff] /\ Sources[handoff].approved
      BY <1>3, ExecutionKinds DEF Lasting
<1>5. tx.other = "overwrite" /\ tx.fact = Source(final["receiver"], Sources[handoff].source)
      BY <1>3, <1>4 DEF Execution
<1>6. facts' = Stored(tx) /\ ~Refused(tx) /\ final' = final
      BY <1>1, <1>2 DEF MineWrite, script, reports
<1>7. tx.fact \in facts'
      BY <1>5, <1>6 DEF Stored
<1>8. final["receiver"] \in Nat
      BY SinkKeys DEF TypeInv
<1>9. tx.fact.of = Target /\ tx.fact.slot \in LastingSources
      BY <1>5, <1>8, LastingNames, SourceFact, RouterIsNoSource DEF Target
<1>10. Target' = Target
      BY <1>6 DEF Target
<1>11. QED BY <1>7, <1>9, <1>10 DEF Replaced

LEMMA SourceStep ==
    ASSUME TypeInv, HandoffInv, SourceInv, [Next]_vars
    PROVE  SourceInv'
<1> SUFFICES ASSUME Orderly, ~revoked'
             PROVE  /\ \A i \in DOMAIN Sources :
                         Lasting(i) /\ (i < handoff' \/ (i = handoff' /\ handoffTx' = "mined"))
                         => Replaced(Target)'
                    /\ \A tx \in ToSet(mempool') :
                         tx.do = "write" /\ tx.other = "revoke"
                         => tx.fact.slot \in Withdrawn /\ Replaced(tx.fact.of)'
    BY DEF SourceInv, ToSet
<1>1. ~revoked
      BY DEF Next, vars, faults, Run, ScriptStep, AttachResumed, SendDeployment, Deployed,
         WriteStep, WriteThrows, Complete, Interrupted, Mine, MineDeployment, MineWrite,
         PendingLost, HandoffStep, HandoffStarts, HandoffSends, HandoffReceipt, HandoffStops,
         Govern, SetExecutor, TransferOwnership, SetApprovedSource, reports
<1>2. ASSUME NEW i \in DOMAIN Sources, Lasting(i),
             i < handoff' \/ (i = handoff' /\ handoffTx' = "mined")
      PROVE  Replaced(Target)'
  <2>1. i \in Nat \ {0} /\ handoff \in Nat
        BY ExecutionKinds DEF TypeInv
  <2>2. CASE i < handoff \/ (i = handoff /\ handoffTx = "mined")
    <3>1. Replaced(Target)
          BY <1>1, <1>2, <2>2 DEF SourceInv
    <3>2. handoff # 0
          BY <2>1, <2>2
    <3>3. Target' = Target
          BY <3>2, IdleKeeps DEF HandoffInv, Target
    <3>4. PICK of : of = Target
          OBVIOUS
    <3>5. Replaced(of)'
          BY <1>1, <3>1, <3>4, SourcesKept
    <3>6. QED BY <3>3, <3>4, <3>5 DEF Replaced
  <2>3. CASE ~(i < handoff \/ (i = handoff /\ handoffTx = "mined"))
    <3>1. ~HandoffStep
      <4>1. ~HandoffStarts
        <5>1. handoff = 0 => handoffTx = "none"
              BY ExecutionKinds DEF HandoffInv
        <5>2. QED BY <1>2, <2>1, <5>1 DEF HandoffStarts
      <4>2. ~HandoffSends
            BY <1>2, <2>3 DEF HandoffSends
      <4>3. ~HandoffReceipt
            BY <1>2, <2>1, <2>3 DEF HandoffReceipt
      <4>4. ~HandoffStops
            BY <1>2, <2>1 DEF HandoffStops
      <4>5. QED BY <4>1, <4>2, <4>3, <4>4 DEF HandoffStep
    <3>2. CASE MineWrite
      <4>1. handoff' = handoff
            BY <3>2 DEF MineWrite
      <4>2. i = handoff /\ handoffTx # "mined" /\ handoffTx' = "mined"
            BY <1>2, <2>3, <4>1
      <4>3. QED BY <1>2, <3>2, <4>2, ApprovalStored
    <3>3. CASE ~MineWrite
          BY <1>2, <2>3, <3>1, <3>3, HandoffKept
    <3>4. QED BY <3>2, <3>3
  <2>4. QED BY <2>2, <2>3
<1>3. ASSUME NEW tx \in ToSet(mempool'), tx.do = "write", tx.other = "revoke"
      PROVE  tx.fact.slot \in Withdrawn /\ Replaced(tx.fact.of)'
  <2>1. tx.fact.slot \in Withdrawn /\ Replaced(tx.fact.of)
    <3>1. CASE tx \in ToSet(mempool)
          BY <1>1, <1>3, <3>1 DEF SourceInv
    <3>2. CASE tx \notin ToSet(mempool)
      <4>1. ~(WriteStep /\ tx = WriteSent)
            BY <1>3, WriteHere DEF WriteStep, WriteSent, Others, reports
      <4>2. HandoffSends /\ tx = Execution(Executions[handoff])
            BY <1>3, <3>2, <4>1, PendingGrows
      <4>3. handoff \in DOMAIN Executions /\ ~Executions[handoff].approved
            /\ tx.fact = Source(final["receiver"], Executions[handoff].source)
            BY <1>3, <4>2 DEF HandoffSends, Execution
      <4>4. final["receiver"] \in Nat
            BY SinkKeys DEF TypeInv
      <4>5. tx.fact.of = Target /\ tx.fact.slot = Executions[handoff].source
            BY <4>3, <4>4, SourceFact, ExecutionEntry DEF Target
      <4>6. Executions[handoff].source \in Withdrawn
            /\ \E j \in DOMAIN Sources : j < handoff /\ Lasting(j)
        <5>1. CASE handoff \in DOMAIN Sources /\ Executions[handoff] = Sources[handoff]
              BY <4>3, <5>1, ExecutionKinds DEF Withdrawn, Orderly
        <5>2. CASE handoff = Len(Sources) + 1 /\ Revokes /\ Executions[handoff].source = Bootstrap
              BY <5>2, ExecutionKinds DEF Withdrawn, Orderly
        <5>3. QED BY <4>3, <5>1, <5>2, ExecutionKinds
      <4>7. Replaced(Target)
            BY <1>1, <4>6 DEF SourceInv
      <4>8. QED BY <4>5, <4>6, <4>7
    <3>3. QED BY <3>1, <3>2
  <2>2. PICK of : of = tx.fact.of
        OBVIOUS
  <2>3. Replaced(of)'
        BY <1>1, <2>1, <2>2, SourcesKept
  <2>4. QED BY <2>1, <2>2, <2>3
<1>4. QED BY <1>2, <1>3

\* A receiver that has an approved source always has one, for every orderly
\* configuration, the bootstrap source in it or not: the handoff sees the approval of a
\* lasting source mined before it sends a revocation, and no killed or repeated handoff,
\* no repeated deployment, lost transaction or change of authority undoes that
\* (slot-source-handoff.js:52-94), as long as governance itself revokes no source.
THEOREM DeploymentKeepsASource == Spec => AlwaysASource
<1>1. Init => HandoffInv /\ SourceInv
  <2> SUFFICES ASSUME Init PROVE HandoffInv /\ SourceInv
      OBVIOUS
  <2>1. HandoffInv
        BY DEF Init, HandoffInv
  <2>2. SourceInv
        BY ExecutionKinds DEF Init, SourceInv, ToSet
  <2>3. QED BY <2>1, <2>2
<1>2. TypeInv /\ HandoffInv /\ SourceInv /\ [Next]_vars => HandoffInv' /\ SourceInv'
      BY SourceStep, HandoffStepInv
<1>3. TypeInv /\ SourceInv /\ [Next]_vars
      => [Orderly /\ ~revoked' =>
            \A n \in 1..deployed["receiver"] : HasSource(n) => HasSource(n)']_vars
  <2> SUFFICES ASSUME TypeInv, SourceInv, [Next]_vars, Orderly, ~revoked',
                      NEW n \in 1..deployed["receiver"], HasSource(n)
               PROVE  HasSource(n)'
      OBVIOUS
  <2>1. ~revoked
        BY DEF Next, vars, faults, Run, ScriptStep, AttachResumed, SendDeployment, Deployed,
           WriteStep, WriteThrows, Complete, Interrupted, Mine, MineDeployment, MineWrite,
           PendingLost, HandoffStep, HandoffStarts, HandoffSends, HandoffReceipt, HandoffStops,
           Govern, SetExecutor, TransferOwnership, SetApprovedSource, reports
  <2>2. PICK of : of = <<"receiver", n>>
        OBVIOUS
  <2>3. \E f \in facts' : f.of = of /\ f.slot \in SourceNames
        BY <2>1, <2>2, SourcesKept DEF HasSource
  <2>4. QED BY <2>2, <2>3 DEF HasSource
<1>4. QED BY <1>1, <1>2, <1>3, TypeInvariant, PTL DEF Spec, AlwaysASource
-----------------------------------------------------------------------------
(* No contract is used before a checkpoint lists it.                        *)

Known(fact) == {fact.of} \union Contracts(fact.to) \subseteq recorded

RecordInv ==
    /\ Contracts(system) \subseteq recorded
    /\ phase = "running" =>
         \A j \in DOMAIN Steps : j < step /\ Steps[j].do = "deploy" => system[Steps[j].key] # 0
    /\ phase = "complete" => \A k \in Keys : system[k] # 0
    /\ Contracts(report) \subseteq recorded /\ Contracts(final) \subseteq recorded
    /\ (\A k \in Keys : final[k] # 0) \/ (final = None /\ handoff = 0)
    /\ \A f \in facts : Known(f)
    /\ \A tx \in ToSet(mempool) : tx.do = "write" => Known(tx.fact)

LEMMA Listed ==
    ASSUME TypeInv, RecordInv, NEW k \in Keys, system[k] # 0
    PROVE  <<k, system[k]>> \in recorded
BY DEF RecordInv, TypeInv, Contracts

\* A write step uses contracts the script has attached.
LEMMA StepKnown ==
    ASSUME TypeInv, RecordInv, AtStep("write")
    PROVE  Known(FactOf(Here, system))
<1>1. /\ Here.of \in Keys /\ Here.to \in SUBSET Keys /\ phase = "running"
      /\ step \in DOMAIN Steps /\ Here = Steps[step] /\ Here.do = "write"
      BY WriteHere, HereTyped DEF AtStep
<1>2. ASSUME NEW k \in Uses(Here)
      PROVE  system[k] # 0
  <2>1. PICK j \in 1 .. step - 1 : Steps[j] = Deploy(k)
        BY <1>1, <1>2, StepsOrdered DEF Ordered
  <2>2. j \in DOMAIN Steps /\ j < step
        BY <1>1, <2>1, StepsOrdered DEF TypeInv
  <2>3. QED BY <1>1, <2>1, <2>2 DEF RecordInv, Deploy
<1>3. <<Here.of, system[Here.of]>> \in recorded
      BY <1>1, <1>2, Listed DEF Uses
<1>4. Contracts([k \in Here.to |-> system[k]]) \subseteq Contracts(system)
      BY <1>1 DEF Contracts, TypeInv
<1>5. QED BY <1>3, <1>4 DEF Known, FactOf, RecordInv

\* The handoff and governance use the receiver of a report.
LEMMA SourceKnown ==
    ASSUME TypeInv, RecordInv, NEW known \in {report, final}, known["receiver"] # 0, NEW name
    PROVE  Known(Source(known["receiver"], name))
<1>1. <<"receiver", known["receiver"]>> \in Contracts(known)
      BY SinkKeys DEF Contracts, TypeInv
<1>2. Contracts([k \in {} |-> 0]) = {}
      BY DEF Contracts
<1>3. Contracts(known) \subseteq recorded
      BY DEF RecordInv
<1>4. QED BY <1>1, <1>2, <1>3 DEF Known, Source

LEMMA StoredKnown ==
    ASSUME NEW tx, Known(tx.fact), \A f \in facts : Known(f)
    PROVE  \A f \in Stored(tx) : Known(f)
BY DEF Stored

LEMMA RecordedGrows ==
    ASSUME [Next]_vars
    PROVE  recorded \subseteq recorded'
BY DEF Next, vars, script, reports, Run, ScriptStep, AttachResumed, SendDeployment, Deployed,
   WriteStep,
       WriteThrows, Complete, Interrupted, Mine, MineDeployment, MineWrite, PendingLost,
       HandoffStep, HandoffStarts, HandoffSends,
       HandoffReceipt, HandoffStops, Govern, SetExecutor, TransferOwnership, SetApprovedSource,
       Attach, Publish

LEMMA RecordFacts ==
    ASSUME TypeInv, RecordInv, [Next]_vars
    PROVE  /\ \A f \in facts' : Known(f)'
           /\ \A tx \in ToSet(mempool') : tx.do = "write" => Known(tx.fact)'
<1>1. recorded \subseteq recorded'
      BY RecordedGrows
<1>2. \A f : Known(f) => {f.of} \union Contracts(f.to) \subseteq recorded'
      BY <1>1 DEF Known
<1>3. \A f \in facts' : Known(f)
  <2>1. CASE MineWrite
    <3>1. PICK tx : tx = Head(mempool)
          OBVIOUS
    <3>2. tx \in ToSet(mempool) /\ tx.do = "write"
          BY <2>1, <3>1, Mined DEF MineWrite, TypeInv
    <3>3. facts' = Stored(tx)
          BY <2>1, <3>1 DEF MineWrite
    <3>4. Known(tx.fact) /\ \A f \in facts : Known(f)
          BY <3>2 DEF RecordInv
    <3>5. QED BY <3>3, <3>4, StoredKnown
  <2>2. CASE Govern
    <3>1. \A f \in facts : Known(f)
          BY DEF RecordInv
    <3>2. ASSUME NEW known \in {report, final}, NEW name, known["receiver"] # 0,
                 facts' = facts \union {Source(known["receiver"], name)}
          PROVE  \A f \in facts' : Known(f)
          BY <3>1, <3>2, SourceKnown
    <3>3. QED BY <2>2, <3>1, <3>2, GovernFacts
  <2>3. CASE ~MineWrite /\ ~Govern
        BY <2>3, OnlyMineStores DEF RecordInv
  <2>4. QED BY <2>1, <2>2, <2>3
<1>4. ASSUME NEW tx \in ToSet(mempool'), tx.do = "write"
      PROVE  Known(tx.fact)
  <2>1. CASE tx \in ToSet(mempool)
        BY <1>4, <2>1 DEF RecordInv
  <2>2. CASE tx \notin ToSet(mempool)
    <3>1. CASE WriteStep /\ tx = WriteSent
      <4>1. tx.fact = FactOf(Here, system) /\ AtStep("write")
            BY <3>1 DEF WriteStep, WriteSent, reports
      <4>2. QED BY <4>1, StepKnown
    <3>2. CASE HandoffSends /\ tx = Execution(Executions[handoff])
      <4>1. handoff # 0 /\ tx.fact = Source(final["receiver"], Executions[handoff].source)
            BY <3>2, ExecutionKinds DEF HandoffSends, Execution
      <4>2. final["receiver"] # 0
            BY <4>1, SinkKeys DEF RecordInv
      <4>3. QED BY <4>1, <4>2, SourceKnown
    <3>3. QED BY <1>4, <2>2, <3>1, <3>2, PendingGrows
  <2>3. QED BY <2>1, <2>2
<1>5. QED BY <1>2, <1>3, <1>4 DEF Known, Contracts

\* What has been attached stays attached when another contract is.
LEMMA AttachKeeps ==
    ASSUME TypeInv, RecordInv, AtStep("deploy"), NEW n \in Nat \ {0}, Attach(Here.key, n)
    PROVE  /\ Contracts(system)' \subseteq recorded'
           /\ \A j \in DOMAIN Steps : j < step' /\ Steps[j].do = "deploy" => system'[Steps[j].key] # 0
<1>1. /\ Here.key \in Keys /\ phase = "running"
      /\ step \in DOMAIN Steps /\ Here = Steps[step]
      BY DeployHere, HereTyped DEF AtStep
<1>2. \A j \in DOMAIN Steps : j \in Nat /\ (Steps[j].do = "deploy" => Steps[j].key \in Keys)
  <2>1. \A s \in Step : s.do = "deploy" => s.key \in Keys
        BY DEF Step
  <2>2. QED BY <2>1, StepsOrdered
<1>3. system' = [system EXCEPT ![Here.key] = n] /\ step' = step + 1
      /\ recorded' = recorded \union Contracts(system')
      BY DEF Attach, Publish
<1>4. ASSUME NEW j \in DOMAIN Steps, j < step', Steps[j].do = "deploy"
      PROVE  system'[Steps[j].key] # 0
  <2>1. CASE Steps[j].key = Here.key
        BY <1>1, <1>3, <2>1 DEF TypeInv
  <2>2. CASE Steps[j].key # Here.key
    <3>1. j < step
          BY <1>1, <1>2, <1>3, <1>4, <2>2 DEF TypeInv
    <3>2. system[Steps[j].key] # 0
          BY <1>1, <1>4, <3>1 DEF RecordInv
    <3>3. QED BY <1>2, <1>3, <1>4, <2>2, <3>2 DEF TypeInv
  <2>3. QED BY <2>1, <2>2
<1>5. Contracts(system)' \subseteq recorded'
      BY <1>3 DEF Contracts
<1>6. QED BY <1>4, <1>5

\* A script at its end has attached every contract.
LEMMA AllAttached ==
    ASSUME TypeInv, RecordInv, phase = "running", step > Len(Steps), NEW k \in Keys
    PROVE  system[k] # 0
<1>1. PICK j \in DOMAIN Steps : Steps[j] = Deploy(k)
      BY StepsOrdered DEF Deploys
<1>2. j < step
      BY StepsOrdered DEF TypeInv
<1>3. QED BY <1>1, <1>2 DEF RecordInv, Deploy

LEMMA NothingAttached == Contracts(None) = {}
BY DEF Contracts, None

\* What the reports list is recorded, and a final report lists everything.
LEMMA RecordReports ==
    ASSUME TypeInv, HandoffInv, RecordInv, [Next]_vars
    PROVE  /\ Contracts(report)' \subseteq recorded' /\ Contracts(final)' \subseteq recorded'
           /\ (\A k \in Keys : final'[k] # 0) \/ (final' = None /\ handoff' = 0)
<1>1. recorded \subseteq recorded'
      BY RecordedGrows
<1>2. Contracts(report)' \subseteq recorded'
  <2>1. report' = report \/ (report' = system' /\ recorded' = recorded \union Contracts(system'))
        BY DEF Next, vars, script, reports, Run, ScriptStep, AttachResumed, SendDeployment,
           Deployed,
           WriteStep, WriteThrows, Complete, Interrupted, Mine, MineDeployment, MineWrite,
           PendingLost,
           HandoffStep, HandoffStarts, HandoffSends, HandoffReceipt, HandoffStops, Govern, Attach,
           Publish
  <2>2. QED BY <1>1, <2>1 DEF RecordInv, Contracts
<1>3. final' = final \/ Complete \/ (Interrupted /\ final' = None)
      BY DEF Next, vars, script, reports, Run, ScriptStep, AttachResumed, SendDeployment, Deployed,
         WriteStep, WriteThrows, Interrupted, Mine, MineDeployment, MineWrite, PendingLost,
         HandoffStep, HandoffStarts, HandoffSends, HandoffReceipt, HandoffStops, Govern
<1>4. CASE final' = final
  <2>1. Contracts(final)' \subseteq recorded'
        BY <1>1, <1>4 DEF RecordInv, Contracts
  <2>2. CASE final = None
    <3>1. handoff = 0
          BY <2>2, SinkKeys DEF RecordInv, None
    <3>2. handoff' = 0
      <4>1. CASE HandoffStep
            BY <2>2, <3>1, <4>1, ExecutionKinds DEF HandoffStep, HandoffStarts, HandoffSends,
               HandoffReceipt, HandoffStops, HandoffInv
      <4>2. CASE MineWrite
            BY <3>1, <4>2 DEF MineWrite
      <4>3. CASE ~HandoffStep /\ ~MineWrite
            BY <3>1, <4>3, HandoffKept
      <4>4. QED BY <4>1, <4>2, <4>3
    <3>3. QED BY <1>2, <1>4, <2>1, <2>2, <3>2
  <2>3. CASE final # None
        BY <1>2, <1>4, <2>1, <2>3 DEF RecordInv
  <2>4. QED BY <2>2, <2>3
<1>5. CASE Complete
  <2>1. final' = system /\ Contracts(system) \subseteq recorded
        BY <1>5 DEF Complete, RecordInv
  <2>2. \A k \in Keys : system[k] # 0
        BY <1>5, AllAttached DEF Complete
  <2>3. QED BY <1>1, <1>2, <2>1, <2>2 DEF Contracts
<1>6. CASE Interrupted /\ final' = None
  <2>1. handoff' = 0
        BY <1>6 DEF Interrupted, HandoffInv, handoffScript
  <2>2. Contracts(final)' = {}
        BY <1>6, NothingAttached DEF Contracts
  <2>3. QED BY <1>2, <1>6, <2>1, <2>2
<1>7. QED BY <1>2, <1>3, <1>4, <1>5, <1>6

LEMMA RecordScript ==
    ASSUME TypeInv, RecordInv, [Next]_vars
    PROVE  /\ Contracts(system)' \subseteq recorded'
           /\ phase' = "running" =>
                \A j \in DOMAIN Steps : j < step' /\ Steps[j].do = "deploy" => system'[Steps[j].key] # 0
           /\ phase' = "complete" => \A k \in Keys : system'[k] # 0
<1> DEFINE Goal == /\ Contracts(system)' \subseteq recorded'
                   /\ phase' = "running" =>
                        \A j \in DOMAIN Steps :
                           j < step' /\ Steps[j].do = "deploy" => system'[Steps[j].key] # 0
                   /\ phase' = "complete" => \A k \in Keys : system'[k] # 0
<1>1. \A j \in DOMAIN Steps : j \in Nat \ {0}
      BY StepsOrdered
<1>2. system' = None => Contracts(system)' \subseteq recorded'
      BY NothingAttached DEF Contracts
<1>3. CASE Run
  <2>1. phase' = "running" /\ step' = 1 /\ system' = None
        BY <1>3 DEF Run, reports
  <2>2. QED BY <1>1, <1>2, <2>1
<1>4. CASE AttachResumed
  <2>1. AtStep("deploy") /\ resume[Here.key] \in Nat \ {0} /\ Attach(Here.key, resume[Here.key])
        /\ phase' = phase /\ phase = "running"
        BY <1>4, DeployHere DEF AttachResumed, TypeInv, AtStep
  <2>2. QED BY <2>1, AttachKeeps
<1>5. CASE Deployed
  <2>1. AtStep("deploy") /\ awaiting \in Nat \ {0} /\ Attach(Here.key, awaiting)
        /\ phase' = phase /\ phase = "running"
        BY <1>5 DEF Deployed, TypeInv, AtStep
  <2>2. QED BY <2>1, AttachKeeps
<1>6. CASE WriteStep
  <2>1. /\ step' = step + 1 /\ system' = system /\ recorded' = recorded /\ phase' = phase
        /\ phase = "running" /\ step \in Nat /\ Steps[step].do = "write"
        BY <1>6, HereTyped DEF WriteStep, TypeInv, AtStep, reports
  <2>2. \A j \in DOMAIN Steps : j < step' /\ Steps[j].do = "deploy" => j < step
        BY <1>1, <2>1
  <2>3. QED BY <2>1, <2>2 DEF RecordInv, Contracts
<1>7. CASE WriteThrows \/ Interrupted
  <2>1. phase' = "failed" /\ system' = None
        BY <1>7 DEF WriteThrows, Interrupted, reports
  <2>2. QED BY <1>2, <2>1
<1>8. CASE Complete
  <2>1. /\ phase = "running" /\ step > Len(Steps) /\ phase' = "complete" /\ system' = system
        /\ recorded \subseteq recorded'
        BY <1>8 DEF Complete, Publish
  <2>2. \A k \in Keys : system[k] # 0
        BY <2>1, AllAttached
  <2>3. QED BY <2>1, <2>2 DEF RecordInv, Contracts
<1>9. CASE UNCHANGED <<phase, step, system, recorded>>
      BY <1>9 DEF RecordInv, Contracts
<1>10. \/ Run \/ AttachResumed \/ Deployed \/ WriteStep \/ WriteThrows \/ Interrupted \/ Complete
       \/ UNCHANGED <<phase, step, system, recorded>>
       BY DEF Next, vars, script, reports, ScriptStep, SendDeployment, Mine, MineDeployment,
          MineWrite, PendingLost, HandoffStep,
          HandoffStarts, HandoffSends, HandoffReceipt, HandoffStops, Govern, SetExecutor,
          TransferOwnership, SetApprovedSource
<1>11. QED BY <1>3, <1>4, <1>5, <1>6, <1>7, <1>8, <1>9, <1>10

\* No contract is wired to anything before a checkpoint lists it: the steps of the
\* script come in an order in which a step uses contracts of earlier steps only, each
\* of which was listed when it was attached (phase1a-sequence.js:110-126).
THEOREM DeploymentRecordsBeforeUse == Spec => []RecordedBeforeUsed
<1>1. Init => HandoffInv /\ RecordInv
  <2>1. Init => HandoffInv
        BY DEF Init, HandoffInv
  <2>2. Init => RecordInv
        BY NothingAttached DEF Init, RecordInv, ToSet
  <2>3. QED BY <2>1, <2>2
<1>2. TypeInv /\ HandoffInv /\ RecordInv /\ [Next]_vars => HandoffInv' /\ RecordInv'
  <2> SUFFICES ASSUME TypeInv, HandoffInv, RecordInv, [Next]_vars
               PROVE  HandoffInv' /\ RecordInv'
      OBVIOUS
  <2>1. HandoffInv'
        BY HandoffStepInv
  <2>2. RecordInv'
        BY RecordScript, RecordReports, RecordFacts DEF RecordInv, ToSet
  <2>3. QED BY <2>1, <2>2
<1>3. RecordInv => RecordedBeforeUsed
      BY DEF RecordInv, RecordedBeforeUsed, Known
<1>4. QED BY <1>1, <1>2, <1>3, TypeInvariant, PTL DEF Spec
-----------------------------------------------------------------------------
(* The script attaches its contracts in order, and the checkpoint follows it. *)

Before(k, i) == \E j \in 1 .. i - 1 : Steps[j] = Deploy(k)
Full(sys) == sys["observer"] # 0 => \A k \in Keys : sys[k] # 0

\* The script has attached the contracts of the deployments behind it, the ones the
\* checkpoint names where it names any, and the checkpoint lists what is attached.
ScriptInv ==
    /\ phase = "running" =>
          /\ \A k \in Keys : system[k] # 0 <=> Before(k, step)
          /\ \A k \in Keys : system[k] # 0 /\ resume[k] # 0 => system[k] = resume[k]
          /\ step > 1 => report = system
    /\ phase = "complete" => report = system /\ \A k \in Keys : system[k] # 0
    /\ phase \in {"idle", "failed"} => system = None
    /\ phase # "running" => resume = None /\ step = 1
    /\ awaiting # 0 => AtStep("deploy") /\ resume[Here.key] = 0
    /\ Full(system) /\ Full(resume) /\ Full(report)

LEMMA FullNone == Full(None) /\ \A k \in Keys : None[k] = 0
BY SinkKeys DEF Full, None

\* Who has attached what the steps before i deploy has nothing or all with the observer.
LEMMA FullSystem ==
    ASSUME NEW sys, NEW i \in Nat, i <= Len(Steps) + 1, \A k \in Keys : sys[k] # 0 <=> Before(k, i)
    PROVE  Full(sys)
<1> SUFFICES ASSUME sys["observer"] # 0, NEW k \in Keys, k # "observer"
             PROVE  sys[k] # 0
    BY DEF Full
<1>1. PICK j \in 1 .. i - 1 : Steps[j] = Deploy("observer")
      BY SinkKeys DEF Before
<1>2. j \in DOMAIN Steps
      BY StepsOrdered
<1>3. PICK h \in 1 .. j - 1 : Steps[h] = Deploy(k)
      BY <1>1, <1>2, ObserverLast
<1>4. h \in 1 .. i - 1
      BY <1>2
<1>5. QED BY <1>3, <1>4 DEF Before

\* One step more.
LEMMA BeforeNext ==
    ASSUME NEW i \in DOMAIN Steps, NEW k
    PROVE  /\ Before(k, i + 1) <=> Before(k, i) \/ Steps[i] = Deploy(k)
           /\ Steps[i] = Deploy(k) => ~Before(k, i)
<1>1. i \in Nat \ {0} /\ DOMAIN Steps = 1 .. Len(Steps)
      BY StepsOrdered
<1>2. 1 .. i + 1 - 1 = (1 .. i - 1) \union {i}
      BY <1>1
<1>3. ASSUME Steps[i] = Deploy(k), NEW j \in 1 .. i - 1, Steps[j] = Deploy(k)
      PROVE  FALSE
  <2>1. j \in DOMAIN Steps /\ j # i
        BY <1>1
  <2>2. Steps[i].do = "deploy" /\ Steps[j].do = "deploy" /\ Steps[i].key = Steps[j].key
        BY <1>3 DEF Deploy
  <2>3. QED BY <2>1, <2>2, DeployedOnce
<1>4. QED BY <1>2, <1>3 DEF Before

\* A deployment step deploys a key that nothing is attached for yet.
LEMMA DeployHereNew ==
    ASSUME TypeInv, ScriptInv, AtStep("deploy")
    PROVE  Here = Deploy(Here.key) /\ Here.key \in Keys /\ system[Here.key] = 0
<1>1. step \in DOMAIN Steps /\ Here = Steps[step] /\ Here.do = "deploy" /\ phase = "running" /\ Here.key \in Keys
      BY HereTyped, DeployHere DEF AtStep
<1>2. Here = Deploy(Here.key)
      BY <1>1, StepAt
<1>3. QED BY <1>1, <1>2, BeforeNext DEF ScriptInv

LEMMA AttachFollows ==
    ASSUME TypeInv, ScriptInv, AtStep("deploy"), NEW n \in Nat \ {0}, Attach(Here.key, n),
           resume[Here.key] \in {0, n}, phase' = phase, resume' = resume, awaiting' = 0
    PROVE  ScriptInv'
<1>1. /\ step \in DOMAIN Steps /\ Here = Steps[step] /\ Here = Deploy(Here.key) /\ Here.key \in Keys
      /\ phase = "running" /\ step \in Nat
      BY HereTyped, DeployHereNew DEF AtStep, TypeInv
<1>2. system' = [system EXCEPT ![Here.key] = n] /\ step' = step + 1 /\ report' = system'
      BY DEF Attach, Publish
<1>3. \A k \in Keys : system'[k] # 0 <=> Before(k, step + 1)
  <2> SUFFICES ASSUME NEW k \in Keys PROVE system'[k] # 0 <=> Before(k, step + 1)
      OBVIOUS
  <2>1. CASE k = Here.key
        BY <1>1, <1>2, <2>1, BeforeNext DEF TypeInv
  <2>2. CASE k # Here.key
    <3>1. Deploy(k) # Deploy(Here.key)
          BY <2>2 DEF Deploy
    <3>2. system'[k] = system[k]
          BY <1>1, <1>2, <2>2 DEF TypeInv
    <3>3. QED BY <1>1, <3>1, <3>2, BeforeNext DEF ScriptInv
  <2>3. QED BY <2>1, <2>2
<1>4. \A k \in Keys : system'[k] # 0 /\ resume[k] # 0 => system'[k] = resume[k]
      BY <1>1, <1>2 DEF ScriptInv, TypeInv
<1>5. Full(system')
  <2>1. step + 1 \in Nat /\ step + 1 <= Len(Steps) + 1
        BY <1>1, StepsOrdered
  <2>2. QED BY <1>3, <2>1, FullSystem
<1>6. Full(resume) /\ Full(report')
      BY <1>2, <1>5 DEF ScriptInv
<1>7. QED BY <1>1, <1>2, <1>3, <1>4, <1>5, <1>6 DEF ScriptInv, Full, Before

LEMMA ScriptFollows ==
    ASSUME TypeInv, ScriptInv, [Next]_vars
    PROVE  ScriptInv'
<1>1. CASE Run
  <2>1. /\ phase' = "running" /\ step' = 1 /\ system' = None /\ resume' = report /\ report' = report
        /\ awaiting' = 0
        BY <1>1 DEF Run, ScriptInv, AtStep, reports
  <2>2. \A k \in Keys : ~Before(k, 1)
        BY DEF Before
  <2>3. QED BY <2>1, <2>2, FullNone DEF ScriptInv, Full, Before
<1>2. CASE AttachResumed
  <2>1. AtStep("deploy") /\ resume[Here.key] \in Nat \ {0} /\ Attach(Here.key, resume[Here.key])
        /\ phase' = phase /\ resume' = resume /\ awaiting' = awaiting
        BY <1>2, DeployHere DEF AttachResumed, TypeInv
  <2>2. awaiting' = 0
        BY <2>1 DEF ScriptInv
  <2>3. QED BY <2>1, <2>2, AttachFollows
<1>3. CASE Deployed
  <2>1. AtStep("deploy") /\ awaiting \in Nat \ {0} /\ Attach(Here.key, awaiting)
        /\ phase' = phase /\ resume' = resume /\ awaiting' = 0
        BY <1>3 DEF Deployed, TypeInv
  <2>2. resume[Here.key] = 0
        BY <2>1 DEF ScriptInv
  <2>3. QED BY <2>1, <2>2, AttachFollows
<1>4. CASE WriteStep
  <2>1. /\ step' = step + 1 /\ system' = system /\ resume' = resume /\ report' = report /\ phase' = phase
        /\ phase = "running" /\ step \in DOMAIN Steps /\ Steps[step].do = "write" /\ awaiting' = 0
        BY <1>4, HereTyped DEF WriteStep, AtStep, ScriptInv, reports
  <2>2. \A k : Steps[step] # Deploy(k)
        BY <2>1 DEF Deploy
  <2>3. \A k \in Keys : Before(k, step + 1) <=> Before(k, step)
        BY <2>1, <2>2, BeforeNext
  <2>4. step > 1
    <3>1. step # 1
          BY <2>2, StepPlaces
    <3>2. QED BY <2>1, <3>1, StepsOrdered
  <2>5. QED BY <2>1, <2>3, <2>4 DEF ScriptInv, Full, Before
<1>5. CASE WriteThrows \/ Interrupted
  <2>1. phase' = "failed" /\ system' = None /\ resume' = None /\ step' = 1 /\ awaiting' = 0 /\ report' = report
        BY <1>5 DEF WriteThrows, Interrupted, Ends, reports
  <2>2. QED BY <2>1, FullNone DEF ScriptInv, Full
<1>6. CASE Complete
  <2>1. /\ phase = "running" /\ step > Len(Steps) /\ phase' = "complete" /\ system' = system
        /\ report' = system' /\ resume' = None /\ step' = 1 /\ awaiting' = 0
        BY <1>6 DEF Complete, Publish, Ends
  <2>2. ASSUME NEW k \in Keys
        PROVE  system[k] # 0
    <3>1. PICK j \in DOMAIN Steps : Steps[j] = Deploy(k)
          BY StepsOrdered DEF Deploys
    <3>2. j \in 1 .. step - 1
          BY <2>1, StepsOrdered DEF TypeInv
    <3>3. QED BY <2>1, <3>1, <3>2 DEF ScriptInv, Before
  <2>3. QED BY <2>1, <2>2, FullNone DEF ScriptInv, Full
<1>7. CASE SendDeployment
  <2>1. /\ UNCHANGED <<phase, step, system, resume, report>>
        /\ AtStep("deploy") /\ resume[Here.key] = 0
        BY <1>7 DEF SendDeployment, reports
  <2>2. AtStep("deploy")' /\ Here' = Here
        BY <2>1 DEF AtStep, Here
  <2>3. QED BY <2>1, <2>2 DEF ScriptInv, Full, Before
<1>8. CASE UNCHANGED <<phase, step, awaiting, system, resume, report>>
      BY <1>8 DEF ScriptInv, Full, Before, AtStep, Here
<1>9. \/ Run \/ AttachResumed \/ SendDeployment \/ Deployed \/ WriteStep \/ WriteThrows \/ Interrupted
      \/ Complete \/ UNCHANGED <<phase, step, awaiting, system, resume, report>>
      BY DEF Next, vars, script, reports, ScriptStep, Mine, MineDeployment, MineWrite, PendingLost,
         HandoffStep,
         HandoffStarts, HandoffSends, HandoffReceipt, HandoffStops, Govern, SetExecutor,
         TransferOwnership, SetApprovedSource
<1>10. QED BY <1>1, <1>2, <1>3, <1>4, <1>5, <1>6, <1>7, <1>8, <1>9
-----------------------------------------------------------------------------
(* An awaited receipt is that of the last transaction.                       *)

Count(q, x) == Cardinality({i \in DOMAIN q : q[i] = x})

LEMMA CountTyped ==
    ASSUME NEW S, NEW q \in Seq(S), NEW x
    PROVE  Count(q, x) \in Nat /\ IsFiniteSet({i \in DOMAIN q : q[i] = x})
<1>1. IsFiniteSet(1 .. Len(q)) /\ DOMAIN q = 1 .. Len(q)
      BY FS_Interval
<1>2. QED BY <1>1, FS_Subset, FS_CardinalityType DEF Count

LEMMA CountAppend ==
    ASSUME NEW S, NEW q \in Seq(S), NEW x \in S
    PROVE  Count(Append(q, x), x) = Count(q, x) + 1
<1> DEFINE P == {i \in DOMAIN q : q[i] = x}
           Q == {i \in DOMAIN Append(q, x) : Append(q, x)[i] = x}
<1>1. Q = P \union {Len(q) + 1} /\ Len(q) + 1 \notin P
      OBVIOUS
<1>2. IsFiniteSet(P)
      BY CountTyped
<1> HIDE DEF P, Q
<1>3. Cardinality(Q) = Cardinality(P) + 1
      BY <1>1, <1>2, FS_AddElement
<1>4. QED BY <1>3 DEF Count, P, Q

LEMMA CountTail ==
    ASSUME NEW S, NEW q \in Seq(S), q # <<>>, NEW x
    PROVE  Count(q, x) = Count(Tail(q), x) + (IF Head(q) = x THEN 1 ELSE 0)
<1> DEFINE P == {i \in DOMAIN Tail(q) : Tail(q)[i] = x}
           Q == {i \in DOMAIN q \ {1} : q[i] = x}
           R == {i \in DOMAIN q : q[i] = x}
           Next1 == [i \in P |-> i + 1]
<1>1. /\ Tail(q) \in Seq(S) /\ DOMAIN Tail(q) = 1 .. Len(q) - 1 /\ DOMAIN q = 1 .. Len(q)
      /\ Len(q) \in Nat \ {0} /\ Head(q) = q[1]
      /\ \A i \in 1 .. Len(q) - 1 : Tail(q)[i] = q[i + 1]
  <2>1. Len(q) \in Nat \ {0}
        BY SMT
  <2>2. QED BY <2>1
<1>2. IsFiniteSet(P) /\ IsFiniteSet(R)
      BY <1>1, CountTyped
<1>3. Next1 \in Bijection(P, Q)
  <2>1. \A i \in P : i \in Nat /\ i + 1 \in Q
        BY <1>1
  <2>2. \A j \in Q : j - 1 \in P /\ j = (j - 1) + 1
        BY <1>1
  <2> HIDE DEF P, Q
  <2>3. Next1 \in [P -> Q] /\ \A i \in P : Next1[i] = i + 1
        BY <2>1
  <2> HIDE DEF Next1
  <2>4. \A i, j \in P : Next1[i] = Next1[j] => i = j
        BY <2>1, <2>3
  <2>5. \A j \in Q : \E i \in P : Next1[i] = j
        BY <2>2, <2>3
  <2>6. QED BY <2>3, <2>4, <2>5, Fun_IsBij
<1>4. Cardinality(P) = Cardinality(Q) /\ IsFiniteSet(Q)
  <2>1. ExistsBijection(P, Q)
        BY <1>3 DEF ExistsBijection
  <2>2. QED BY <1>2, <2>1, FS_Bijection
<1>5. CASE Head(q) = x
  <2>1. R = Q \union {1} /\ 1 \notin Q
        BY <1>1, <1>5
  <2> HIDE DEF P, Q, R
  <2>2. Cardinality(R) = Cardinality(Q) + 1
        BY <1>4, <2>1, FS_AddElement
  <2>3. QED BY <1>4, <1>5, <2>2 DEF Count, P, R
<1>6. CASE Head(q) # x
  <2>1. R = Q
        BY <1>1, <1>6
  <2>2. Cardinality(P) \in Nat
        BY <1>2, FS_CardinalityType
  <2> HIDE DEF P, Q, R
  <2>3. Cardinality(R) = Cardinality(P) + 0
        BY <1>4, <2>1, <2>2
  <2>4. QED BY <1>6, <2>3 DEF Count, P, R
<1>7. QED BY <1>5, <1>6

\* No number is known of a contract that does not exist.
Exist(sys) == \A k \in Keys : sys[k] <= deployed[k]
BoundInv ==
    /\ Exist(system) /\ Exist(resume) /\ Exist(report)
    /\ \A k \in Keys : \A n \in Nat : <<k, n>> \in recorded => n <= deployed[k]

\* The deployment whose receipt the script waits for is not recorded yet.  When anything
\* is pending it is pending too, the last in line, and the number it will have is the
\* one the receipt was promised for.
Waited == [do |-> "deploy", key |-> Here.key]
AwaitInv ==
    awaiting # 0 =>
      /\ <<Here.key, awaiting>> \notin recorded
      /\ mempool # <<>> =>
           /\ mempool[Len(mempool)] = Waited
           /\ deployed[Here.key] + Count(mempool, Waited) = awaiting

LEMMA DeployedGrows ==
    ASSUME TypeInv, [Next]_vars
    PROVE  /\ \A k \in Keys : deployed'[k] \in Nat /\ deployed[k] \in Nat /\ deployed[k] <= deployed'[k]
           /\ ~Mine => deployed' = deployed
<1>1. CASE Mine
  <2>1. PICK tx : tx = Head(mempool)
        OBVIOUS
  <2>2. tx \in Tx
        BY <1>1, <2>1, Mined DEF Mine, MineDeployment, MineWrite, TypeInv
  <2>3. CASE tx.do = "deploy"
    <3>1. deployed' = [deployed EXCEPT ![tx.key] = @ + 1]
          BY <1>1, <2>1, <2>3 DEF Mine, MineDeployment, MineWrite
    <3>2. QED BY <1>1, <3>1 DEF TypeInv
  <2>4. CASE tx.do # "deploy"
        BY <1>1, <2>1, <2>4 DEF Mine, MineDeployment, MineWrite, TypeInv
  <2>5. QED BY <2>3, <2>4
<1>2. CASE ~Mine
  <2>1. deployed' = deployed
        BY <1>2 DEF Next, vars, chain, Run, ScriptStep, AttachResumed, SendDeployment, Deployed,
           WriteStep,
           WriteThrows, Complete, Interrupted, PendingLost, HandoffStep, HandoffStarts,
           HandoffSends,
           HandoffReceipt, HandoffStops, Govern, SetExecutor, TransferOwnership, SetApprovedSource,
           reports
  <2>2. QED BY <2>1 DEF TypeInv
<1>3. QED BY <1>1, <1>2

LEMMA ListedExist ==
    ASSUME NEW sys \in [Keys -> Nat], Exist(sys), NEW k \in Keys, NEW n \in Nat, <<k, n>> \in Contracts(sys)
    PROVE  n <= deployed[k]
BY DEF Contracts, Exist

LEMMA BoundStep ==
    ASSUME TypeInv, TypeInv', BoundInv, [Next]_vars
    PROVE  BoundInv'
<1>1. /\ \A k \in Keys : deployed'[k] \in Nat /\ deployed[k] \in Nat /\ deployed[k] <= deployed'[k]
      /\ ~Mine => deployed' = deployed
      BY DeployedGrows
<1> DEFINE Bound(sys) == \A k \in Keys : sys[k] <= deployed'[k]
           Attached == /\ Bound(system') /\ report' = system' /\ resume' = resume
                       /\ recorded' = recorded \union Contracts(system')
<1>2. \A sys \in [Keys -> Nat] : Exist(sys) => Bound(sys)
      BY <1>1 DEF Exist
<1>3. Bound(system) /\ Bound(resume) /\ Bound(report) /\ Bound(None)
  <2>1. Exist(None)
        BY <1>1 DEF Exist, None
  <2>2. QED BY <1>2, <2>1, NoneTyped DEF BoundInv, TypeInv
<1>4. \A k \in Keys : \A n \in Nat : <<k, n>> \in recorded => n <= deployed'[k]
      BY <1>1 DEF BoundInv
<1>5. ASSUME Bound(system'), NEW k \in Keys, NEW n \in Nat, <<k, n>> \in Contracts(system')
      PROVE  n <= deployed'[k]
      BY <1>5 DEF Contracts, TypeInv
<1>6. CASE Run
      BY <1>3, <1>4, <1>6 DEF Run, BoundInv, Exist, reports
<1>7. CASE AttachResumed \/ Deployed
  <2>1. PICK k \in Keys : k = Here.key
        BY <1>7, DeployHere DEF AttachResumed, Deployed
  <2>2. PICK n \in Nat : n <= deployed[k] /\ Attach(k, n)
    <3>1. CASE AttachResumed
          BY <2>1, <3>1 DEF AttachResumed, BoundInv, Exist, TypeInv
    <3>2. CASE Deployed
          BY <2>1, <3>2 DEF Deployed, TypeInv
    <3>3. QED BY <1>7, <3>1, <3>2
  <2>3. system' = [system EXCEPT ![k] = n] /\ report' = system' /\ recorded' = recorded \union Contracts(system')
        BY <2>2 DEF Attach, Publish
  <2>4. Bound(system')
        BY <1>1, <1>3, <2>2, <2>3 DEF TypeInv
  <2>5. resume' = resume
        BY <1>7 DEF AttachResumed, Deployed
  <2>6. QED BY <1>3, <1>4, <1>5, <2>3, <2>4, <2>5 DEF BoundInv, Exist
<1>8. CASE Complete
  <2>1. system' = system /\ report' = system' /\ recorded' = recorded \union Contracts(system') /\ resume' = None
        BY <1>8 DEF Complete, Publish, Ends
  <2>2. QED BY <1>3, <1>4, <1>5, <2>1 DEF BoundInv, Exist
<1>9. CASE WriteThrows \/ Interrupted
      BY <1>3, <1>4, <1>9 DEF WriteThrows, Interrupted, Ends, BoundInv, Exist, reports
<1>10. CASE UNCHANGED <<system, resume, report, recorded>>
       BY <1>3, <1>4, <1>10 DEF BoundInv, Exist
<1>11. \/ Run \/ AttachResumed \/ Deployed \/ WriteThrows \/ Interrupted
       \/ Complete \/ UNCHANGED <<system, resume, report, recorded>>
       BY DEF Next, vars, script, reports, ScriptStep, SendDeployment, WriteStep, Mine,
          MineDeployment, MineWrite, PendingLost, HandoffStep,
          HandoffStarts, HandoffSends, HandoffReceipt, HandoffStops, Govern, SetExecutor,
          TransferOwnership, SetApprovedSource
<1>12. QED BY <1>6, <1>7, <1>8, <1>9, <1>10, <1>11

\* While the script awaits a receipt nothing else is sent.
LEMMA AwaitStep ==
    ASSUME TypeInv, HandoffInv, ScriptInv, BoundInv, AwaitInv, [Next]_vars
    PROVE  AwaitInv'
<1>1. CASE SendDeployment
  <2>1. /\ AtStep("deploy") /\ Send(Waited) /\ Here' = Here
        /\ awaiting' = deployed[Here.key] + Count(mempool, Waited) + 1
        /\ recorded' = recorded /\ deployed' = deployed
        BY <1>1 DEF SendDeployment, PendingDeployments, Waited, Count, Here, chain, reports
  <2>2. Here.key \in Keys /\ Waited \in Tx
        BY <2>1, DeployHere DEF Waited, Tx
  <2>3. mempool' = Append(mempool, Waited)
        BY <2>1 DEF Send
  <2>4. Count(mempool', Waited) = Count(mempool, Waited) + 1 /\ Count(mempool, Waited) \in Nat
        BY <2>2, <2>3, CountAppend, CountTyped DEF TypeInv
  <2>5. mempool'[Len(mempool')] = Waited
        BY <2>2, <2>3 DEF TypeInv
  <2>6. deployed[Here.key] \in Nat
        BY <2>2 DEF TypeInv
  <2>7. deployed[Here.key] + Count(mempool', Waited) = awaiting' /\ awaiting' \in Nat /\ awaiting' > deployed[Here.key]
        BY <2>1, <2>4, <2>6
  <2>8. <<Here.key, awaiting'>> \notin recorded
        BY <2>2, <2>6, <2>7 DEF BoundInv
  <2>9. Waited' = Waited /\ Count(mempool, Waited)' = Count(mempool', Waited)
        BY <2>1 DEF Waited, Count
  <2>10. QED BY <2>1, <2>5, <2>7, <2>8, <2>9 DEF AwaitInv
<1>2. CASE Mine /\ awaiting # 0
  <2>1. /\ mempool # <<>> /\ mempool' = Tail(mempool) /\ mempool \in Seq(Tx)
        /\ awaiting' = awaiting /\ Here' = Here /\ recorded' = recorded /\ Waited' = Waited
        BY <1>2 DEF Mine, MineDeployment, MineWrite, script, reports, Here, Waited, TypeInv
  <2>2. AtStep("deploy") /\ Here.key \in Keys
        BY <1>2, DeployHere DEF ScriptInv
  <2>3. PICK tx : tx = Head(mempool)
        OBVIOUS
  <2>4. tx \in Tx
        BY <2>1, <2>3, Mined
  <2>5. Count(mempool, Waited) = Count(mempool', Waited) + (IF tx = Waited THEN 1 ELSE 0)
        BY <2>1, <2>3, CountTail
  <2>6. Count(mempool', Waited) \in Nat
    <3>1. mempool' \in Seq(Tx)
          BY <2>1, Mined
    <3>2. QED BY <3>1, CountTyped
  <2>7. deployed'[Here.key] = deployed[Here.key] + (IF tx = Waited THEN 1 ELSE 0)
    <3>1. CASE tx.do = "deploy"
      <4>1. deployed' = [deployed EXCEPT ![tx.key] = @ + 1]
            BY <1>2, <2>3, <3>1 DEF Mine, MineDeployment, MineWrite
      <4>2. tx = [do |-> "deploy", key |-> tx.key]
            BY <2>4, <3>1 DEF Tx, WriteTx
      <4>3. tx = Waited <=> tx.key = Here.key
            BY <4>2 DEF Waited
      <4>4. QED BY <2>2, <4>1, <4>3 DEF TypeInv
    <3>2. CASE tx.do # "deploy"
      <4>1. deployed' = deployed
            BY <1>2, <2>3, <3>2 DEF Mine, MineDeployment, MineWrite
      <4>2. tx # Waited
            BY <3>2 DEF Waited
      <4>3. QED BY <2>2, <4>1, <4>2 DEF TypeInv
    <3>3. QED BY <3>1, <3>2
  <2>8. deployed[Here.key] + Count(mempool, Waited) = awaiting /\ mempool[Len(mempool)] = Waited
        BY <1>2, <2>1 DEF AwaitInv
  <2>9. deployed'[Here.key] + Count(mempool', Waited) = awaiting
    <3>1. deployed[Here.key] \in Nat
          BY <2>2 DEF TypeInv
    <3>2. QED BY <2>5, <2>6, <2>7, <2>8, <3>1
  <2>10. mempool' # <<>> => mempool'[Len(mempool')] = Waited
         BY <2>1, <2>8
  <2>11. Count(mempool, Waited)' = Count(mempool', Waited)
         BY <2>1 DEF Waited, Count
  <2>12. QED BY <1>2, <2>1, <2>9, <2>10, <2>11 DEF AwaitInv
<1>3. CASE PendingLost
      BY <1>3 DEF PendingLost, script, reports, AwaitInv, Here
<1>4. CASE awaiting' = 0
      BY <1>4 DEF AwaitInv
<1>5. CASE UNCHANGED <<awaiting, deployed, step, recorded, mempool>>
      BY <1>5 DEF AwaitInv, Here, Waited, Count
<1>6. CASE Mine /\ awaiting = 0
      BY <1>4, <1>6 DEF Mine, MineDeployment, MineWrite, script, reports
<1>7. CASE AttachResumed \/ WriteStep \/ Complete \/ Deployed \/ WriteThrows \/ Interrupted \/ Run
  <2>1. awaiting' = 0
        BY <1>7 DEF AttachResumed, WriteStep, Complete, Deployed, WriteThrows, Interrupted, Run,
           Ends,
           ScriptInv, AtStep, reports
  <2>2. QED BY <1>4, <2>1
<1>8. CASE HandoffSends
  <2>1. phase # "running" /\ awaiting' = awaiting
        BY <1>8, ExecutionKinds DEF HandoffSends, HandoffInv, script
  <2>2. awaiting = 0
        BY <2>1 DEF ScriptInv, AtStep
  <2>3. QED BY <1>4, <2>1, <2>2
<1>9. \/ Run \/ AttachResumed \/ SendDeployment \/ Deployed \/ WriteStep \/ WriteThrows \/ Interrupted
      \/ Complete \/ Mine \/ PendingLost \/ HandoffSends
      \/ UNCHANGED <<awaiting, deployed, step, recorded, mempool>>
      BY DEF Next, vars, chain, script, reports, ScriptStep, HandoffStep,
         HandoffStarts, HandoffReceipt, HandoffStops, Govern, SetExecutor, TransferOwnership,
         SetApprovedSource
<1>10. QED BY <1>1, <1>2, <1>3, <1>5, <1>6, <1>7, <1>8, <1>9

\* When the receipt is there, everything that was sent is mined.
LEMMA DeployedLast ==
    ASSUME TypeInv, AwaitInv, Deployed
    PROVE  mempool = <<>> /\ <<Here.key, awaiting>> \notin recorded
<1>1. awaiting # 0 /\ AtStep("deploy") /\ deployed[Here.key] >= awaiting
      BY DEF Deployed
<1>2. SUFFICES ASSUME mempool # <<>> PROVE FALSE
      BY <1>1 DEF AwaitInv
<1>3. mempool \in Seq(Tx) /\ deployed[Here.key] \in Nat
      BY <1>1, DeployHere DEF TypeInv
<1>4. Len(mempool) \in DOMAIN mempool /\ mempool[Len(mempool)] = Waited
      BY <1>1, <1>2, <1>3 DEF AwaitInv
<1> DEFINE P == {i \in DOMAIN mempool : mempool[i] = Waited}
<1>5. Cardinality(P) \in Nat /\ Cardinality(P) # 0
  <2>1. IsFiniteSet(P) /\ Cardinality(P) \in Nat
        BY <1>3, CountTyped DEF Count
  <2>2. P # {}
        BY <1>4
  <2> HIDE DEF P
  <2>3. QED BY <2>1, <2>2, FS_EmptySet
<1>6. deployed[Here.key] + Cardinality(P) = awaiting
      BY <1>1, <1>2 DEF AwaitInv, Count
<1> HIDE DEF P
<1>7. QED BY <1>1, <1>3, <1>5, <1>6
-----------------------------------------------------------------------------
(* What is pending agrees with what the script knows.                        *)

Pending == {t \in ToSet(mempool) : t.do = "write"}
Held == facts \union {t.fact : t \in Pending}

\* A fact among contracts that exist, in the slot of a write.
Numbered(f) == f.of[2] # 0 /\ \A k \in DOMAIN f.to : f.to[k] # 0
Fits(f, s) == f.of[1] = s.of /\ f.slot = s.slot /\ DOMAIN f.to = s.to
Shaped(t) ==
    Numbered(t.fact) /\ \E s \in Wiring :
       /\ Fits(t.fact, s)
       /\ \/ t.other = s.other
          \/ t.other = "revoke" /\ s.other = "overwrite" /\ s.of = "receiver" /\ s.slot \in Withdrawn

\* A fact may be one of a system that is attached in part, or is one of it.  An approved
\* source names no contract; the handoff may write it of the receiver of an older system.
Agrees(f, sys) ==
    DOMAIN f.to # {} => sys[f.of[1]] \in {0, f.of[2]} /\ \A k \in DOMAIN f.to : sys[k] \in {0, f.to[k]}
OfSystem(f, sys) == sys[f.of[1]] = f.of[2] /\ \A k \in DOMAIN f.to : sys[k] = f.to[k]
SameSlot(f, g) == f.of = g.of /\ f.slot = g.slot

\* What is pending is a write of the script, or an approval or a revocation of a source,
\* among existing contracts; it agrees with whatever part of the system a run or a
\* checkpoint knows; two pending writes of one slot write the same, additions aside; a
\* slot that can be written once holds nothing else.
PendingInv ==
    /\ \A f \in facts : Numbered(f)
    /\ \A t \in Pending : Shaped(t)
    /\ \A t \in Pending : Agrees(t.fact, system) /\ Agrees(t.fact, resume) /\ Agrees(t.fact, report)
    /\ \A t \in Pending : \A u \in Pending :
          SameSlot(t.fact, u.fact) /\ t.other # "add" => t.fact = u.fact
    /\ \A t \in Pending : t.other \in {"throw", "keep"} => InSlot(t.fact) \subseteq {t.fact}

\* What is stored is in the slot of a write of the script.
FactShape == \A f \in facts : \E s \in Wiring : Fits(f, s)

LEMMA FactParts ==
    ASSUME NEW f \in Fact
    PROVE  /\ f.of[1] \in Keys /\ f.of[2] \in Nat /\ f.of = <<f.of[1], f.of[2]>>
           /\ DOMAIN f.to \in SUBSET Keys /\ f.to \in [DOMAIN f.to -> Nat]
           /\ f = [of |-> f.of, slot |-> f.slot, to |-> f.to]
<1>1. f.of \in Keys \X Nat /\ f.to \in UNION {[D -> Nat] : D \in SUBSET Keys}
      BY DEF Fact
<1>2. f = [of |-> f.of, slot |-> f.slot, to |-> f.to]
      BY DEF Fact
<1>3. f.of[1] \in Keys /\ f.of[2] \in Nat /\ f.of = <<f.of[1], f.of[2]>>
      BY <1>1
<1>4. PICK D \in SUBSET Keys : f.to \in [D -> Nat]
      BY <1>1
<1>5. DOMAIN f.to = D
      BY <1>4
<1>6. QED BY <1>2, <1>3, <1>4, <1>5

LEMMA SameFact ==
    ASSUME NEW f \in Fact, NEW g \in Fact, SameSlot(f, g), DOMAIN f.to = DOMAIN g.to,
           \A k \in DOMAIN f.to : f.to[k] = g.to[k]
    PROVE  f = g
<1>1. f.to = g.to
  <2>1. f.to \in [DOMAIN f.to -> Nat] /\ g.to \in [DOMAIN f.to -> Nat]
        BY FactParts
  <2>2. QED BY <2>1
<1>2. QED BY <1>1, FactParts, Zenon DEF SameSlot

\* In a slot that is not added to, the facts of one system are one.
LEMMA SlotTold ==
    ASSUME NEW f \in Fact, NEW g \in Fact, NEW sys, Numbered(f), Agrees(g, sys),
           OfSystem(f, sys) \/ DOMAIN f.to = {},
           NEW s \in Wiring, NEW t \in Wiring, Fits(f, s), Fits(g, t), s.other # "add" \/ t.other # "add",
           SameSlot(f, g)
    PROVE  f = g
<1>1. s.of = t.of /\ s.slot = t.slot
      BY DEF Fits, SameSlot
<1>2. s = t
      BY <1>1, SlotsDiffer
<1>3. DOMAIN f.to = DOMAIN g.to
      BY <1>2 DEF Fits
<1>4. \A k \in DOMAIN f.to : f.to[k] = g.to[k]
      BY <1>3 DEF OfSystem, Numbered, Agrees
<1>5. QED BY <1>3, <1>4, SameFact

\* A step uses what the steps before it deploy.
LEMMA StepUses ==
    ASSUME TypeInv, ScriptInv, phase = "running" \/ phase = "complete",
           NEW i \in DOMAIN Steps, phase = "running" => i <= step, Steps[i].do = "write"
    PROVE  /\ Steps[i] \in Wiring /\ Steps[i].of \in Keys /\ Steps[i].to \in SUBSET Keys
           /\ Steps[i].slot \in Slots
           /\ system[Steps[i].of] # 0 /\ \A k \in Steps[i].to : system[k] # 0
           /\ FactOf(Steps[i], system) \in Fact /\ Numbered(FactOf(Steps[i], system))
           /\ OfSystem(FactOf(Steps[i], system), system) /\ Fits(FactOf(Steps[i], system), Steps[i])
<1> DEFINE s == Steps[i]
           f == FactOf(s, system)
<1>1. s \in Wiring
      BY StepAt DEF Scripted
<1>2. s \in Step /\ s.do = "write"
      BY StepsOrdered
<1>3. s.of \in Keys /\ s.to \in SUBSET Keys /\ s.slot \in Slots
      BY <1>2 DEF Step
<1>4. Uses(s) = {s.of} \union s.to
      BY <1>2 DEF Uses
<1>5. ASSUME NEW k \in Uses(s) PROVE system[k] # 0
  <2>1. k \in Keys
        BY <1>3, <1>4, <1>5
  <2>2. CASE phase = "complete"
        BY <2>1, <2>2 DEF ScriptInv
  <2>3. CASE phase = "running"
    <3>1. PICK j \in 1 .. i - 1 : Steps[j] = Deploy(k)
          BY <1>5, StepsOrdered DEF Ordered
    <3>2. j \in 1 .. step - 1
          BY <2>3, StepsOrdered DEF TypeInv
    <3>3. Before(k, step)
          BY <3>1, <3>2 DEF Before
    <3>4. QED BY <2>1, <2>3, <3>3 DEF ScriptInv
  <2>4. QED BY <2>2, <2>3
<1>6. system[s.of] # 0 /\ \A k \in s.to : system[k] # 0
      BY <1>4, <1>5
<1> HIDE DEF s
<1>7. /\ f.of = <<s.of, system[s.of]>> /\ f.slot = s.slot /\ f.to = [k \in s.to |-> system[k]]
      BY DEF FactOf
<1>8. f \in Fact
  <2>1. f.to \in [s.to -> Nat] /\ system[s.of] \in Nat
        BY <1>3, <1>7 DEF TypeInv
  <2>2. [of |-> <<s.of, system[s.of]>>, slot |-> s.slot, to |-> f.to] \in Fact
        BY <1>3, <2>1, FactTyped
  <2>3. QED BY <1>7, <2>2 DEF FactOf
<1> HIDE DEF f
<1>9. Numbered(f) /\ OfSystem(f, system) /\ Fits(f, s)
      BY <1>6, <1>7 DEF Numbered, OfSystem, Fits
<1>10. QED BY <1>1, <1>3, <1>6, <1>8, <1>9 DEF s, f

\* What is sent: a fact of the system of the script, or a source of a receiver.
OfScript(f) ==
    /\ OfSystem(f, system) /\ report = system
    /\ \A k \in Keys : system[k] # 0 /\ resume[k] # 0 => system[k] = resume[k]
OfReceiver(f) == f.of[1] = "receiver" /\ DOMAIN f.to = {}
Sends(t) ==
    /\ Shaped(t) /\ (OfScript(t.fact) \/ OfReceiver(t.fact))
    /\ t.other \in {"throw", "keep"} => InSlot(t.fact) = {}
    /\ UNCHANGED <<facts, system, resume, report, lost, phase>>

LEMMA StepSends ==
    ASSUME TypeInv, ScriptInv, WriteStep, ~Satisfied(FactOf(Here, system))
    PROVE  Sends(WriteSent)
<1>1. phase = "running" /\ step \in DOMAIN Steps /\ Here = Steps[step] /\ Here.do = "write" /\ step \in Nat
      BY HereTyped DEF WriteStep, AtStep, TypeInv, reports
<1>2. PICK t : t = WriteSent
      OBVIOUS
<1>3. /\ Here \in Wiring /\ Numbered(t.fact) /\ OfSystem(t.fact, system) /\ Fits(t.fact, Here)
      /\ t.fact = FactOf(Here, system) /\ t.other = Here.other
      BY <1>1, <1>2, StepUses DEF WriteSent
<1>4. Shaped(t)
      BY <1>3 DEF Shaped
<1>5. Written(t.fact)
      BY <1>3 DEF WriteStep, reports
<1>6. t.other \in {"throw", "keep"} => InSlot(t.fact) = {}
      BY <1>3, <1>5 DEF Written, Satisfied
<1>7. step > 1
  <2>1. Steps[1].do = "deploy"
        BY StepPlaces DEF Deploy
  <2>2. step # 1
        BY <1>1, <2>1
  <2>3. QED BY <1>1, <2>2, StepsOrdered
<1>8. report = system /\ \A k \in Keys : system[k] # 0 /\ resume[k] # 0 => system[k] = resume[k]
      BY <1>1, <1>7 DEF ScriptInv
<1>9. UNCHANGED <<facts, system, resume, report, lost, phase>>
      BY DEF WriteStep, chain, faults, reports
<1>10. QED BY <1>2, <1>3, <1>4, <1>6, <1>8, <1>9 DEF Sends, OfScript

\* The names of the sources: what governance and the handoff write of a receiver.
LEMMA SourceShape ==
    ASSUME NEW n, n # 0, NEW name \in SourceNames
    PROVE  /\ Numbered(Source(n, name)) /\ OfReceiver(Source(n, name))
           /\ Source(n, name).slot = name /\ Source(n, name).of = <<"receiver", n>>
           /\ Fits(Source(n, name), Write("receiver", name, {}, "overwrite"))
           /\ Write("receiver", name, {}, "overwrite") \in Wiring
<1>1. Write("receiver", name, {}, "overwrite") \in Wiring
      BY Zenon DEF Wiring
<1>2. /\ Source(n, name).of = <<"receiver", n>> /\ Source(n, name).slot = name
      /\ DOMAIN Source(n, name).to = {}
      BY DEF Source
<1> DEFINE w == Write("receiver", name, {}, "overwrite")
<1>3. w.of = "receiver" /\ w.slot = name /\ w.to = {}
      BY DEF Write
<1>4. Fits(Source(n, name), w)
      BY <1>2, <1>3 DEF Fits
<1>5. QED BY <1>1, <1>2, <1>4 DEF Numbered, OfReceiver

LEMMA WithdrawnNames ==
    /\ Withdrawn \subseteq SourceNames
    /\ \A i \in DOMAIN Executions : ~Executions[i].approved => Executions[i].source \in Withdrawn
BY ExecutionKinds, RouterIsNoSource DEF Withdrawn

LEMMA HandoffSendsFact ==
    ASSUME TypeInv, RecordInv, HandoffSends
    PROVE  Sends(Execution(Executions[handoff]))
<1>1. PICK t : t = Execution(Executions[handoff])
      OBVIOUS
<1>2. PICK e : e = Executions[handoff]
      OBVIOUS
<1>3. handoff \in DOMAIN Executions /\ handoff # 0
      BY ExecutionKinds DEF HandoffSends
<1>4. e.source \in SourceNames /\ e.approved \in BOOLEAN /\ (~e.approved => e.source \in Withdrawn)
      BY <1>2, <1>3, ExecutionEntry, WithdrawnNames
<1>5. final["receiver"] # 0
      BY <1>3, SinkKeys DEF RecordInv
<1>6. /\ t.fact = Source(final["receiver"], e.source)
      /\ t.other = IF e.approved THEN "overwrite" ELSE "revoke"
      BY <1>1, <1>2 DEF Execution
<1>7. PICK w \in Wiring : w = Write("receiver", e.source, {}, "overwrite")
      BY <1>4, <1>5, SourceShape
<1>8. w.of = "receiver" /\ w.slot = e.source /\ w.other = "overwrite"
      BY <1>7 DEF Write
<1>9. Numbered(t.fact) /\ OfReceiver(t.fact) /\ Fits(t.fact, w)
      BY <1>4, <1>5, <1>6, <1>7, SourceShape
<1>10. Shaped(t)
  <2>1. t.other = w.other \/ (t.other = "revoke" /\ w.other = "overwrite" /\ w.of = "receiver" /\ w.slot \in Withdrawn)
        BY <1>4, <1>6, <1>8
  <2>2. QED BY <1>7, <1>9, <2>1 DEF Shaped
<1>11. UNCHANGED <<facts, system, resume, report, lost, phase>>
       BY DEF HandoffSends, chain, script, reports, faults
<1>12. t.other \notin {"throw", "keep"}
       BY <1>6
<1>13. QED BY <1>1, <1>9, <1>10, <1>11, <1>12 DEF Sends

\* A pending transaction was pending or is sent.
LEMMA PendingFrom ==
    ASSUME TypeInv, RecordInv, ScriptInv, [Next]_vars, NEW t \in Pending', t \notin Pending
    PROVE  Sends(t)
<1>1. t \in ToSet(mempool') /\ t.do = "write" /\ t \notin ToSet(mempool)
      BY DEF Pending
<1>2. CASE HandoffSends /\ t = Execution(Executions[handoff])
      BY <1>2, HandoffSendsFact
<1>3. CASE WriteStep /\ t = WriteSent
  <2>1. ~Satisfied(FactOf(Here, system))
        BY <1>1, <1>3 DEF WriteStep, reports
  <2>2. QED BY <1>3, <2>1, StepSends
<1>4. QED BY <1>1, <1>2, <1>3, PendingGrows

\* How the three maps of the script change.
Attaches(n) ==
    /\ AtStep("deploy") /\ n \in Nat \ {0} /\ system' = [system EXCEPT ![Here.key] = n]
    /\ report' = system' /\ resume' = resume /\ mempool' = mempool /\ facts' = facts
MapsKept == {system', resume', report'} \subseteq {None, system, resume, report}

LEMMA MapsStep ==
    ASSUME TypeInv, ScriptInv, [Next]_vars
    PROVE  \/ MapsKept
           \/ AttachResumed /\ Attaches(resume[Here.key])
           \/ Deployed /\ Attaches(awaiting)
<1>1. CASE Run
      BY <1>1 DEF Run, MapsKept, reports
<1>2. CASE AttachResumed
      BY <1>2, DeployHere DEF AttachResumed, Attach, Publish, Attaches, TypeInv, chain
<1>3. CASE Deployed
      BY <1>3 DEF Deployed, Attach, Publish, Attaches, TypeInv, chain
<1>4. CASE WriteThrows \/ Interrupted
      BY <1>4 DEF WriteThrows, Interrupted, Ends, MapsKept, reports
<1>5. CASE Complete
      BY <1>5 DEF Complete, Publish, Ends, MapsKept
<1>6. CASE UNCHANGED <<system, resume, report>>
      BY <1>6 DEF MapsKept
<1>7. \/ Run \/ AttachResumed \/ Deployed \/ WriteThrows \/ Interrupted
      \/ Complete \/ UNCHANGED <<system, resume, report>>
      BY DEF Next, vars, script, reports, ScriptStep, SendDeployment, WriteStep, Mine,
         MineDeployment, MineWrite, PendingLost, HandoffStep,
         HandoffStarts, HandoffSends, HandoffReceipt, HandoffStops, Govern, SetExecutor,
         TransferOwnership, SetApprovedSource
<1>8. QED BY <1>1, <1>2, <1>3, <1>4, <1>5, <1>6, <1>7

\* What the chain mines was pending, and is stored or not.
LEMMA FactsFrom ==
    ASSUME TypeInv, [Next]_vars
    PROVE  \/ facts' = facts
           \/ MineWrite /\ \E tx \in Pending :
                tx = Head(mempool) /\ facts' = Stored(tx) /\ facts' \subseteq facts \union {tx.fact}
           \/ Govern /\ \E n \in Nat \ {0}, name \in SourceNames :
                facts' = facts \union {Source(n, name)}
           \/ Govern /\ revoked' /\ \E n \in Nat, name \in SourceNames : facts' = facts \ {Source(n, name)}
<1>1. CASE MineWrite
  <2>1. PICK tx : tx = Head(mempool)
        OBVIOUS
  <2>2. tx \in Pending /\ facts' = Stored(tx)
        BY <1>1, <2>1, Mined DEF MineWrite, TypeInv, Pending
  <2>3. Stored(tx) \subseteq facts \union {tx.fact}
        BY DEF Stored
  <2>4. QED BY <1>1, <2>1, <2>2, <2>3
<1>2. CASE Govern
  <2>1. "receiver" \in Keys
        BY SinkKeys
  <2>2. \A known \in {report, final} : known["receiver"] \in Nat
        BY <2>1 DEF TypeInv
  <2>3. QED BY <1>2, <2>2, GovernFacts
<1>3. CASE ~MineWrite /\ ~Govern
      BY <1>3, OnlyMineStores
<1>4. QED BY <1>1, <1>2, <1>3

LEMMA PendingTyped ==
    ASSUME TypeInv, NEW t \in Pending
    PROVE  t \in WriteTx /\ t.fact \in Fact /\ t.other \in Others \union {"revoke"}
<1>1. t \in ToSet(mempool) /\ t.do = "write"
      BY DEF Pending
<1>2. t \in Tx
      BY <1>1 DEF TypeInv, ToSet
<1>3. QED BY <1>1, <1>2 DEF Tx, WriteTx

\* Shapes.
LEMMA ShapeStep ==
    ASSUME TypeInv, RecordInv, ScriptInv, PendingInv, FactShape, [Next]_vars
    PROVE  /\ \A f \in facts' : Numbered(f) /\ \E s \in Wiring : Fits(f, s)
           /\ \A t \in Pending' : Shaped(t)
<1>1. \A t \in Pending' : Shaped(t)
      BY PendingFrom DEF PendingInv, Sends
<1>2. CASE facts' = facts
      BY <1>1, <1>2 DEF PendingInv, FactShape
<1>3. CASE \E tx \in Pending : facts' \subseteq facts \union {tx.fact}
  <2>1. PICK tx \in Pending : facts' \subseteq facts \union {tx.fact}
        BY <1>3
  <2>2. Shaped(tx)
        BY DEF PendingInv
  <2>3. Numbered(tx.fact) /\ \E s \in Wiring : Fits(tx.fact, s)
        BY <2>2 DEF Shaped
  <2>4. QED BY <1>1, <2>1, <2>3 DEF PendingInv, FactShape
<1>4. CASE \E n \in Nat \ {0}, name \in SourceNames : facts' = facts \union {Source(n, name)}
  <2>1. PICK n \in Nat \ {0}, name \in SourceNames : facts' = facts \union {Source(n, name)}
        BY <1>4
  <2>2. Numbered(Source(n, name)) /\ \E s \in Wiring : Fits(Source(n, name), s)
        BY SourceShape
  <2>3. QED BY <1>1, <2>1, <2>2 DEF PendingInv, FactShape
<1>5. CASE facts' \subseteq facts
      BY <1>1, <1>5 DEF PendingInv, FactShape
<1>6. QED BY <1>2, <1>3, <1>4, <1>5, FactsFrom

\* The numbers of what is pending agree with the maps of the script.
LEMMA AgreeStep ==
    ASSUME TypeInv, TypeInv', RecordInv, ScriptInv, AwaitInv, PendingInv, [Next]_vars, NEW t \in Pending'
    PROVE  Agrees(t.fact, system') /\ Agrees(t.fact, resume') /\ Agrees(t.fact, report')
<1>1. PICK f : f = t.fact
      OBVIOUS
<1>2. f \in Fact
  <2>1. t \in ToSet(mempool') /\ t.do = "write"
        BY DEF Pending
  <2>2. t \in Tx
        BY <2>1 DEF TypeInv, ToSet
  <2>3. QED BY <1>1, <2>1, <2>2 DEF Tx, WriteTx
<1>3. f.of[1] \in Keys /\ DOMAIN f.to \in SUBSET Keys
      BY <1>2, FactParts
<1>4. CASE t \notin Pending
  <2>1. Sends(t)
        BY <1>4, PendingFrom
  <2>2. Numbered(f) /\ (OfScript(f) \/ OfReceiver(f))
        BY <1>1, <2>1 DEF Sends, Shaped
  <2>3. system' = system /\ resume' = resume /\ report' = report
        BY <2>1 DEF Sends
  <2>4. CASE OfScript(f)
    <3>1. Agrees(f, system) /\ report = system
          BY <2>4 DEF OfScript, OfSystem, Agrees
    <3>2. Agrees(f, resume)
          BY <1>3, <2>2, <2>4 DEF OfScript, OfSystem, Numbered, Agrees
    <3>3. QED BY <1>1, <2>3, <3>1, <3>2
  <2>5. CASE OfReceiver(f)
        BY <1>1, <2>5 DEF OfReceiver, Agrees
  <2>6. QED BY <2>2, <2>4, <2>5
<1>5. CASE t \in Pending
  <2>1. Agrees(f, system) /\ Agrees(f, resume) /\ Agrees(f, report)
        BY <1>1, <1>5 DEF PendingInv
  <2>2. Agrees(f, None)
        BY <1>3, FullNone DEF Agrees
  <2>3. CASE MapsKept
    <3>1. \A sys \in {None, system, resume, report} : Agrees(f, sys)
          BY <2>1, <2>2
    <3>2. {system', resume', report'} \subseteq {None, system, resume, report}
          BY <2>3 DEF MapsKept
    <3>3. QED BY <1>1, <3>1, <3>2
  <2>4. CASE AttachResumed /\ Attaches(resume[Here.key])
    <3>1. PICK k0 \in Keys : k0 = Here.key
          BY <2>4, DeployHere DEF Attaches
    <3>2. system' = [system EXCEPT ![k0] = resume[k0]] /\ report' = system' /\ resume' = resume
          BY <2>4, <3>1 DEF Attaches
    <3>3. \A k \in Keys : system'[k] \in {system[k], resume[k]}
          BY <3>1, <3>2 DEF TypeInv
    <3>4. Agrees(f, system')
      <4> SUFFICES ASSUME DOMAIN f.to # {}
                   PROVE  system'[f.of[1]] \in {0, f.of[2]} /\ \A k \in DOMAIN f.to : system'[k] \in {0, f.to[k]}
          BY DEF Agrees
      <4>1. system'[f.of[1]] \in {0, f.of[2]}
            BY <1>3, <2>1, <3>3 DEF Agrees
      <4>2. ASSUME NEW k \in DOMAIN f.to PROVE system'[k] \in {0, f.to[k]}
            BY <1>3, <2>1, <3>3 DEF Agrees
      <4>3. QED BY <4>1, <4>2
    <3>5. QED BY <1>1, <2>1, <3>2, <3>4
  <2>5. CASE Deployed
    <3>1. mempool = <<>>
          BY <2>5, DeployedLast
    <3>2. QED BY <1>5, <3>1 DEF Pending, ToSet
  <2>6. QED BY <2>3, <2>4, <2>5, MapsStep
<1>6. QED BY <1>4, <1>5

\* One fact for a slot.
LEMMA SlotStep ==
    ASSUME TypeInv, TypeInv', RecordInv, ScriptInv, PendingInv, [Next]_vars,
           NEW t \in Pending', NEW u \in Pending', SameSlot(t.fact, u.fact), t.other # "add"
    PROVE  t.fact = u.fact
<1> DEFINE Told(f) == OfSystem(f, system) \/ DOMAIN f.to = {}
<1>1. t.fact \in Fact /\ u.fact \in Fact
  <2>1. ASSUME NEW w \in Pending' PROVE w.fact \in Fact
    <3>1. w \in ToSet(mempool') /\ w.do = "write"
          BY DEF Pending
    <3>2. w \in Tx
          BY <3>1 DEF TypeInv, ToSet
    <3>3. QED BY <3>1, <3>2 DEF Tx, WriteTx
  <2>2. QED BY <2>1
<1>2. CASE t \in Pending /\ u \in Pending
      BY <1>2 DEF PendingInv
<1>3. ASSUME t \notin Pending \/ u \notin Pending
      PROVE  /\ Shaped(t) /\ Agrees(t.fact, system) /\ (t \notin Pending => Told(t.fact))
             /\ Shaped(u) /\ Agrees(u.fact, system) /\ (u \notin Pending => Told(u.fact))
  <2>1. ASSUME NEW w \in Pending'
        PROVE  Shaped(w) /\ Agrees(w.fact, system) /\ (w \notin Pending => Told(w.fact))
    <3>1. CASE w \in Pending
          BY <3>1 DEF PendingInv
    <3>2. CASE w \notin Pending
      <4>1. Shaped(w) /\ Told(w.fact)
            BY <3>2, PendingFrom DEF Sends, OfScript, OfReceiver
      <4>2. QED BY <3>2, <4>1 DEF OfSystem, Agrees
    <3>3. QED BY <3>1, <3>2
  <2>2. QED BY <2>1
<1>4. CASE t \notin Pending \/ u \notin Pending
  <2>1. PICK s \in Wiring : Fits(t.fact, s) /\ s.other # "add"
        BY <1>3, <1>4 DEF Shaped
  <2>2. PICK v \in Wiring : Fits(u.fact, v)
        BY <1>3, <1>4 DEF Shaped
  <2>3. Numbered(t.fact) /\ Numbered(u.fact)
        BY <1>3, <1>4 DEF Shaped
  <2>4. SameSlot(u.fact, t.fact)
        BY DEF SameSlot
  <2>5. CASE t \notin Pending
    <3>1. Told(t.fact) /\ Agrees(u.fact, system)
          BY <1>3, <2>5
    <3>2. QED BY <1>1, <2>1, <2>2, <2>3, <3>1, SlotTold
  <2>6. CASE u \notin Pending
    <3>1. Told(u.fact) /\ Agrees(t.fact, system)
          BY <1>3, <2>6
    <3>2. u.fact = t.fact
          BY <1>1, <2>1, <2>2, <2>3, <2>4, <3>1, SlotTold
    <3>3. QED BY <3>2
  <2>7. QED BY <1>4, <2>5, <2>6
<1>5. QED BY <1>2, <1>4

\* A slot that is written once holds nothing else.
LEMMA OnceStep ==
    ASSUME TypeInv, RecordInv, ScriptInv, PendingInv, [Next]_vars,
           NEW t \in Pending', t.other \in {"throw", "keep"}, NEW f \in facts', SameSlot(f, t.fact)
    PROVE  f = t.fact
<1>1. CASE t \notin Pending
  <2>1. Sends(t)
        BY <1>1, PendingFrom
  <2>2. QED BY <2>1 DEF Sends, InSlot, SameSlot
<1>2. CASE t \in Pending
  <2>1. CASE f \in facts
        BY <1>2, <2>1 DEF PendingInv, InSlot, SameSlot
  <2>2. CASE f \notin facts
    <3>1. CASE \E tx \in Pending : f = tx.fact
      <4>1. PICK tx \in Pending : f = tx.fact
            BY <3>1
      <4>2. SameSlot(t.fact, tx.fact)
            BY <4>1 DEF SameSlot
      <4>3. QED BY <1>2, <4>1, <4>2 DEF PendingInv
    <3>2. CASE \E n \in Nat \ {0}, name \in SourceNames : f = Source(n, name)
      <4>1. PICK n \in Nat \ {0}, name \in SourceNames : f = Source(n, name)
            BY <3>2
      <4>2. PICK w \in Wiring : w = Write("receiver", name, {}, "overwrite") /\ Fits(f, w)
            BY <4>1, SourceShape
      <4>3. w.other = "overwrite"
            BY <4>2 DEF Write
      <4>4. PICK s \in Wiring : Fits(t.fact, s) /\ t.other = s.other
            BY <1>2 DEF PendingInv, Shaped
      <4>5. s.of = w.of /\ s.slot = w.slot
            BY <4>2, <4>4 DEF Fits, SameSlot
      <4>6. s = w
            BY <4>3, <4>5, SlotsDiffer
      <4>7. QED BY <4>3, <4>4, <4>6
    <3>3. QED BY <2>2, <3>1, <3>2, FactsFrom
  <2>3. QED BY <2>1, <2>2
<1>3. QED BY <1>1, <1>2

LEMMA PendingStep ==
    ASSUME TypeInv, TypeInv', RecordInv, ScriptInv, AwaitInv, PendingInv, FactShape, [Next]_vars
    PROVE  PendingInv' /\ FactShape'
<1>1. /\ \A f \in facts' : Numbered(f) /\ \E s \in Wiring : Fits(f, s)
      /\ \A t \in Pending' : Shaped(t)
      BY ShapeStep
<1>2. \A t \in Pending' : Agrees(t.fact, system') /\ Agrees(t.fact, resume') /\ Agrees(t.fact, report')
      BY AgreeStep
<1>3. \A t \in Pending' : \A u \in Pending' :
         SameSlot(t.fact, u.fact) /\ t.other # "add" => t.fact = u.fact
      BY SlotStep
<1>4. \A t \in Pending' : t.other \in {"throw", "keep"} => InSlot(t.fact)' \subseteq {t.fact}
  <2> SUFFICES ASSUME NEW t \in Pending', t.other \in {"throw", "keep"}, NEW f \in facts',
                      f.of = t.fact.of, f.slot = t.fact.slot
               PROVE  f = t.fact
      BY DEF InSlot
  <2>1. QED BY OnceStep DEF SameSlot
<1>5. QED BY <1>1, <1>2, <1>3, <1>4 DEF PendingInv, FactShape, Numbered, Shaped, Agrees, Fits,
   SameSlot
-----------------------------------------------------------------------------
(* The observer the script knows was initialised with contracts it knows.    *)

\* An observer is initialised with the contracts of the system it belongs to.
Lineage(f, sys) ==
    f.of[1] = "observer" /\ sys["observer"] = f.of[2] => \A k \in DOMAIN f.to : f.to[k] = sys[k]
LineageInv == \A f \in Held : Lineage(f, system) /\ Lineage(f, resume) /\ Lineage(f, report)

LEMMA HeldTyped ==
    ASSUME TypeInv, RecordInv, PendingInv, NEW f \in Held
    PROVE  f \in Fact /\ Numbered(f) /\ f.of \in recorded
<1>1. CASE f \in facts
      BY <1>1 DEF TypeInv, RecordInv, PendingInv, Known
<1>2. CASE f \notin facts
  <2>1. PICK t \in Pending : f = t.fact
        BY <1>2 DEF Held
  <2>2. f \in Fact /\ Shaped(t)
        BY <2>1, PendingTyped DEF PendingInv
  <2>3. Known(f)
        BY <2>1 DEF RecordInv, Pending
  <2>4. QED BY <2>1, <2>2, <2>3 DEF Known, Shaped
<1>3. QED BY <1>1, <1>2

\* Every fact held was held, is sent, or is approved by governance.
LEMMA HeldFrom ==
    ASSUME TypeInv, RecordInv, ScriptInv, [Next]_vars, NEW f \in Held', f \notin Held
    PROVE  (\E t \in Pending' : f = t.fact /\ Sends(t)) \/ f.of[1] = "receiver"
<1>1. CASE f \in facts'
  <2>1. CASE \E tx \in Pending : facts' \subseteq facts \union {tx.fact}
        BY <1>1, <2>1 DEF Held
  <2>2. CASE \E n \in Nat \ {0}, name \in SourceNames : facts' = facts \union {Source(n, name)}
    <3>1. PICK n \in Nat \ {0}, name \in SourceNames : f = Source(n, name)
          BY <1>1, <2>2 DEF Held
    <3>2. QED BY <3>1, SourceShape
  <2>3. CASE facts' \subseteq facts
        BY <1>1, <2>3 DEF Held
  <2>4. QED BY <2>1, <2>2, <2>3, FactsFrom
<1>2. CASE f \notin facts'
  <2>1. PICK t \in Pending' : f = t.fact
        BY <1>2 DEF Held
  <2>2. t \notin Pending
        BY <2>1 DEF Held
  <2>3. QED BY <2>1, <2>2, PendingFrom
<1>3. QED BY <1>1, <1>2

LEMMA LineageAttach ==
    ASSUME TypeInv, RecordInv, ScriptInv, AwaitInv, PendingInv, LineageInv, NEW f \in Held,
           NEW n, Attaches(n),
           (AttachResumed /\ n = resume[Here.key]) \/ (Deployed /\ n = awaiting)
    PROVE  Lineage(f, system')
<1>1. /\ f \in Fact /\ Numbered(f) /\ f.of \in recorded
      /\ f.of = <<f.of[1], f.of[2]>> /\ DOMAIN f.to \in SUBSET Keys /\ f.of[2] # 0
      BY HeldTyped, FactParts DEF Numbered
<1>2. Here.key \in Keys /\ system[Here.key] = 0 /\ AtStep("deploy") /\ Here = Deploy(Here.key)
      BY DeployHereNew DEF Attaches
<1>3. system' = [system EXCEPT ![Here.key] = n] /\ n \in Nat \ {0}
      BY DEF Attaches
<1> SUFFICES ASSUME f.of[1] = "observer", system'["observer"] = f.of[2], NEW k \in DOMAIN f.to
             PROVE  f.to[k] = system'[k]
    BY DEF Lineage
<1>4. Here.key = "observer"
  <2>1. SUFFICES ASSUME Here.key # "observer" PROVE FALSE
        OBVIOUS
  <2>2. system["observer"] # 0
        BY <1>1, <1>3, <2>1, SinkKeys DEF TypeInv
  <2>3. QED BY <1>2, <2>2 DEF ScriptInv, Full
<1>5. f.of = <<"observer", n>>
      BY <1>1, <1>3, <1>4, SinkKeys DEF TypeInv
<1>6. CASE Deployed /\ n = awaiting
      BY <1>1, <1>4, <1>5, <1>6, DeployedLast
<1>7. CASE AttachResumed /\ n = resume[Here.key]
  <2>1. Lineage(f, resume)
        BY DEF LineageInv
  <2>2. f.to[k] = resume[k]
        BY <1>1, <1>4, <1>5, <1>7, <2>1 DEF Lineage
  <2>3. CASE k = "observer"
        BY <1>3, <1>4, <1>7, <2>2, <2>3, SinkKeys DEF TypeInv
  <2>4. CASE k # "observer"
    <3>1. k \in Keys /\ resume[k] # 0
          BY <1>1, <1>3, <1>4, <1>7 DEF ScriptInv, Full
    <3>2. step \in DOMAIN Steps /\ Steps[step] = Deploy("observer") /\ phase = "running"
          BY <1>2, <1>4, HereTyped DEF AtStep
    <3>3. Before(k, step)
          BY <2>4, <3>1, <3>2, ObserverLast DEF Before
    <3>4. system[k] = resume[k]
          BY <3>1, <3>2, <3>3 DEF ScriptInv
    <3>5. system'[k] = system[k]
          BY <1>3, <1>4, <2>4, <3>1 DEF TypeInv
    <3>6. QED BY <2>2, <3>4, <3>5
  <2>5. QED BY <2>3, <2>4
<1>8. QED BY <1>6, <1>7

LEMMA LineageStep ==
    ASSUME TypeInv, TypeInv', RecordInv, ScriptInv, AwaitInv, PendingInv, LineageInv, [Next]_vars
    PROVE  LineageInv'
<1> SUFFICES ASSUME NEW f \in Held'
             PROVE  Lineage(f, system') /\ Lineage(f, resume') /\ Lineage(f, report')
    BY DEF LineageInv, Lineage
<1>1. CASE f \notin Held /\ f.of[1] # "receiver"
  <2>1. PICK t \in Pending' : f = t.fact /\ Sends(t)
        BY <1>1, HeldFrom
  <2>2. /\ Numbered(f) /\ OfSystem(f, system) /\ OfScript(f)
        /\ system' = system /\ resume' = resume /\ report' = system
        BY <1>1, <2>1 DEF Sends, Shaped, OfReceiver, OfScript
  <2>3. f \in Fact
    <3>1. t \in ToSet(mempool') /\ t.do = "write"
          BY <2>1 DEF Pending
    <3>2. t \in Tx
          BY <3>1 DEF TypeInv, ToSet
    <3>3. QED BY <2>1, <3>1, <3>2 DEF Tx, WriteTx
  <2>4. DOMAIN f.to \in SUBSET Keys
        BY <2>3, FactParts
  <2>5. Lineage(f, system)
        BY <2>2 DEF Lineage, OfSystem
  <2>6. Lineage(f, resume)
    <3> SUFFICES ASSUME f.of[1] = "observer", resume["observer"] = f.of[2], NEW k \in DOMAIN f.to
                 PROVE  f.to[k] = resume[k]
        BY DEF Lineage
    <3>1. resume["observer"] # 0
          BY <2>2 DEF Numbered
    <3>2. resume[k] # 0 /\ k \in Keys
          BY <2>4, <3>1 DEF ScriptInv, Full
    <3>3. system[k] # 0 /\ f.to[k] = system[k]
          BY <2>2 DEF Numbered, OfSystem
    <3>4. QED BY <2>2, <3>2, <3>3 DEF OfScript
  <2>7. QED BY <2>2, <2>5, <2>6
<1>2. CASE f \in Held
  <2>1. Lineage(f, system) /\ Lineage(f, resume) /\ Lineage(f, report)
        BY <1>2 DEF LineageInv
  <2>2. Lineage(f, None)
        BY <1>2, HeldTyped, FullNone, SinkKeys DEF Lineage, Numbered
  <2>3. CASE MapsKept
    <3>1. \A sys \in {None, system, resume, report} : Lineage(f, sys)
          BY <2>1, <2>2
    <3>2. {system', resume', report'} \subseteq {None, system, resume, report}
          BY <2>3 DEF MapsKept
    <3>3. QED BY <3>1, <3>2
  <2>4. CASE AttachResumed /\ Attaches(resume[Here.key])
    <3>1. Lineage(f, system')
          BY <1>2, <2>4, LineageAttach
    <3>2. report' = system' /\ resume' = resume
          BY <2>4 DEF Attaches
    <3>3. QED BY <2>1, <3>1, <3>2
  <2>5. CASE Deployed /\ Attaches(awaiting)
    <3>1. Lineage(f, system')
          BY <1>2, <2>5, LineageAttach
    <3>2. report' = system' /\ resume' = resume
          BY <2>5 DEF Attaches
    <3>3. QED BY <2>1, <3>1, <3>2
  <2>6. QED BY <2>3, <2>4, <2>5, MapsStep
<1>3. CASE f.of[1] = "receiver"
      BY <1>3 DEF Lineage
<1>4. QED BY <1>1, <1>2, <1>3
-----------------------------------------------------------------------------
(* What a run has written is stored or pending, until the node loses it.     *)

Due(i) == Steps[i].do = "write" /\ ~(BootstrapMayGo /\ Steps[i].slot = Bootstrap)
Reached(i) == phase = "complete" \/ (phase = "running" /\ i < step)
SettledInv ==
    ~lost => \A i \in DOMAIN Steps : Reached(i) /\ Due(i) => FactOf(Steps[i], system) \in Held

\* What governance has revoked stays so.
LEMMA RevokedStays ==
    ASSUME [Next]_vars, revoked
    PROVE  revoked'
BY DEF Next, vars, faults, Run, ScriptStep, AttachResumed, SendDeployment, Deployed, WriteStep,
       WriteThrows, Complete, Interrupted, Mine, MineDeployment, MineWrite, PendingLost,
       HandoffStep,
       HandoffStarts, HandoffSends, HandoffReceipt, HandoffStops, Govern, SetExecutor,
       TransferOwnership, SetApprovedSource

\* The only source the script is due to approve is the bootstrap source.
LEMMA DueSource ==
    ASSUME TypeInv, ScriptInv, phase = "running" \/ phase = "complete",
           NEW i \in DOMAIN Steps, phase = "running" => i <= step, Steps[i].do = "write",
           NEW w \in Wiring, w.of = "receiver", w.slot \in SourceNames,
           FactOf(Steps[i], system).of[1] = w.of, FactOf(Steps[i], system).slot = w.slot
    PROVE  w.slot = Bootstrap /\ Steps[i].slot = Bootstrap
<1>1. Steps[i] \in Wiring /\ Fits(FactOf(Steps[i], system), Steps[i]) /\ Scripted(Steps[i])
      BY StepUses, StepAt
<1>2. Steps[i].of = w.of /\ Steps[i].slot = w.slot
      BY <1>1 DEF Fits
<1>3. PICK v \in Wiring : v = Write("receiver", w.slot, {}, "overwrite")
      BY SourceShape
<1>4. v.of = w.of /\ v.slot = w.slot /\ v.other = "overwrite" /\ v.to = {}
      BY <1>3 DEF Write
<1>5. Steps[i] = v
      BY <1>1, <1>2, <1>4, SlotsDiffer
<1>6. QED BY <1>1, <1>2, <1>4, <1>5 DEF Scripted

\* What is stored of a pending transaction that the chain mines.
LEMMA MinedStored ==
    ASSUME PendingInv, NEW tx \in Pending, tx.other # "revoke", ~Refused(tx)
    PROVE  tx.fact \in Stored(tx)
<1>1. CASE tx.other \in {"throw", "keep"} /\ InSlot(tx.fact) # {}
  <2>1. PICK f : f \in InSlot(tx.fact)
        BY <1>1
  <2>2. f = tx.fact /\ f \in facts
        BY <1>1, <2>1 DEF PendingInv, InSlot
  <2>3. QED BY <1>1, <2>2 DEF Stored
<1>2. CASE ~(tx.other \in {"throw", "keep"} /\ InSlot(tx.fact) # {})
      BY <1>2 DEF Stored
<1>3. QED BY <1>1, <1>2

\* A step that was due stays settled, whatever is mined.
LEMMA MineSettles ==
    ASSUME TypeInv, ScriptInv, PendingInv, FactShape, Mine, ~lost',
           phase = "running" \/ phase = "complete",
           NEW i \in DOMAIN Steps, phase = "running" => i <= step, Due(i), FactOf(Steps[i], system) \in Held
    PROVE  FactOf(Steps[i], system) \in Held'
<1> DEFINE F == FactOf(Steps[i], system)
<1>1. /\ Steps[i] \in Wiring /\ F \in Fact /\ Numbered(F) /\ OfSystem(F, system) /\ Fits(F, Steps[i])
      BY StepUses DEF Due
<1>2. F.slot = Steps[i].slot
      BY <1>1 DEF Fits
<1> HIDE DEF F
<1>3. PICK tx : tx = Head(mempool)
      OBVIOUS
<1>4. /\ mempool \in Seq(Tx) /\ mempool # <<>> /\ mempool' = Tail(mempool)
      /\ tx \in Tx /\ tx \in ToSet(mempool)
      BY <1>3, Mined DEF Mine, MineDeployment, MineWrite, TypeInv
<1>5. \A t \in Pending : t = tx \/ t \in Pending'
  <2>1. Len(mempool) \in Nat \ {0} /\ DOMAIN mempool = 1 .. Len(mempool) /\ Head(mempool) = mempool[1]
        BY <1>4, SMT
  <2>2. DOMAIN Tail(mempool) = 1 .. Len(mempool) - 1
        /\ \A j \in 2 .. Len(mempool) : j - 1 \in DOMAIN Tail(mempool) /\ Tail(mempool)[j - 1] = mempool[j]
        BY <1>4, <2>1
  <2>3. ASSUME NEW t \in ToSet(mempool) PROVE t = tx \/ t \in ToSet(Tail(mempool))
    <3>1. PICK j \in DOMAIN mempool : mempool[j] = t
          BY DEF ToSet
    <3>2. CASE j = 1
          BY <1>3, <2>1, <3>1, <3>2
    <3>3. CASE j # 1
      <4>1. j \in 2 .. Len(mempool)
            BY <2>1, <3>3
      <4>2. j - 1 \in DOMAIN Tail(mempool) /\ Tail(mempool)[j - 1] = t
            BY <2>2, <3>1, <4>1
      <4>3. QED BY <4>2 DEF ToSet
    <3>4. QED BY <3>2, <3>3
  <2>4. QED BY <1>4, <2>3 DEF Pending
<1>6. CASE tx.do = "deploy"
  <2>1. facts' = facts
        BY <1>3, <1>6 DEF Mine, MineDeployment, MineWrite
  <2>2. tx \notin Pending
        BY <1>6 DEF Pending
  <2>3. F \in Held
        BY DEF F
  <2>4. F \in Held'
        BY <1>5, <2>1, <2>2, <2>3 DEF Held
  <2>5. QED BY <2>4 DEF F
<1>7. CASE tx.do # "deploy"
  <2>1. tx \in Pending /\ facts' = Stored(tx)
        BY <1>3, <1>4, <1>7 DEF Mine, MineDeployment, MineWrite, Pending, Tx, WriteTx
  <2>2. Shaped(tx) /\ tx.fact \in Fact /\ Agrees(tx.fact, system)
        BY <2>1, PendingTyped DEF PendingInv
  <2>3. PICK s \in Wiring :
          /\ Fits(tx.fact, s)
          /\ tx.other = s.other \/ (tx.other = "revoke" /\ s.of = "receiver" /\ s.slot \in Withdrawn)
        BY <2>2 DEF Shaped
  <2>4. tx.other = "revoke" => tx.fact # F
    <3>1. SUFFICES ASSUME tx.other = "revoke", tx.fact = F PROVE FALSE
          OBVIOUS
    <3>2. \A w \in Wiring : w.other # "revoke"
          BY DEF Wiring, Register, RegisterSink, SetRouter, Write
    <3>3. s.of = "receiver" /\ s.slot \in Withdrawn
          BY <2>3, <3>1, <3>2
    <3>4. F.of[1] = s.of /\ F.slot = s.slot
          BY <2>3, <3>1 DEF Fits
    <3>5. s.slot = Bootstrap /\ Steps[i].slot = Bootstrap
          BY <3>3, <3>4, WithdrawnNames, DueSource DEF Due, F
    <3>6. QED BY <3>3, <3>5 DEF Due, BootstrapMayGo
  <2>5. tx.fact = F => F \in facts'
    <3>1. ~Refused(tx)
          BY <1>3, <1>7 DEF Mine, MineDeployment, MineWrite
    <3>2. QED BY <2>1, <2>4, <3>1, MinedStored
  <2>6. F \in facts => F \in facts'
    <3>1. SUFFICES ASSUME F \in facts, F \notin facts' PROVE FALSE
          OBVIOUS
    <3>2. tx.other = "overwrite" /\ SameSlot(F, tx.fact) /\ tx.fact # F
          BY <2>1, <2>4, <2>5, <3>1 DEF Stored, InSlot, SameSlot
    <3>3. s.other # "add"
          BY <2>3, <3>2
    <3>4. F = tx.fact
          BY <1>1, <2>2, <2>3, <3>2, <3>3, SlotTold
    <3>5. QED BY <3>2, <3>4
  <2>7. F \in Held
        BY DEF F
  <2>8. F \in Held'
        BY <1>5, <2>5, <2>6, <2>7 DEF Held
  <2>9. QED BY <2>8 DEF F
<1>8. QED BY <1>6, <1>7

LEMMA HeldGrows ==
    ASSUME TypeInv, [Next]_vars, ~Mine, ~PendingLost
    PROVE  /\ Pending \subseteq Pending'
           /\ ~Govern => Held \subseteq Held'
<1>1. mempool' = mempool \/ \E tx : Send(tx)
      BY DEF Next, vars, Run, ScriptStep, AttachResumed, SendDeployment, Deployed, WriteStep,
         Written,
         WriteThrows, Complete, Interrupted, HandoffStep, HandoffStarts, HandoffSends,
         HandoffReceipt, HandoffStops, Govern, SetExecutor, TransferOwnership, SetApprovedSource,
         reports
<1>2. ASSUME NEW tx, Send(tx)
      PROVE  ToSet(mempool) \subseteq ToSet(mempool')
  <2>1. mempool' = Append(mempool, tx) /\ mempool \in Seq(Tx)
        BY <1>2 DEF Send, TypeInv
  <2>2. \A j \in DOMAIN mempool : j \in DOMAIN mempool' /\ mempool'[j] = mempool[j]
        BY <2>1
  <2>3. QED BY <2>2 DEF ToSet
<1>3. ToSet(mempool) \subseteq ToSet(mempool')
      BY <1>1, <1>2
<1>4. ~Govern => facts' = facts
      BY OnlyMineStores DEF Mine
<1>5. QED BY <1>3, <1>4 DEF Held, Pending

\* What is due stays settled when governance approves and revokes sources.
LEMMA GovernSettles ==
    ASSUME TypeInv, ScriptInv, Govern, phase = "running" \/ phase = "complete",
           NEW i \in DOMAIN Steps, phase = "running" => i <= step, Due(i)', FactOf(Steps[i], system) \in Held
    PROVE  FactOf(Steps[i], system) \in Held'
<1> DEFINE F == FactOf(Steps[i], system)
<1>1. [Next]_vars /\ ~Mine /\ ~PendingLost
  <2>1. mempool' = mempool
        BY DEF Govern
  <2>2. mempool \in Seq(Tx)
        BY DEF TypeInv
  <2>3. mempool # <<>> => Tail(mempool) # mempool
    <3>1. mempool # <<>> => Len(Tail(mempool)) # Len(mempool)
          BY <2>2
    <3>2. QED BY <3>1
  <2>4. QED BY <2>1, <2>3 DEF Next, Mine, MineDeployment, MineWrite, PendingLost
<1>2. Pending \subseteq Pending'
      BY <1>1, HeldGrows
<1> HIDE DEF F
<1>3. CASE facts \subseteq facts'
  <2>1. F \in Held'
        BY <1>2, <1>3 DEF Held, F
  <2>2. QED BY <2>1 DEF F
<1>4. CASE revoked' /\ \E n \in Nat, name \in SourceNames : facts' = facts \ {Source(n, name)}
  <2>1. PICK n \in Nat, name \in SourceNames : facts' = facts \ {Source(n, name)}
        BY <1>4
  <2>2. F # Source(n, name)
    <3>1. SUFFICES ASSUME F = Source(n, name) PROVE FALSE
          OBVIOUS
    <3>2. PICK w \in Wiring : w = Write("receiver", name, {}, "overwrite")
          BY Zenon DEF Wiring
    <3>3. w.of = "receiver" /\ w.slot = name
          BY <3>2 DEF Write
    <3>4. F.of[1] = "receiver" /\ F.slot = name
          BY <3>1 DEF Source
    <3>5. Steps[i].slot = Bootstrap
          BY <3>3, <3>4, DueSource DEF Due, F
    <3>6. QED BY <1>4, <3>5 DEF Due, BootstrapMayGo
  <2>3. F \in Held'
        BY <1>2, <2>1, <2>2 DEF Held, F
  <2>4. QED BY <2>3 DEF F
<1>5. QED BY <1>1, <1>3, <1>4, FactsFrom DEF Mine

LEMMA SettledAttach ==
    ASSUME TypeInv, ScriptInv, NEW n, Attaches(n), NEW i \in DOMAIN Steps, i < step, Steps[i].do = "write"
    PROVE  FactOf(Steps[i], system') = FactOf(Steps[i], system)
<1>1. Here.key \in Keys /\ system[Here.key] = 0 /\ phase = "running"
      BY DeployHereNew DEF Attaches, AtStep
<1>2. /\ Steps[i].of \in Keys /\ Steps[i].to \in SUBSET Keys
      /\ system[Steps[i].of] # 0 /\ \A k \in Steps[i].to : system[k] # 0
  <2>1. i <= step
        BY StepsOrdered DEF TypeInv
  <2>2. QED BY <1>1, <2>1, StepUses
<1>3. system' = [system EXCEPT ![Here.key] = n]
      BY DEF Attaches
<1>4. system'[Steps[i].of] = system[Steps[i].of] /\ \A k \in Steps[i].to : system'[k] = system[k]
      BY <1>1, <1>2, <1>3 DEF TypeInv
<1>5. [k \in Steps[i].to |-> system'[k]] = [k \in Steps[i].to |-> system[k]]
      BY <1>4
<1>6. QED BY <1>4, <1>5 DEF FactOf

LEMMA WriteSettles ==
    ASSUME TypeInv, ScriptInv, PendingInv, FactShape, LineageInv, WriteStep
    PROVE  FactOf(Here, system) \in Held'
<1>1. phase = "running" /\ step \in DOMAIN Steps /\ Here = Steps[step] /\ Here.do = "write" /\ step \in Nat
      BY HereTyped DEF WriteStep, AtStep, TypeInv, reports
<1> DEFINE F == FactOf(Here, system)
<1>2. /\ Here \in Wiring /\ F \in Fact /\ Numbered(F) /\ OfSystem(F, system) /\ Fits(F, Here)
      BY <1>1, StepUses
<1>3. facts' = facts
      BY DEF WriteStep, chain, reports
<1>4. F.slot = Here.slot /\ F.of = <<Here.of, system[Here.of]>>
      BY DEF FactOf
<1> HIDE DEF F
<1>5. CASE Satisfied(F)
  <2>1. CASE F \in facts
        BY <1>3, <2>1 DEF Held, F
  <2>2. CASE Here.other = "keep" /\ InSlot(F) # {}
    <3>1. PICK g \in facts : SameSlot(F, g)
          BY <2>2 DEF InSlot, SameSlot
    <3>2. PICK s \in Wiring : Fits(g, s)
          BY DEF FactShape
    <3>3. g \in Fact /\ Lineage(g, system)
          BY DEF TypeInv, LineageInv, Held
    <3>4. Here.of = "observer"
          BY <1>2, <2>2 DEF Wiring, Register, RegisterSink, SetRouter, Write
    <3>5. g.of[1] = "observer" /\ system["observer"] = g.of[2]
          BY <1>4, <3>1, <3>4 DEF SameSlot
    <3>6. \A k \in DOMAIN g.to : g.to[k] = system[k]
          BY <3>3, <3>5 DEF Lineage
    <3>7. Agrees(g, system)
          BY <3>5, <3>6 DEF Agrees
    <3>8. F = g
          BY <1>2, <2>2, <3>1, <3>2, <3>3, <3>7, SlotTold
    <3>9. QED BY <1>3, <3>8 DEF Held, F
  <2>3. QED BY <1>5, <2>1, <2>2 DEF Satisfied
<1>6. CASE ~Satisfied(F)
  <2>1. Send(WriteSent)
        BY <1>6 DEF WriteStep, Written, WriteSent, F, reports
  <2>2. WriteSent \in Tx
        BY WriteSentTyped DEF WriteStep, Tx, reports
  <2>3. WriteSent \in ToSet(mempool')
        BY <2>1, <2>2, Sent DEF TypeInv
  <2>4. \E t \in Pending' : t.fact = F
        BY <2>3 DEF Pending, WriteSent, F
  <2>5. QED BY <2>4 DEF Held, F
<1>7. QED BY <1>5, <1>6

LEMMA SettledStep ==
    ASSUME TypeInv, ScriptInv, PendingInv, FactShape, LineageInv, SettledInv, [Next]_vars
    PROVE  SettledInv'
<1> SUFFICES ASSUME ~lost', NEW i \in DOMAIN Steps, Reached(i)', Due(i)'
             PROVE  FactOf(Steps[i], system') \in Held'
    BY DEF SettledInv, FactOf
<1>0. Due(i)
      BY RevokedStays DEF Due, BootstrapMayGo
<1>1. i \in Nat \ {0} /\ i <= Len(Steps) /\ Steps[i].do = "write" /\ step \in Nat /\ Len(Steps) \in Nat
      BY <1>0, StepsOrdered DEF Due, TypeInv
<1>2. (~lost /\ Reached(i)) => FactOf(Steps[i], system) \in Held
      BY <1>0 DEF SettledInv
<1>3. CASE Run \/ WriteThrows \/ Interrupted \/ PendingLost
      BY <1>1, <1>3 DEF Run, WriteThrows, Interrupted, PendingLost, Ends, Reached, reports
<1>4. CASE \E n : Attaches(n) /\ (AttachResumed \/ Deployed)
  <2>1. PICK n : Attaches(n) /\ (AttachResumed \/ Deployed)
        BY <1>4
  <2>2. /\ phase = "running" /\ phase' = phase /\ step' = step + 1 /\ lost' = lost
        /\ facts' = facts /\ mempool' = mempool
        BY <2>1 DEF AttachResumed, Deployed, Attach, AtStep, chain, faults
  <2>3. i # step
        BY <1>1, <2>1, HereTyped DEF Attaches
  <2>4. i < step
        BY <1>1, <2>2, <2>3 DEF Reached
  <2>5. FactOf(Steps[i], system) \in Held
        BY <1>2, <2>2, <2>4 DEF Reached
  <2>6. Held' = Held
        BY <2>2 DEF Held, Pending
  <2>7. QED BY <1>1, <2>1, <2>4, <2>5, <2>6, SettledAttach
<1>5. CASE Complete
  <2>1. /\ phase = "running" /\ step > Len(Steps) /\ lost' = lost /\ system' = system
        /\ facts' = facts /\ mempool' = mempool
        BY <1>5 DEF Complete, chain, faults
  <2>2. Reached(i)
        BY <1>1, <2>1 DEF Reached
  <2>3. Held' = Held
        BY <2>1 DEF Held, Pending
  <2>4. QED BY <1>2, <2>1, <2>2, <2>3
<1>6. CASE WriteStep
  <2>1. /\ phase = "running" /\ phase' = phase /\ step' = step + 1 /\ system' = system /\ lost' = lost
        /\ ~Mine /\ ~PendingLost /\ ~Govern
        BY <1>1, <1>6 DEF WriteStep, AtStep, faults, Mine, MineDeployment, MineWrite, PendingLost,
           Govern, script
  <2>2. CASE i = step
    <3>1. FactOf(Here, system) \in Held'
          BY <1>6, WriteSettles
    <3>2. QED BY <2>1, <2>2, <3>1 DEF Here
  <2>3. CASE i # step
    <3>1. Reached(i)
          BY <1>1, <2>1, <2>3 DEF Reached
    <3>2. Held \subseteq Held'
          BY <2>1, HeldGrows
    <3>3. QED BY <1>2, <2>1, <3>1, <3>2
  <2>4. QED BY <2>2, <2>3
<1>7. CASE Mine
  <2>1. UNCHANGED <<phase, step, system>> /\ ~lost
    <3>1. UNCHANGED <<phase, step, system>>
          BY <1>7 DEF Mine, MineDeployment, MineWrite, script
    <3>2. MineDeployment => ~lost
          BY DEF MineDeployment, faults
    <3>3. MineWrite => ~lost
          BY Zenon DEF MineWrite
    <3>4. QED BY <1>7, <3>1, <3>2, <3>3 DEF Mine
  <2>2. Reached(i)
        BY <2>1 DEF Reached
  <2>3. (phase = "running" \/ phase = "complete") /\ (phase = "running" => i <= step)
        BY <1>1, <2>2 DEF Reached
  <2>4. FactOf(Steps[i], system) \in Held'
        BY <1>0, <1>2, <1>7, <2>1, <2>2, <2>3, MineSettles
  <2>5. QED BY <2>1, <2>4
<1>8. CASE UNCHANGED <<phase, step, system, lost>> /\ ~Mine /\ ~PendingLost
  <2>1. Reached(i) /\ ~lost
        BY <1>8 DEF Reached
  <2>2. CASE Govern
    <3>1. (phase = "running" \/ phase = "complete") /\ (phase = "running" => i <= step)
          BY <1>1, <2>1 DEF Reached
    <3>2. FactOf(Steps[i], system) \in Held'
          BY <1>2, <2>1, <2>2, <3>1, GovernSettles
    <3>3. QED BY <1>8, <3>2
  <2>3. CASE ~Govern
    <3>1. Held \subseteq Held'
          BY <1>8, <2>3, HeldGrows
    <3>2. QED BY <1>2, <1>8, <2>1, <3>1
  <2>4. QED BY <2>2, <2>3
<1>9. \/ Run \/ WriteThrows \/ Interrupted \/ PendingLost \/ AttachResumed \/ Deployed \/ Complete
      \/ WriteStep \/ Mine \/ UNCHANGED <<phase, step, system, lost>>
      BY DEF Next, vars, script, reports, faults, ScriptStep, SendDeployment, HandoffStep,
         HandoffStarts, HandoffSends, HandoffReceipt, HandoffStops, Govern, SetExecutor,
         TransferOwnership, SetApprovedSource
<1>10. AttachResumed \/ Deployed => \E n : Attaches(n)
  <2>1. AttachResumed => Attaches(resume[Here.key])
        BY DeployHere DEF AttachResumed, Attach, Publish, Attaches, TypeInv, chain
  <2>2. Deployed => Attaches(awaiting)
        BY DEF Deployed, Attach, Publish, Attaches, TypeInv, chain
  <2>3. QED BY <2>1, <2>2
<1>11. QED BY <1>3, <1>4, <1>5, <1>6, <1>7, <1>8, <1>9, <1>10
-----------------------------------------------------------------------------
(* The observers of DoveCore.                                                *)

LEMMA RegisteredCount == IsFiniteSet(Registered) /\ Cardinality(Registered) = SinkCount + 4
<1>1. SinkCount \in Nat /\ DOMAIN SinkOrder = 1 .. SinkCount
      BY SinkKeys DEF SinkCount
<1>2. IsFiniteSet(1 .. SinkCount) /\ Cardinality(1 .. SinkCount) = SinkCount
      BY <1>1, FS_Interval
<1>3. SinkOrder \in Bijection(1 .. SinkCount, Sinks)
  <2>1. SinkOrder \in [1 .. SinkCount -> Sinks]
        BY <1>1, SinkKeys
  <2>2. \A i, j \in 1 .. SinkCount : SinkOrder[i] = SinkOrder[j] => i = j
        BY <1>1, DeploymentAssumption
  <2>3. \A k \in Sinks : \E i \in 1 .. SinkCount : SinkOrder[i] = k
        BY <1>1, SinkKeys
  <2>4. QED BY <2>1, <2>2, <2>3, Fun_IsBij
<1>4. IsFiniteSet(Sinks) /\ Cardinality(Sinks) = SinkCount
  <2>1. ExistsBijection(1 .. SinkCount, Sinks)
        BY <1>3 DEF ExistsBijection
  <2>2. QED BY <1>2, <2>1, FS_Bijection
<1>5. Sinks \intersect {"dove", "governance", "receiver", "router", "observer"} = {}
      BY DeploymentAssumption DEF Sinks
<1> DEFINE S1 == Sinks \union {"governance"}
           S2 == S1 \union {"receiver"}
           S3 == S2 \union {"router"}
           S4 == S3 \union {"observer"}
<1>6. Registered = S4
      BY DEF Registered
<1>7. "governance" \notin Sinks /\ "receiver" \notin S1 /\ "router" \notin S2 /\ "observer" \notin S3
      BY <1>5
<1>8. IsFiniteSet(S1) /\ Cardinality(S1) = SinkCount + 1
      BY <1>1, <1>4, <1>7, FS_AddElement
<1> HIDE DEF S1
<1>9. IsFiniteSet(S2) /\ Cardinality(S2) = SinkCount + 1 + 1
      BY <1>1, <1>7, <1>8, FS_AddElement
<1> HIDE DEF S2
<1>10. IsFiniteSet(S3) /\ Cardinality(S3) = SinkCount + 1 + 1 + 1
       BY <1>1, <1>7, <1>9, FS_AddElement
<1> HIDE DEF S3
<1>11. IsFiniteSet(S4) /\ Cardinality(S4) = SinkCount + 1 + 1 + 1 + 1
       BY <1>1, <1>7, <1>10, FS_AddElement
<1> HIDE DEF S4
<1>12. QED BY <1>1, <1>6, <1>11

LEMMA ObserversCounted ==
    ASSUME TypeInv, RecordInv, ScriptInv, PendingInv, FactShape, Wired(system), phase = "complete",
           recorded = Contracts(system)
    PROVE  ObserverCount(system) = SinkCount + 5
<1> DEFINE S == {f \in facts : f.of = <<"dove", system["dove"]>> /\ f.slot = "observers"}
           Registration(k) == FactOf(Register(k), system)
           g == [k \in Registered |-> Registration(k)]
<1>1. \A k \in Registered :
         /\ Registration(k).of = <<"dove", system["dove"]>> /\ Registration(k).slot = "observers"
         /\ DOMAIN Registration(k).to = {k} /\ Registration(k).to[k] = system[k]
      BY DEF FactOf, Register, Write
<1>2. ASSUME NEW k \in Registered PROVE Registration(k) \in S /\ Registration(k) \in Fact
  <2>1. PICK i \in DOMAIN Steps : Steps[i] = Register(k)
        BY AllRegistered
  <2>2. Steps[i].do = "write" /\ Steps[i].slot # Bootstrap
        BY <2>1 DEF Register, Write, Bootstrap
  <2>3. Registration(k) \in facts
        BY <2>1, <2>2 DEF Wired
  <2> HIDE DEF Registration
  <2>4. QED BY <1>1, <2>3 DEF TypeInv
<1>3. ASSUME NEW f \in S PROVE \E k \in Registered : f = Registration(k)
  <2>1. f \in facts /\ f \in Fact /\ Numbered(f) /\ Known(f)
        BY DEF TypeInv, PendingInv, RecordInv
  <2>2. PICK s \in Wiring : Fits(f, s)
        BY <2>1 DEF FactShape
  <2>3. s.of = "dove"
        BY <2>2 DEF Fits
  <2>4. PICK k \in Registered : s = Register(k)
    <3>1. Sinks \intersect {"dove"} = {} /\ "receiver" # "dove"
          BY DeploymentAssumption DEF Sinks
    <3>2. {"mev", "dataYield"} \subseteq Sinks
          BY SinkKeys
    <3>3. QED BY <2>3, <3>1, <3>2 DEF Wiring, RegisterSink, SetRouter, Write
  <2>5. DOMAIN f.to = {k} /\ k \in DOMAIN f.to
        BY <2>2, <2>4 DEF Fits, Register, Write
  <2>6. <<k, f.to[k]>> \in Contracts(f.to)
        BY <2>1, <2>5 DEF Contracts, Numbered
  <2>7. <<k, f.to[k]>> \in Contracts(system)
        BY <2>1, <2>6 DEF Known
  <2>8. f.to[k] = system[k]
        BY <2>7 DEF Contracts
  <2>9. SameSlot(f, Registration(k))
        BY <1>1 DEF SameSlot
  <2>10. Registration(k) \in Fact
        BY <1>2
  <2> HIDE DEF Registration
  <2>11. f = Registration(k)
        BY <1>1, <2>1, <2>5, <2>8, <2>9, <2>10, SameFact
  <2>12. QED BY <2>11
<1>4. g \in Bijection(Registered, S)
  <2>1. \A k \in Registered : \A l \in Registered : Registration(k) = Registration(l) => k = l
    <3> HIDE DEF Registration
    <3>1. \A k \in Registered : DOMAIN Registration(k).to = {k}
          BY <1>1
    <3>2. QED BY <3>1
  <2> HIDE DEF Registration, S
  <2>2. g \in [Registered -> S] /\ \A k \in Registered : g[k] = Registration(k)
        BY <1>2
  <2> HIDE DEF g
  <2>3. \A f \in S : \E k \in Registered : g[k] = f
        BY <1>3, <2>2
  <2>4. \A k, l \in Registered : g[k] = g[l] => k = l
        BY <2>1, <2>2
  <2>5. QED BY <2>2, <2>3, <2>4, Fun_IsBij
<1> HIDE DEF g
<1>5. Cardinality(S) = Cardinality(Registered)
  <2> HIDE DEF S
  <2>1. ExistsBijection(Registered, S)
        BY <1>4 DEF ExistsBijection
  <2>2. QED BY <2>1, RegisteredCount, FS_Bijection
<1>6. ObserverCount(system) = 1 + Cardinality(S)
      BY DEF ObserverCount
<1> HIDE DEF S
<1>7. SinkCount \in Nat
      BY StepPlaces
<1>8. QED BY <1>5, <1>6, <1>7, RegisteredCount

\* A deployment that completes is wired once its transactions are mined
\* (phase1a-sequence.js:228-231).  What is pending agrees with what the script has
\* attached and with the checkpoint it resumes from, so that whatever the chain mines in
\* a slot of the system is what the script wants there; and the steps of a run find or
\* send what they are due, in slots of their own.
THEOREM DeploymentIsWired == Spec => []CompleteMeansWired
<1> DEFINE Inv == /\ TypeInv /\ HandoffInv /\ RecordInv /\ ScriptInv /\ BoundInv /\ AwaitInv
                  /\ PendingInv /\ FactShape /\ LineageInv /\ SettledInv
<1>1. Init => HandoffInv /\ RecordInv /\ ScriptInv /\ BoundInv /\ AwaitInv
              /\ PendingInv /\ FactShape /\ LineageInv /\ SettledInv
  <2> SUFFICES ASSUME Init
               PROVE  HandoffInv /\ RecordInv /\ ScriptInv /\ BoundInv /\ AwaitInv
                      /\ PendingInv /\ FactShape /\ LineageInv /\ SettledInv
      OBVIOUS
  <2>1. ToSet(mempool) = {}
        BY DEF Init, ToSet
  <2>2. HandoffInv
        BY <2>1 DEF Init, HandoffInv
  <2>3. RecordInv
        BY <2>1, NothingAttached DEF Init, RecordInv
  <2>4. ScriptInv
        BY FullNone DEF Init, ScriptInv
  <2>5. BoundInv /\ AwaitInv
        BY FullNone DEF Init, BoundInv, Exist, AwaitInv
  <2>6. Pending = {} /\ facts = {} /\ Held = {}
        BY <2>1 DEF Init, Pending, Held
  <2>7. PendingInv /\ FactShape /\ LineageInv
        BY <2>6 DEF PendingInv, FactShape, LineageInv
  <2>8. SettledInv
        BY DEF Init, SettledInv, Reached
  <2>9. QED BY <2>2, <2>3, <2>4, <2>5, <2>7, <2>8
<1>2. TypeInv /\ HandoffInv /\ RecordInv /\ [Next]_vars => HandoffInv' /\ RecordInv'
      BY HandoffStepInv, RecordScript, RecordReports, RecordFacts DEF RecordInv
<1>3. Inv /\ TypeInv' /\ [Next]_vars
      => ScriptInv' /\ BoundInv' /\ AwaitInv' /\ PendingInv' /\ FactShape' /\ LineageInv' /\ SettledInv'
      BY ScriptFollows, BoundStep, AwaitStep, PendingStep, LineageStep, SettledStep
<1>4. Inv => CompleteMeansWired
  <2> SUFFICES ASSUME Inv, phase = "complete", mempool = <<>>, ~lost
               PROVE  Wired(system) /\ (recorded = Contracts(system) => ObserverCount(system) = Len(SinkOrder) + 5)
      BY DEF CompleteMeansWired
  <2>1. Held = facts
        BY DEF Held, Pending, ToSet
  <2>2. Wired(system)
    <3> SUFFICES ASSUME NEW i \in DOMAIN Steps, Steps[i].do = "write", ~(BootstrapMayGo /\ Steps[i].slot = Bootstrap)
                 PROVE  FactOf(Steps[i], system) \in facts
        BY DEF Wired
    <3>1. Reached(i) /\ Due(i)
          BY DEF Reached, Due
    <3>2. QED BY <2>1, <3>1 DEF SettledInv
  <2>3. QED BY <2>2, ObserversCounted DEF SinkCount
<1> HIDE DEF Inv
<1>5. QED BY <1>1, <1>2, <1>3, <1>4, TypeInvariant, PTL DEF Spec, Inv
=============================================================================
