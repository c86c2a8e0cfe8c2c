----------------------- MODULE MonadMarketAgent_proofs -----------------------
(***************************************************************************)
(* Proofs about the Monad market agent, for any number of endpoints of      *)
(* every kind, any number of faults, any chain and any markets.             *)
(***************************************************************************)
EXTENDS MonadMarketAgent, TLAPS

-----------------------------------------------------------------------------
(* The agent never goes deaf.                                               *)

\* A running agent has its callback: onBlock sets it, and only a new process
\* is without.
CallbackKept == stage = "running" => callback

DeafInv == CallbackKept /\ NeverDeaf

LEMMA DeafInit == Init => DeafInv
BY DEF Init, AgentInit, DeafInv, CallbackKept, NeverDeaf

LEMMA DeafStep == DeafInv /\ [Next]_vars => DeafInv'
<1> SUFFICES ASSUME DeafInv, [Next]_vars
             PROVE  DeafInv'
    OBVIOUS
<1> USE DEF DeafInv, CallbackKept, NeverDeaf, Connected, Testing
<1>1. ASSUME ConnectFails, UNCHANGED agentVars
      PROVE  DeafInv'
      BY <1>1 DEF ConnectFails, agentVars
<1>2. ASSUME ConnectSucceeds, UNCHANGED agentVars
      PROVE  DeafInv'
  <2>1. CASE callback
        BY <1>2, <2>1 DEF ConnectSucceeds, OnBlock, agentVars
  <2>2. CASE ~callback
        BY <1>2, <2>2 DEF ConnectSucceeds, agentVars
  <2>3. QED BY <2>1, <2>2
<1>3. ASSUME SocketCloses \/ ConnectHangs, UNCHANGED agentVars
      PROVE  DeafInv'
      BY <1>3 DEF SocketCloses, ConnectHangs, agentVars
<1>4. ASSUME NEW p \in checks, CheckFires(p), UNCHANGED agentVars
      PROVE  DeafInv'
      BY <1>4 DEF CheckFires, agentVars
<1>5. ASSUME Initialize
      PROVE  DeafInv'
      BY <1>5 DEF Initialize, rpcVars
<1>6. ASSUME Start
      PROVE  DeafInv'
  <2>1. CASE provider # 0
        BY <1>6, <2>1 DEF Start, OnBlock
  <2>2. CASE provider = 0
        BY <1>6, <2>2 DEF Start
  <2>3. QED BY <2>1, <2>2
<1>7. ASSUME NEW block, HandleNewBlock(block)
      PROVE  stage' = stage
      BY <1>7 DEF HandleNewBlock, agentVars
<1>8. ASSUME BlockPushed
      PROVE  DeafInv'
      BY <1>8, <1>7 DEF BlockPushed, Pushes
<1>9. ASSUME BlockPolled
      PROVE  DeafInv'
      BY <1>9, <1>7 DEF BlockPolled, Polls
<1>10. ASSUME NEW h \in fetching, PublishSnapshots(h)
       PROVE  DeafInv'
       BY <1>10 DEF PublishSnapshots
<1>11. ASSUME Restart \/ ProcessRefused
       PROVE  DeafInv'
       BY <1>11 DEF Restart, ProcessRefused, ConnectRefused, ProcessLost, ClientLost
<1>12. ASSUME NewBlock \/ IntervalPasses
       PROVE  DeafInv'
       BY <1>12 DEF NewBlock, IntervalPasses, rpcVars
<1>13. ASSUME UNCHANGED vars
       PROVE  DeafInv'
       BY <1>13 DEF vars, rpcVars, agentVars
<1>14. QED
       BY <1>1, <1>2, <1>3, <1>4, <1>5, <1>6, <1>8, <1>9, <1>10, <1>11, <1>12, <1>13
       DEF Next, RpcStep, AgentStep

\* A running agent with a connection hears of blocks, whatever endpoints there
\* are and however often and in whatever order connections, timers and the
\* process fail (rpc.ts:202-270).
THEOREM MonadNeverDeaf == Spec => []NeverDeaf
<1>1. DeafInv => NeverDeaf
      BY DEF DeafInv
<1>2. QED
      BY DeafInit, DeafStep, <1>1, PTL DEF Spec
-----------------------------------------------------------------------------
(* One snapshot per market and block.                                       *)

BlockTypes ==
    /\ lastBlock \in Nat /\ head \in Nat
    /\ \A x \in fetching \union topic : x.block \in Nat

\* What a block has is one handler or what this handler has published, and
\* there is none for a block not seen yet.
OneHandlerPerBlock ==
    ~restarted => \A x \in fetching \union topic :
        /\ x.block <= lastBlock
        /\ \A y \in fetching \union topic : x.block = y.block => x.id = y.id

HandlerInv == BlockTypes /\ OneHandlerPerBlock

LEMMA HandlerInit == Init => HandlerInv
BY DEF Init, AgentInit, HandlerInv, BlockTypes, OneHandlerPerBlock

LEMMA HandlerStep == HandlerInv /\ [Next]_vars => HandlerInv'
<1> SUFFICES ASSUME HandlerInv, [Next]_vars
             PROVE  HandlerInv'
    OBVIOUS
<1>1. ASSUME UNCHANGED <<lastBlock, head, fetching, topic, restarted>>
      PROVE  HandlerInv'
      BY <1>1 DEF HandlerInv, BlockTypes, OneHandlerPerBlock
<1>2. ASSUME RpcStep \/ Initialize \/ Start \/ IntervalPasses
      PROVE  HandlerInv'
      BY <1>1, <1>2 DEF RpcStep, Initialize, Start, IntervalPasses, agentVars
<1>3. ASSUME NewBlock
      PROVE  HandlerInv'
      BY <1>3 DEF NewBlock, HandlerInv, BlockTypes, OneHandlerPerBlock
<1>4. ASSUME NEW block \in 1 .. head, HandleNewBlock(block)
      PROVE  HandlerInv'
  <2>1. CASE block <= lastBlock \/ throttled
        BY <1>1, <1>4, <2>1 DEF HandleNewBlock, agentVars
  <2>2. CASE ~(block <= lastBlock \/ throttled)
    <3> DEFINE new == [block |-> block, on |-> provider, id |-> events]
    <3>1. /\ lastBlock' = block /\ UNCHANGED <<head, topic, restarted>>
          /\ fetching' = fetching \union {new}
          BY <1>4, <2>2 DEF HandleNewBlock
    <3>2. block \in Nat /\ lastBlock \in Nat /\ lastBlock < block
          BY <1>4, <2>2 DEF HandlerInv, BlockTypes
    <3>3. new.block = block
          OBVIOUS
    <3>4. BlockTypes'
          BY <3>1, <3>2, <3>3 DEF HandlerInv, BlockTypes
    <3>5. ASSUME ~restarted, NEW x \in fetching \union topic
          PROVE  x.block <= lastBlock /\ x.block < block
          BY <3>2, <3>5 DEF HandlerInv, BlockTypes, OneHandlerPerBlock
    <3>6. ASSUME ~restarted, NEW x \in fetching' \union topic'
          PROVE  x.block <= lastBlock'
      <4>1. CASE x = new
            BY <3>1, <3>2, <4>1
      <4>2. CASE x \in fetching \union topic
            BY <3>1, <3>2, <3>5, <3>6, <4>2 DEF HandlerInv, BlockTypes
      <4>3. QED BY <3>1, <4>1, <4>2
    <3>7. ASSUME ~restarted, NEW x \in fetching' \union topic',
                 NEW y \in fetching' \union topic', x.block = y.block
          PROVE  x.id = y.id
      <4>1. CASE x = new /\ y = new
            BY <4>1
      <4>2. CASE x = new /\ y \in fetching \union topic
            BY <3>2, <3>3, <3>5, <3>7, <4>2 DEF HandlerInv, BlockTypes
      <4>3. CASE y = new /\ x \in fetching \union topic
            BY <3>2, <3>3, <3>5, <3>7, <4>3 DEF HandlerInv, BlockTypes
      <4>4. CASE x \in fetching \union topic /\ y \in fetching \union topic
            BY <3>7, <4>4 DEF HandlerInv, OneHandlerPerBlock
      <4>5. QED BY <3>1, <4>1, <4>2, <4>3, <4>4
    <3>8. OneHandlerPerBlock'
          BY <3>1, <3>6, <3>7 DEF OneHandlerPerBlock
    <3>9. QED BY <3>4, <3>8 DEF HandlerInv
  <2>3. QED BY <2>1, <2>2
<1>5. ASSUME BlockPushed \/ BlockPolled
      PROVE  HandlerInv'
      BY <1>4, <1>5 DEF BlockPushed, BlockPolled
<1>6. ASSUME NEW h \in fetching, PublishSnapshots(h)
      PROVE  HandlerInv'
  <2>1. PICK failed \in Listed \union {NoFailure} :
          topic' \subseteq topic \union Snapshots(h, failed)
        BY <1>6 DEF PublishSnapshots
  <2>2. fetching' \subseteq fetching /\ UNCHANGED <<lastBlock, head, restarted>>
        BY <1>6 DEF PublishSnapshots
  <2>3. ASSUME NEW s \in Snapshots(h, failed)
        PROVE  s.block = h.block /\ s.id = h.id
        BY DEF Snapshots
  <2>4. ASSUME NEW x \in fetching' \union topic'
        PROVE  \E y \in fetching \union topic : x.block = y.block /\ x.id = y.id
        BY <2>1, <2>2, <2>3
  <2>5. BlockTypes'
        BY <2>2, <2>4 DEF HandlerInv, BlockTypes
  <2>6. OneHandlerPerBlock'
    <3>1. ASSUME ~restarted, NEW x \in fetching' \union topic'
          PROVE  x.block <= lastBlock
          BY <2>4, <3>1 DEF HandlerInv, OneHandlerPerBlock
    <3>2. ASSUME ~restarted, NEW x \in fetching' \union topic',
                 NEW y \in fetching' \union topic', x.block = y.block
          PROVE  x.id = y.id
      <4>1. PICK u \in fetching \union topic : x.block = u.block /\ x.id = u.id
            BY <2>4
      <4>2. PICK v \in fetching \union topic : y.block = v.block /\ y.id = v.id
            BY <2>4
      <4>3. QED BY <3>2, <4>1, <4>2 DEF HandlerInv, OneHandlerPerBlock
    <3>3. QED BY <2>2, <3>1, <3>2 DEF OneHandlerPerBlock
  <2>7. QED BY <2>5, <2>6 DEF HandlerInv
<1>7. ASSUME Restart \/ ProcessRefused
      PROVE  HandlerInv'
      BY <1>7 DEF Restart, ProcessRefused, ProcessLost, HandlerInv, BlockTypes, OneHandlerPerBlock
<1>8. ASSUME UNCHANGED vars
      PROVE  HandlerInv'
      BY <1>1, <1>8 DEF vars, agentVars
<1>9. QED
      BY <1>2, <1>3, <1>5, <1>6, <1>7, <1>8 DEF Next, AgentStep

\* As long as the process lives, a block is quoted once per market, whichever
\* of subscription and polling brings it, how often and how late
\* (agent.ts:114-127).
THEOREM MonadOneSnapshotPerBlock == Spec => []OneSnapshotPerBlock
<1>1. HandlerInv => OneSnapshotPerBlock
      BY DEF HandlerInv, OneHandlerPerBlock, OneSnapshotPerBlock
<1>2. QED
      BY HandlerInit, HandlerStep, <1>1, PTL DEF Spec
=============================================================================
