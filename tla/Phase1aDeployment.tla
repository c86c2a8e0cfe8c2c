-------------------------- MODULE Phase1aDeployment --------------------------
(***************************************************************************)
(* The deployment of phase 1a: the script deploy-phase1a.js with its        *)
(* checkpoint file, run again by the operator when it fails; the cutover    *)
(* script slot-source-handoff.js; GovernanceController, through which both  *)
(* wire the contracts; and the chain they send transactions to.  The        *)
(* operator runs one of the two scripts at a time.                          *)
(*                                                                          *)
(* A contract is a pair <<key, n>>: the n-th one deployed under a key.  What *)
(* the contracts store of each other is a set of facts [of, slot, to]:      *)
(* contract "of" holds in "slot" the contracts of the function "to".  Of    *)
(* the deployer's transactions only the deployments and the handoff wait    *)
(* for a receipt; all are mined in the order of their nonces.               *)
(***************************************************************************)
EXTENDS Integers, FiniteSets, Sequences, SequencesExt

CONSTANTS
    SinkOrder,       \* the sinks, in the order they are deployed
    Sources,         \* config.sources of the handoff: a sequence of [source, approved]
    Revokes,         \* cutover.revokeBootstrapAfterCutover
    MaxPending,      \* bound on the transactions waiting to be mined
    MaxFaults        \* bound on interruptions and the calls of governance together

\* The keys of SINK_REGISTRY (phase1a-sequence.js:4-11) are listed once each and are
\* none of the other contracts.  Approved sources and the router are different storage
\* of the receiver, so no source has the name of the router's slot.  The handoff takes
\* any list that is not empty: the bootstrap source may be in it, approved or not.
ASSUME DeploymentAssumption ==
    /\ SinkOrder \in Seq(STRING) /\ {"mev", "dataYield"} \subseteq ToSet(SinkOrder)
    /\ \A i, j \in DOMAIN SinkOrder : SinkOrder[i] = SinkOrder[j] => i = j
    /\ ToSet(SinkOrder) \intersect {"dove", "governance", "receiver", "router", "observer"} = {}
    /\ Sources \in Seq([source : STRING \ {"router"}, approved : BOOLEAN])
    /\ Sources # <<>> /\ Revokes \in BOOLEAN
    /\ MaxPending \in Nat \ {0} /\ MaxFaults \in Nat

VARIABLES
    deployed,      \* chain: how many contracts of each key exist
    facts,         \* chain: what the contracts store of each other
    owner,         \* chain: the owner of each GovernanceController
    executors,     \* chain: the executors of each
    mempool,       \* the deployer's transactions sent and not mined
    phase,         \* the deploy script: "idle", "running", "failed" or "complete"
    step,          \* the index of its next step
    awaiting,      \* the number of the contract whose receipt it awaits, 0 for none
    system,        \* system.contracts: the number attached of each key, 0 for none
    resume,        \* the addresses of resumeReport, 0 for none
    report,        \* the addresses in the checkpoint file, 0 for none
    torn,          \* whether the checkpoint file is half written
    final,         \* the addresses in the final report, 0 for none
    handoff,       \* the handoff script: 0 for not running, else its next execution
    handoffTx,     \* its transaction: "none", "sent", "mined" or "reverted"
    interruptions, \* crashes of the script and losses of pending transactions
    lost,          \* history: whether transactions were lost, or refused to a deployer
                   \* without authority, since the script was started
    calls,         \* calls of governance
    revoked,       \* history: whether governance itself revoked a source
    recorded       \* history: the contracts any checkpoint ever listed

chain == <<deployed, facts, owner, executors>>
reports == <<report, torn, final, recorded>>
script == <<phase, step, awaiting, system, resume, reports>>
handoffScript == <<handoff, handoffTx>>
faults == <<interruptions, lost, calls, revoked>>
vars == <<chain, mempool, script, handoffScript, faults>>

Deployer == "deployer"
Operator == "operator"  \* the account ownership goes to
Controller == "controller"

Keys == {"dove", "governance", "receiver", "router", "observer"} \union ToSet(SinkOrder)
None == [k \in Keys |-> 0]
Bootstrap == "bootstrap"
-----------------------------------------------------------------------------
\* The sequence of the script: deployments and writes.  A write names the contract,
\* the slot and the keys of the contracts stored, and how the script treats a slot
\* that holds something else: it registers next to it, overwrites it, throws, or is
\* content.
Deploy(k) == [do |-> "deploy", key |-> k]
Write(of, slot, to, other) == [do |-> "write", of |-> of, slot |-> slot, to |-> to, other |-> other]
Register(k) == Write("dove", "observers", {k}, "add")
RegisterSink(k) == Write("router", k, {k}, "overwrite")
SetRouter(k) == Write(k, "router", {"router"}, "throw")
ForEach(Op(_), keys) == [i \in DOMAIN keys |-> Op(keys[i])]

Steps ==
    <<Deploy("dove"), Deploy("governance"), Register("governance"),
      Deploy("receiver"), Register("receiver")>>
    \o ForEach(Deploy, SinkOrder) \o <<Deploy("router"), Register("router")>>
    \o ForEach(Register, SinkOrder) \o ForEach(RegisterSink, SinkOrder)
    \o <<Write("router", "receiver", {"receiver"}, "throw"), SetRouter("receiver")>>
    \o ForEach(SetRouter, SinkOrder)
    \o <<Deploy("observer"), Register("observer"),
         Write("observer", "initialized", {"receiver", "router"} \union ToSet(SinkOrder), "keep"),
         Write("dataYield", "mevSink", {"mev"}, "overwrite"),
         Write("mev", "dataYieldSource", {"dataYield"}, "overwrite"),
         Write("receiver", Bootstrap, {}, "overwrite")>>

Here == Steps[step]
AtStep(kind) == phase = "running" /\ step <= Len(Steps) /\ Here.do = kind

\* The fact a write step is to establish among the contracts of a system.
FactOf(s, sys) == [of |-> <<s.of, sys[s.of]>>, slot |-> s.slot, to |-> [k \in s.to |-> sys[k]]]
InSlot(fact) == {f \in facts : f.of = fact.of /\ f.slot = fact.slot}
Source(n, name) == [of |-> <<"receiver", n>>, slot |-> name, to |-> [k \in {} |-> 0]]

\* onlyAuthorizedGovernor of the g-th controller.  A transaction that would revert fails
\* where its gas is estimated, before it is sent.
MayGovern(g, account) == account = owner[g] \/ account \in executors[g]
-----------------------------------------------------------------------------
Init ==
    /\ deployed = None /\ facts = {}
    /\ owner = <<>> /\ executors = <<>>
    /\ mempool = <<>>
    /\ phase = "idle" /\ step = 1 /\ awaiting = 0 /\ system = None
    /\ resume = None /\ report = None /\ torn = FALSE /\ final = None /\ recorded = {}
    /\ handoff = 0 /\ handoffTx = "none"
    /\ interruptions = 0 /\ lost = FALSE /\ calls = 0 /\ revoked = FALSE

Contracts(sys) == {<<k, sys[k]>> : k \in {l \in DOMAIN sys : sys[l] # 0}}

Send(tx) == Len(mempool) < MaxPending /\ mempool' = Append(mempool, tx)

\* onProgress: the checkpoint lists what this run has attached so far.  (Killed while
\* it writes, the script leaves half a file: see Interrupted.)
Publish ==
    /\ report' = system'
    /\ recorded' = recorded \union Contracts(system')

\* The end of the process: what it had in memory is gone.
Ends == step' = 1 /\ awaiting' = 0 /\ resume' = None

Attach(k, n) == system' = [system EXCEPT ![k] = n] /\ step' = step + 1 /\ Publish

\* The operator starts the script, which reads the checkpoint.  Half a checkpoint makes
\* JSON.parse throw, before anything is done and at every start.
Run ==
    /\ phase \in {"idle", "failed", "complete"}
    /\ handoff = 0 /\ ~torn
    /\ phase' = "running" /\ step' = 1 /\ system' = None /\ resume' = report /\ lost' = FALSE
    /\ UNCHANGED <<chain, mempool, awaiting, reports, handoffScript>>
    /\ UNCHANGED <<interruptions, calls, revoked>>

\* attachOrDeploy finds code at the address the checkpoint has for the key.
AttachResumed ==
    /\ AtStep("deploy") /\ resume[Here.key] # 0
    /\ Attach(Here.key, resume[Here.key])
    /\ UNCHANGED <<chain, mempool, phase, awaiting, resume, torn, final, handoffScript, faults>>

\* The deployments of a key that are sent and not mined.
PendingDeployments(k) == {i \in DOMAIN mempool : mempool[i] = [do |-> "deploy", key |-> k]}

\* attachOrDeploy sends the deployment and awaits its receipt.
SendDeployment ==
    /\ AtStep("deploy") /\ resume[Here.key] = 0 /\ awaiting = 0
    /\ Send([do |-> "deploy", key |-> Here.key])
    /\ awaiting' = deployed[Here.key] + Cardinality(PendingDeployments(Here.key)) + 1
    /\ UNCHANGED <<chain, phase, step, system, resume, reports, handoffScript, faults>>

\* Mutant: the checkpoint is written at the end of the script only.
Deployed_NotPublished ==
    /\ AtStep("deploy") /\ awaiting # 0 /\ deployed[Here.key] >= awaiting
    /\ system' = [system EXCEPT ![Here.key] = awaiting] /\ step' = step + 1
    /\ awaiting' = 0
    /\ UNCHANGED <<chain, mempool, phase, resume, reports, handoffScript, faults>>

\* The receipt is there; the checkpoint is written.
Deployed ==
    /\ AtStep("deploy") /\ awaiting # 0 /\ deployed[Here.key] >= awaiting
    /\ Attach(Here.key, awaiting)
    /\ awaiting' = 0
    /\ UNCHANGED <<chain, mempool, phase, resume, torn, final, handoffScript, faults>>

\* A write that is needed and possible is sent; the script goes on without waiting.
Written(fact) ==
    /\ Here.other = "throw" => InSlot(fact) = {}
    /\ Here.other # "add" => MayGovern(system["governance"], Deployer)
    /\ Send([do |-> "write", via |-> system["governance"], fact |-> fact, other |-> Here.other])

\* Mutant: a write-once slot that is set makes the script throw, whatever it holds.
Satisfied_NotCompared(fact) ==
    (fact \in facts /\ Here.other # "throw") \/ (Here.other = "keep" /\ InSlot(fact) # {})

\* sameAddress, active, initialized(): the slot is as the script wants it.
Satisfied(fact) == fact \in facts \/ (Here.other = "keep" /\ InSlot(fact) # {})

\* Mutant: a resumed script takes a write for done when the checkpoint lists its contracts.
WriteStep_Trusts ==
    /\ AtStep("write")
    /\ LET fact == FactOf(Here, system) IN
         IF Satisfied(fact) \/ {fact.of} \union Contracts(fact.to) \subseteq Contracts(resume)
         THEN UNCHANGED mempool
         ELSE Written(fact)
    /\ step' = step + 1
    /\ UNCHANGED <<chain, phase, awaiting, system, resume, reports, handoffScript, faults>>

\* A write step reads the slot first.  The registrations are made as owner of DoveCore,
\* the other writes through the GovernanceController.
WriteStep ==
    /\ AtStep("write")
    /\ LET fact == FactOf(Here, system) IN
         IF Satisfied(fact) THEN UNCHANGED mempool ELSE Written(fact)
    /\ step' = step + 1
    /\ UNCHANGED <<chain, phase, awaiting, system, resume, reports, handoffScript, faults>>

\* The script throws: a write-once slot holds another contract, or the deployer may
\* not govern.  main writes the last checkpoint again.
WriteThrows ==
    /\ AtStep("write")
    /\ LET fact == FactOf(Here, system) IN
         /\ ~Satisfied(fact)
         /\ \/ Here.other = "throw" /\ InSlot(fact) # {}
            \/ Here.other # "add" /\ ~MayGovern(system["governance"], Deployer)
    /\ phase' = "failed" /\ system' = None /\ Ends
    /\ UNCHANGED <<chain, mempool, reports, handoffScript, faults>>

\* The last checkpoint, and the final report, which is the handoff's input.
Complete ==
    /\ phase = "running" /\ step > Len(Steps)
    /\ phase' = "complete" /\ final' = system
    /\ UNCHANGED system /\ Publish /\ Ends
    /\ UNCHANGED <<chain, mempool, torn, handoffScript, faults>>

\* A call to the node fails and the script throws, or it is killed: between two steps,
\* or while it writes one of its files, which it truncates first.
Interrupted ==
    /\ phase = "running" /\ interruptions + calls < MaxFaults
    /\ phase' = "failed" /\ system' = None /\ Ends
    /\ \/ UNCHANGED <<torn, final>>
       \/ torn' = TRUE /\ UNCHANGED final
       \/ step > Len(Steps) /\ final' = None /\ UNCHANGED torn
    /\ interruptions' = interruptions + 1
    /\ UNCHANGED <<chain, mempool, report, recorded, handoffScript, lost, calls, revoked>>
-----------------------------------------------------------------------------
\* The chain mines the next transaction of the deployer.  It reverts for a deployer who
\* may not govern any more, and when its write-once slot is taken.
Refused(tx) == tx.other # "add" /\ ~MayGovern(tx.via, Deployer)

Stored(tx) ==
    IF Refused(tx) \/ (tx.other \in {"throw", "keep"} /\ InSlot(tx.fact) # {}) THEN facts
    ELSE IF tx.other = "revoke" THEN facts \ {tx.fact}
    ELSE IF tx.other = "overwrite" THEN (facts \ InSlot(tx.fact)) \union {tx.fact}
    ELSE facts \union {tx.fact}

MineDeployment ==
    /\ mempool # <<>> /\ Head(mempool).do = "deploy"
    /\ LET key == Head(mempool).key IN
         /\ deployed' = [deployed EXCEPT ![key] = @ + 1]
         /\ IF key = "governance"
            THEN owner' = Append(owner, Deployer) /\ executors' = Append(executors, {})
            ELSE UNCHANGED <<owner, executors>>
    /\ mempool' = Tail(mempool)
    /\ UNCHANGED <<facts, script, handoffScript, faults>>

\* The transaction the handoff awaits is the last one sent.
MineWrite ==
    /\ mempool # <<>> /\ Head(mempool).do = "write"
    /\ facts' = Stored(Head(mempool))
    /\ lost' = (lost \/ Refused(Head(mempool)))
    /\ mempool' = Tail(mempool)
    /\ handoffTx' = IF handoffTx = "sent" /\ Tail(mempool) = <<>>
                    THEN (IF Refused(Head(mempool)) THEN "reverted" ELSE "mined")
                    ELSE handoffTx
    /\ UNCHANGED <<deployed, owner, executors, script, handoff, interruptions, calls, revoked>>

Mine == MineDeployment \/ MineWrite

\* The node forgets the pending transactions.
PendingLost ==
    /\ mempool # <<>> /\ interruptions + calls < MaxFaults
    /\ mempool' = <<>> /\ lost' = TRUE
    /\ interruptions' = interruptions + 1
    /\ UNCHANGED <<chain, script, handoffScript, calls, revoked>>
-----------------------------------------------------------------------------
\* The executions of the handoff: what its configuration says of every source, in its
\* order, then the revocation of the bootstrap source if it is told to.
\* Mutant: the bootstrap source is revoked first.
Executions_RevokeFirst ==
    (IF Revokes THEN <<[source |-> Bootstrap, approved |-> FALSE]>> ELSE <<>>) \o Sources

Executions ==
    Sources \o (IF Revokes THEN <<[source |-> Bootstrap, approved |-> FALSE]>> ELSE <<>>)

\* The operator starts the handoff, which needs a final report and nothing else: a later
\* run of the deployment may have failed, and transactions may be pending or lost.
HandoffStarts ==
    /\ final # None /\ handoff = 0 /\ phase # "running"
    /\ handoff' = 1
    /\ UNCHANGED <<chain, mempool, script, handoffTx, faults>>

\* One execution, through the controller of the final report on its receiver.
Execution(e) ==
    [do |-> "write", via |-> final["governance"], fact |-> Source(final["receiver"], e.source),
     other |-> IF e.approved THEN "overwrite" ELSE "revoke"]

HandoffSends ==
    /\ handoff \in DOMAIN Executions /\ handoffTx = "none"
    /\ MayGovern(final["governance"], Deployer)
    /\ Send(Execution(Executions[handoff]))
    /\ handoffTx' = "sent"
    /\ UNCHANGED <<chain, script, handoff, faults>>

\* The receipt.
HandoffReceipt ==
    /\ handoffTx = "mined"
    /\ handoff' = handoff + 1 /\ handoffTx' = "none"
    /\ UNCHANGED <<chain, mempool, script, faults>>

\* It ends, is killed, throws at a reverted transaction, or is stopped by the operator.
HandoffStops ==
    /\ handoff # 0
    /\ handoff' = 0 /\ handoffTx' = "none"
    /\ UNCHANGED <<chain, mempool, script, faults>>
-----------------------------------------------------------------------------
\* GovernanceController.  The caller of setExecutor and transferOwnership must be the
\* owner; execute lets the controller itself call, for whoever may govern.
CallsAs(g, account) == {account} \union (IF MayGovern(g, account) THEN {Controller} ELSE {})

SetExecutor(g, caller, executor, allowed) ==
    /\ owner[g] \in CallsAs(g, caller)
    /\ executors' = [executors EXCEPT
                       ![g] = IF allowed THEN @ \union {executor} ELSE @ \ {executor}]
    /\ UNCHANGED <<facts, owner, revoked>>

TransferOwnership(g, caller, newOwner) ==
    /\ owner[g] \in CallsAs(g, caller)
    /\ owner' = [owner EXCEPT ![g] = newOwner]
    /\ UNCHANGED <<facts, executors, revoked>>

\* execute with a setApprovedSource of the receiver that a report names with g.
SetApprovedSource(g, caller, n, name, approved) ==
    /\ MayGovern(g, caller)
    /\ facts' = IF approved THEN facts \union {Source(n, name)} ELSE facts \ {Source(n, name)}
    /\ revoked' = (revoked \/ ~approved)
    /\ UNCHANGED <<owner, executors>>

SourceNames == {Bootstrap} \union {Sources[i].source : i \in DOMAIN Sources}

\* The operator or the deployer govern the system, at any time; the deployer's calls come
\* after what it has sent before.
Govern ==
    /\ interruptions + calls < MaxFaults
    /\ calls' = calls + 1
    /\ \E caller \in {Operator} \union (IF mempool = <<>> THEN {Deployer} ELSE {}) :
         \/ \E g \in DOMAIN owner, account \in {Deployer, Operator, Controller} :
              \/ \E allowed \in BOOLEAN : SetExecutor(g, caller, account, allowed)
              \/ TransferOwnership(g, caller, account)
         \/ \E known \in {report, final}, name \in SourceNames, approved \in BOOLEAN :
              /\ known["receiver"] # 0
              /\ SetApprovedSource(known["governance"], caller, known["receiver"], name, approved)
    /\ UNCHANGED <<deployed, mempool, script, handoffScript, interruptions, lost>>
-----------------------------------------------------------------------------
ScriptStep ==
    AttachResumed \/ SendDeployment \/ Deployed \/ WriteStep \/ WriteThrows \/ Complete

HandoffStep == HandoffStarts \/ HandoffSends \/ HandoffReceipt \/ HandoffStops

Next == Run \/ ScriptStep \/ Interrupted \/ Mine \/ PendingLost \/ HandoffStep \/ Govern

\* The operator starts a failed script again.
RunAgain == phase \in {"idle", "failed"} /\ Run

\* Something goes on as long as the script can run on, the chain has something to mine or
\* there is a failed script to start again.
Fairness == WF_vars(ScriptStep \/ Mine \/ RunAgain)

Spec == Init /\ [][Next]_vars /\ Fairness
-----------------------------------------------------------------------------
\* The sources that the handoff's configuration revokes.
Withdrawn ==
    {Sources[i].source : i \in {j \in DOMAIN Sources : ~Sources[j].approved}}
      \union (IF Revokes THEN {Bootstrap} ELSE {})

\* What verify-phase1a.js checks of a system, and the routers of the sinks, which it
\* does not look at.  The bootstrap source may have been revoked by then.
BootstrapMayGo == revoked \/ Bootstrap \in Withdrawn

Wired(sys) ==
    \A i \in DOMAIN Steps :
      LET s == Steps[i] IN
      s.do = "write" /\ ~(BootstrapMayGo /\ s.slot = Bootstrap) => FactOf(s, sys) \in facts

\* The observers of DoveCore, which is one itself.
ObserverCount(sys) ==
    1 + Cardinality({f \in facts : f.of = <<"dove", sys["dove"]>> /\ f.slot = "observers"})

\* A deployment that completes is wired once its transactions are mined, although the
\* script does not wait for them (phase1a-sequence.js:228-231), unless the node lost
\* some of them, or the deployer lost the right to make them, during that run: whatever
\* earlier runs left half done, lost or still pending, the checks of the last one see to
\* it.  It has the observers verify-phase1a counts, no more, when no checkpoint was ever
\* forgotten.
CompleteMeansWired ==
    phase = "complete" /\ mempool = <<>> /\ ~lost =>
      /\ Wired(system)
      /\ recorded = Contracts(system) => ObserverCount(system) = Len(SinkOrder) + 5

\* No contract is wired to anything before a checkpoint lists it, so that a contract
\* whose deployment is mined in the moment the script dies, and which no later run
\* will know of, is an orphan and harmless (phase1a-sequence.js:110-126).
RecordedBeforeUsed ==
    \A f \in facts \union {tx.fact : tx \in {t \in ToSet(mempool) : t.do = "write"}} :
      {f.of} \union Contracts(f.to) \subseteq recorded

\* The deployment whose receipt the script awaits is neither mined nor pending.
AwaitedLost ==
    /\ awaiting # 0
    /\ deployed[Here.key] + Cardinality(PendingDeployments(Here.key)) < awaiting

\* One interruption, a crash of the script between two writes of its files or a loss of
\* its transactions, at whatever step it comes, does not keep the deployment of an
\* authorised deployer from completing.  Three things may.  Half a checkpoint stops every
\* later start (deploy-phase1a.js:14-34).  A script that awaits the receipt of a lost
\* deployment has to be stopped by the operator, which is a second interruption.  And two
\* interruptions: see ResumesFromCheckpoint.
SurvivesOneInterruption ==
    [](/\ interruptions <= 1 /\ ~torn /\ ~AwaitedLost
       /\ \A g \in DOMAIN owner : MayGovern(g, Deployer)) => <>(phase = "complete")

\* A configuration that revokes a source only after it has approved one that it does not
\* revoke: "add it first", "revoke the bootstrap source only after"
\* (docs/SLOT_SOURCE_HANDOFF.md:52-54).  The script does not check that it is one.
Lasting(i) == Sources[i].approved /\ Sources[i].source \notin Withdrawn

Orderly ==
    /\ \A i \in DOMAIN Sources : ~Sources[i].approved => \E j \in 1..(i - 1) : Lasting(j)
    /\ Revokes => \E j \in DOMAIN Sources : Lasting(j)

\* With an orderly configuration a receiver that has an approved source always has one,
\* through handoffs that are killed, refused or left pending halfway, repeated
\* deployments, lost transactions and changes of owner, until governance revokes a source
\* itself: what the handoff counts on may be gone then.  That the new source "can receive
\* inflow" and "is confirmed" before the bootstrap source goes, as the same document asks
\* (lines 53-54), is no part of it: the script revokes in the same batch.
HasSource(n) ==
    \E f \in facts : f.of = <<"receiver", n>> /\ f.slot \in SourceNames

AlwaysASource ==
    [][Orderly /\ ~revoked' =>
         \A n \in 1..deployed["receiver"] : HasSource(n) => HasSource(n)']_vars

\* "Rerunning the deploy command resumes from the saved checkpoint"
\* (docs/PHASE1A_DEPLOYMENT_SEQUENCE.md:134; "without redeploying or rewiring",
\* test/phase1a.expansion.js:33): no contract is deployed again that a checkpoint has
\* listed.
ResumesFromCheckpoint ==
    phase = "running" /\ awaiting # 0 =>
      \A n \in 1..deployed[Here.key] : <<Here.key, n>> \notin recorded
=============================================================================
