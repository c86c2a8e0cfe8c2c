---------------------------- MODULE RevenueRail ----------------------------
(***************************************************************************)
(* The Phase 1a revenue rail: InboundReceiver, RevenueRouter and the six    *)
(* revenue sinks, with every operation governance may perform on them.      *)
(*                                                                          *)
(* One inflow is one transaction of several calls: the receiver accepts the *)
(* ether, the router records the split and calls the sinks one after the    *)
(* other, DataYield may pass its share on to MEV.  The calls are steps of   *)
(* the specification: `book' is the state they work on, `committed' the     *)
(* state of the chain.  A transaction that ends well commits the book; a    *)
(* failing require in any of the calls, or running out of gas, throws the   *)
(* book away (Revert).  Every other operation is a transaction of one step. *)
(* Observations go to Dove through a try/catch (DoveAware._observe) and     *)
(* cannot change the outcome, so they are left to DoveCore.                 *)
(***************************************************************************)
EXTENDS AllocationMath, Sequences, Sums

CONSTANTS
    OtherAddrs,     \* addresses of contracts this deployment has replaced
    Sources,        \* accounts that may become approved sources
    Founders,       \* accounts that may become the founder
    Inflows,        \* values, in wei, sent to the receiver
    Draws,          \* amounts asked of a withdrawal
    PolicyChoices,  \* policies proposed to updateAllocationPolicy
    Registrations,  \* <<name, address, active>> passed to registerSink
    MaxInflows,     \* bound on the number of inflows
    MaxPaid,        \* bound on what one sink pays out
    MaxGovOps,      \* bound on the number of governance operations
    StartSteps      \* how many of the deployment's wiring steps are done

Receiver == "RECEIVER"
Router == "ROUTER"
NoAddr == "NO_ADDR"

RouterAddrs == {Router} \union OtherAddrs
ReceiverAddrs == {Receiver} \union OtherAddrs
SinkAddrs == SinkNames \union OtherAddrs
Accounts == SinkNames \union {Receiver, Router}

ASSUME RailAssumption ==
    /\ OtherAddrs \intersect (Accounts \union {NoAddr}) = {}
    /\ Founders # {}
    /\ Inflows \subseteq Nat
    /\ Draws \subseteq Nat
    /\ PolicyChoices \subseteq AllocationPolicy
    /\ Registrations \subseteq SinkNames \X SinkAddrs \X BOOLEAN
    /\ MaxInflows \in Nat
    /\ MaxPaid \in Nat
    /\ MaxGovOps \in Nat
    /\ StartSteps \subseteq 0 .. 17

VARIABLES
    receiver,   \* InboundReceiver: its router, pause flag, approved sources
    router,     \* RevenueRouter: its receiver, pause flag, policy, registry
    sinks,      \* per sink contract: its router and pause flag
    dataYield,  \* DataYield: where it forwards to, and whether it still does
    mevSource,  \* MEV: the second caller it accepts
    founderCtl, \* Founder: the account that may draw, and the draw pause
    book,       \* what the transaction in progress has done so far
    committed,  \* what the chain holds
    tx,         \* the inflow in progress
    govOps      \* governance operations performed so far

config == <<receiver, router, sinks, dataYield, mevSource, founderCtl, govOps>>
flow == <<book, committed, tx>>
vars == <<receiver, router, sinks, dataYield, mevSource, founderCtl, book,
          committed, tx, govOps>>

\* The order in which processInflow calls the sinks.
RouteOrder ==
    <<"TREASURY", "MEV", "OPS_DEV", "DATA_YIELD", "DELEGATE_POOLS", "FOUNDER">>

InflowRecord == [amount : Nat, sender : Sources]
AllocationRecord == [totalInflow : Nat, shares : [SinkNames -> Nat]]
SinkConfig == [addr : SinkAddrs \union {NoAddr}, active : BOOLEAN]

Book == [inflows  : Seq(InflowRecord),          \* InboundReceiver._inflows
         history  : Seq(AllocationRecord),      \* RevenueRouter._history
         received : [SinkNames -> Nat],         \* _totalReceived of a sink
         paid     : [SinkNames -> Nat],         \* paid out, by its events
         bal      : [Accounts -> Nat],          \* ether held
         entered  : BOOLEAN]                    \* the router's reentrancy lock

NoShares == [s \in SinkNames |-> 0]
NoTx == [phase |-> "idle", amount |-> 0, shares |-> NoShares, next |-> 1]
EmptyBook == [inflows |-> << >>, history |-> << >>, received |-> NoShares,
              paid |-> NoShares, bal |-> [a \in Accounts |-> 0],
              entered |-> FALSE]
-----------------------------------------------------------------------------
\* The deployment wires the contracts by seventeen governance operations: it
\* registers the sinks, gives the router its receiver, gives the receiver and
\* the sinks their router, links DataYield to MEV and approves the sources.  The
\* rail may see traffic and further governance after any number of them.

SetRouterOrder ==
    <<"TREASURY", "MEV", "OPS_DEV", "DATA_YIELD", "FOUNDER", "DELEGATE_POOLS">>

RegisteredBy(k) == {RouteOrder[i] : i \in {j \in 1 .. 6 : j <= k}}
RoutedBy(k) == {SetRouterOrder[i] : i \in {j \in 1 .. 6 : j + 8 <= k}}

WiredUpTo(k) ==
    /\ receiver = [router |-> IF k >= 8 THEN Router ELSE NoAddr,
                   paused |-> FALSE,
                   approved |-> IF k >= 17 THEN Sources ELSE {}]
    /\ router = [receiver |-> IF k >= 7 THEN Receiver ELSE NoAddr,
                 paused |-> FALSE,
                 policy |-> InitialPolicy,
                 sinks |-> [s \in SinkNames |->
                              [addr |-> IF s \in RegisteredBy(k) THEN s ELSE NoAddr,
                               active |-> s \in RegisteredBy(k)]]]
    /\ sinks = [s \in SinkNames |->
                  [router |-> IF s \in RoutedBy(k) THEN Router ELSE NoAddr,
                   paused |-> FALSE]]
    /\ dataYield = [mevSink |-> IF k >= 15 THEN "MEV" ELSE NoAddr,
                    phase3Active |-> FALSE]
    /\ mevSource = IF k >= 16 THEN "DATA_YIELD" ELSE NoAddr

Init ==
    /\ \E k \in StartSteps : WiredUpTo(k)
    /\ founderCtl \in [founder : Founders, drawsPaused : {FALSE}]
    /\ book = EmptyBook
    /\ committed = EmptyBook
    /\ tx = NoTx
    /\ govOps = 0
-----------------------------------------------------------------------------
\* Governance.  Each operation is GovernanceController.execute, or
\* setEmergencyPause, calling one onlyGovernance function; when that function
\* reverts nothing changes.

Govern ==
    /\ tx.phase = "idle"
    /\ govOps < MaxGovOps
    /\ govOps' = govOps + 1
    /\ UNCHANGED flow

SetReceiverRouter(addr) ==
    /\ Govern
    /\ receiver.router = NoAddr
    /\ receiver' = [receiver EXCEPT !.router = addr]
    /\ UNCHANGED <<router, sinks, dataYield, mevSource, founderCtl>>

SetRouterReceiver(addr) ==
    /\ Govern
    /\ router.receiver = NoAddr
    /\ router' = [router EXCEPT !.receiver = addr]
    /\ UNCHANGED <<receiver, sinks, dataYield, mevSource, founderCtl>>

\* Mutant: the RouterAlreadySet check is missing.
SetSinkRouter_NotOnce(s, addr) ==
    /\ Govern
    /\ sinks' = [sinks EXCEPT ![s].router = addr]
    /\ UNCHANGED <<receiver, router, dataYield, mevSource, founderCtl>>

SetSinkRouter(s, addr) ==
    /\ Govern
    /\ sinks[s].router = NoAddr
    /\ sinks' = [sinks EXCEPT ![s].router = addr]
    /\ UNCHANGED <<receiver, router, dataYield, mevSource, founderCtl>>

PauseReceiver(isPaused) ==
    /\ Govern
    /\ receiver' = [receiver EXCEPT !.paused = isPaused]
    /\ UNCHANGED <<router, sinks, dataYield, mevSource, founderCtl>>

PauseRouter(isPaused) ==
    /\ Govern
    /\ router' = [router EXCEPT !.paused = isPaused]
    /\ UNCHANGED <<receiver, sinks, dataYield, mevSource, founderCtl>>

PauseSink(s, isPaused) ==
    /\ Govern
    /\ sinks' = [sinks EXCEPT ![s].paused = isPaused]
    /\ UNCHANGED <<receiver, router, dataYield, mevSource, founderCtl>>

SetApprovedSource(source, approved) ==
    /\ Govern
    /\ receiver' = [receiver EXCEPT !.approved =
                      IF approved THEN @ \union {source} ELSE @ \ {source}]
    /\ UNCHANGED <<router, sinks, dataYield, mevSource, founderCtl>>

RegisterSink(name, addr, isActive) ==
    /\ Govern
    /\ router' = [router EXCEPT !.sinks[name] = [addr |-> addr, active |-> isActive]]
    /\ UNCHANGED <<receiver, sinks, dataYield, mevSource, founderCtl>>

UpdateAllocationPolicy(p) ==
    /\ Govern
    /\ PolicyAccepted(p)
    /\ router' = [router EXCEPT !.policy = p]
    /\ UNCHANGED <<receiver, sinks, dataYield, mevSource, founderCtl>>

SetMevSink(addr) ==
    /\ Govern
    /\ dataYield' = [dataYield EXCEPT !.mevSink = addr]
    /\ UNCHANGED <<receiver, router, sinks, mevSource, founderCtl>>

SetPhase3Active(active) ==
    /\ Govern
    /\ dataYield' = [dataYield EXCEPT !.phase3Active = active]
    /\ UNCHANGED <<receiver, router, sinks, mevSource, founderCtl>>

SetDataYieldSource(addr) ==
    /\ Govern
    /\ mevSource' = addr
    /\ UNCHANGED <<receiver, router, sinks, dataYield, founderCtl>>

SetFounder(account) ==
    /\ Govern
    /\ founderCtl' = [founderCtl EXCEPT !.founder = account]
    /\ UNCHANGED <<receiver, router, sinks, dataYield, mevSource>>

SetDrawsPaused(paused) ==
    /\ Govern
    /\ founderCtl' = [founderCtl EXCEPT !.drawsPaused = paused]
    /\ UNCHANGED <<receiver, router, sinks, dataYield, mevSource>>
-----------------------------------------------------------------------------
\* The inflow transaction.

Moved(bal, from, to, amount) ==
    [bal EXCEPT ![from] = @ - amount, ![to] = @ + amount]

Transfer(b, from, to, amount) ==
    [b EXCEPT !.bal = Moved(b.bal, from, to, amount)]

\* RevenueSinkBase.receiveAllocation: who may call a sink, and what it accepts.
IsAuthorizedCaller(s, caller) ==
    \/ caller = sinks[s].router
    \/ s = "MEV" /\ caller = mevSource

CanReceive(s, caller, amount) ==
    /\ s \in SinkNames
    /\ IsAuthorizedCaller(s, caller)
    /\ ~sinks[s].paused
    /\ amount # 0

Credit(b, from, s, amount) ==
    [Transfer(b, from, s, amount) EXCEPT !.received[s] = @ + amount]

\* RevenueSinkDataYield._afterAllocation: before phase 3, with a MEV sink set,
\* DataYield forwards what it was just given.
Redirects(s) ==
    /\ s = "DATA_YIELD"
    /\ ~dataYield.phase3Active
    /\ dataYield.mevSink # NoAddr

\* Mutant: the forwarding call carries no value, and MEV does not compare.
Forward_WithoutValue(b, amount) ==
    [b EXCEPT !.received[dataYield.mevSink] = @ + amount,
              !.paid["DATA_YIELD"] = @ + amount]

Forward(b, amount) ==
    [Credit(b, "DATA_YIELD", dataYield.mevSink, amount)
        EXCEPT !.paid["DATA_YIELD"] = @ + amount]

Allocated(b, s, amount) ==
    LET credited == Credit(b, Router, s, amount)
    IN  IF Redirects(s) THEN Forward(credited, amount) ELSE credited

\* The call of a sink by _route succeeds: _sinkConfig finds an active entry,
\* the sink accepts the allocation, and so does the sink it is forwarded to.
CanRoute(entry, amount) ==
    /\ entry.addr # NoAddr
    /\ entry.active
    /\ CanReceive(entry.addr, Router, amount)
    /\ Redirects(entry.addr) =>
         CanReceive(dataYield.mevSink, "DATA_YIELD", amount)

\* receiveMonadSpinRevenue or receiveApprovedInflow: the receiver takes the
\* ether and records the inflow.
ReceiveInflow(source, amount) ==
    /\ tx.phase = "idle"
    /\ Len(committed.inflows) < MaxInflows
    /\ source \in receiver.approved
    /\ ~receiver.paused
    /\ receiver.router # NoAddr
    /\ amount # 0
    /\ book' = [committed EXCEPT
                  !.inflows = Append(@, [amount |-> amount, sender |-> source]),
                  !.bal[Receiver] = @ + amount]
    /\ tx' = [phase |-> "accepted", amount |-> amount, shares |-> NoShares, next |-> 1]
    /\ UNCHANGED <<committed, config>>

\* processInflow up to the first sink: the split is computed and recorded.
ProcessInflow ==
    /\ tx.phase = "accepted"
    /\ receiver.router = Router
    /\ router.receiver = Receiver
    /\ ~book.entered
    /\ ~router.paused
    /\ LET shares == CalculateAmounts(router.policy, tx.amount)
       IN  /\ book' = [Transfer(book, Receiver, Router, tx.amount) EXCEPT
                         !.entered = TRUE,
                         !.history = Append(@, [totalInflow |-> tx.amount,
                                                shares |-> shares])]
           /\ tx' = [tx EXCEPT !.phase = "routing", !.shares = shares]
    /\ UNCHANGED <<committed, config>>

\* Mutant: a sink that fails is skipped.
Route_SkipsFailure ==
    /\ tx.phase = "routing"
    /\ tx.next <= 6
    /\ LET name == RouteOrder[tx.next]
           entry == router.sinks[name]
       IN  book' = IF CanRoute(entry, tx.shares[name])
                   THEN Allocated(book, entry.addr, tx.shares[name])
                   ELSE book
    /\ tx' = [tx EXCEPT !.next = @ + 1]
    /\ UNCHANGED <<committed, config>>

\* One _route call.
Route ==
    /\ tx.phase = "routing"
    /\ tx.next <= 6
    /\ LET name == RouteOrder[tx.next]
           entry == router.sinks[name]
       IN  /\ CanRoute(entry, tx.shares[name])
           /\ book' = Allocated(book, entry.addr, tx.shares[name])
    /\ tx' = [tx EXCEPT !.next = @ + 1]
    /\ UNCHANGED <<committed, config>>

\* Mutant: processInflow returns before it routes the founder's share.
FinishInflow_OneSinkShort ==
    /\ tx.phase = "routing"
    /\ tx.next = 6
    /\ book' = [book EXCEPT !.entered = FALSE]
    /\ committed' = book'
    /\ tx' = NoTx
    /\ UNCHANGED config

\* The last sink has answered: processInflow releases the lock, the receiver
\* returns, the transaction commits.
FinishInflow ==
    /\ tx.phase = "routing"
    /\ tx.next = 7
    /\ book' = [book EXCEPT !.entered = FALSE]
    /\ committed' = book'
    /\ tx' = NoTx
    /\ UNCHANGED config

\* Mutant: the receiver ignores that the router's call failed.
Revert_ReceiverGoesOn ==
    /\ tx.phase # "idle"
    /\ book' = [committed EXCEPT !.inflows = book.inflows,
                                 !.bal[Receiver] = @ + tx.amount]
    /\ committed' = book'
    /\ tx' = NoTx
    /\ UNCHANGED config

\* A require fails in one of the calls, or the gas runs out.
Revert ==
    /\ tx.phase # "idle"
    /\ book' = committed
    /\ tx' = NoTx
    /\ UNCHANGED <<committed, config>>
-----------------------------------------------------------------------------
\* Withdrawals.  The recipient is outside the rail, whose contracts take no plain
\* ether.  If it refuses the ether the withdrawal reverts; if it calls back, the
\* balance has already been reduced, and the call is as good as a later one.

\* Mutant: the balance is not checked.
PayOut_Unchecked(s, amount) ==
    /\ tx.phase = "idle"
    /\ committed.paid[s] + amount <= MaxPaid
    /\ committed' = [committed EXCEPT !.bal[s] = @ - amount, !.paid[s] = @ + amount]
    /\ book' = committed'
    /\ UNCHANGED <<tx, config>>

PayOut(s, amount) ==
    /\ tx.phase = "idle"
    /\ committed.paid[s] + amount <= MaxPaid
    /\ amount <= committed.bal[s]
    /\ committed' = [committed EXCEPT !.bal[s] = @ - amount, !.paid[s] = @ + amount]
    /\ book' = committed'
    /\ UNCHANGED <<tx, config>>

WithdrawToEngine(amount) == PayOut("MEV", amount)

WithdrawOps(amount) == PayOut("OPS_DEV", amount)

Distribute(amount) == PayOut("DELEGATE_POOLS", amount)

FounderWithdraw(account, amount) ==
    /\ account = founderCtl.founder
    /\ ~founderCtl.drawsPaused
    /\ PayOut("FOUNDER", amount)
-----------------------------------------------------------------------------
GovernWiring ==
    \/ \E addr \in RouterAddrs : SetReceiverRouter(addr)
    \/ \E addr \in ReceiverAddrs : SetRouterReceiver(addr)
    \/ \E s \in SinkNames, addr \in RouterAddrs : SetSinkRouter(s, addr)
    \/ \E r \in Registrations : RegisterSink(r[1], r[2], r[3])
    \/ \E addr \in SinkAddrs : SetMevSink(addr)
    \/ \E addr \in SinkAddrs : SetDataYieldSource(addr)

GovernOperation ==
    \/ \E b \in BOOLEAN : PauseReceiver(b)
    \/ \E b \in BOOLEAN : PauseRouter(b)
    \/ \E s \in SinkNames, b \in BOOLEAN : PauseSink(s, b)
    \/ \E source \in Sources, b \in BOOLEAN : SetApprovedSource(source, b)
    \/ \E p \in PolicyChoices : UpdateAllocationPolicy(p)
    \/ \E b \in BOOLEAN : SetPhase3Active(b)
    \/ \E f \in Founders : SetFounder(f)
    \/ \E b \in BOOLEAN : SetDrawsPaused(b)

InflowStep ==
    \/ \E source \in Sources, amount \in Inflows : ReceiveInflow(source, amount)
    \/ ProcessInflow
    \/ Route
    \/ FinishInflow
    \/ Revert

Withdrawal ==
    \E amount \in Draws :
        \/ WithdrawToEngine(amount)
        \/ WithdrawOps(amount)
        \/ Distribute(amount)
        \/ \E f \in Founders : FounderWithdraw(f, amount)

Next == GovernWiring \/ GovernOperation \/ InflowStep \/ Withdrawal

Spec == Init /\ [][Next]_vars
-----------------------------------------------------------------------------
\* Properties.

ConfigTypeOK ==
    /\ receiver \in [router : RouterAddrs \union {NoAddr}, paused : BOOLEAN,
                     approved : SUBSET Sources]
    /\ router \in [receiver : ReceiverAddrs \union {NoAddr}, paused : BOOLEAN,
                   policy : AllocationPolicy, sinks : [SinkNames -> SinkConfig]]
    /\ PolicyAccepted(router.policy)
    /\ sinks \in [SinkNames -> [router : RouterAddrs \union {NoAddr}, paused : BOOLEAN]]
    /\ dataYield \in [mevSink : SinkAddrs \union {NoAddr}, phase3Active : BOOLEAN]
    /\ mevSource \in SinkAddrs \union {NoAddr}
    /\ founderCtl \in [founder : Founders, drawsPaused : BOOLEAN]
    /\ govOps \in 0 .. MaxGovOps

FlowTypeOK ==
    /\ book \in Book
    /\ committed \in Book
    /\ tx \in [phase : {"idle", "accepted", "routing"}, amount : Nat,
               shares : [SinkNames -> Nat], next : 1 .. 7]

\* Every variable has its type; in particular no balance is ever negative and
\* the installed policy is one that updateAllocationPolicy accepts.
TypeOK == ConfigTypeOK /\ FlowTypeOK

\* What the router still has to hand out when the sinks before `next' are done.
Unrouted(shares, next) ==
    Total([s \in SinkNames |->
             IF \E i \in next .. 6 : RouteOrder[i] = s THEN shares[s] ELSE 0])

\* In every state of an inflow, between any two calls, the ether that has not
\* reached a sink is with the one contract whose turn it is: the receiver holds
\* the amount until it calls the router, the router then holds exactly the
\* shares it has not routed yet, and between transactions neither holds a wei
\* and the reentrancy lock is free.
EtherInFlight ==
    /\ book.bal[Receiver] = IF tx.phase = "accepted" THEN tx.amount ELSE 0
    /\ book.bal[Router] =
         IF tx.phase = "routing" THEN Unrouted(tx.shares, tx.next) ELSE 0
    /\ book.entered <=> tx.phase = "routing"
    /\ tx.phase = "idle" => book = committed

\* A sink's _totalReceived is its balance plus everything it has paid out or
\* forwarded, at every step of every transaction.
SinkBooksBalance ==
    \A s \in SinkNames : book.received[s] = book.bal[s] + book.paid[s]

\* On the chain the receiver's list of inflows and the router's history tell the
\* same story: one allocation per inflow, in the same order, for its amount, and
\* with shares that add up to it.
HistoryMatchesInflows ==
    /\ Len(committed.history) = Len(committed.inflows)
    /\ \A i \in 1 .. Len(committed.history) :
         /\ committed.history[i].totalInflow = committed.inflows[i].amount
         /\ Total(committed.history[i].shares) = committed.inflows[i].amount

\* Whatever policies governance installs between inflows, every recorded
\* allocation gives the treasury its 40 % to within a wei.
TreasuryFloorInHistory ==
    \A i \in 1 .. Len(committed.history) :
        TreasuryFloorKept(committed.history[i].shares, committed.history[i].totalInflow)

\* getTotalInflowsInPeriod over the whole life of the receiver.
TotalInflow(b) ==
    SumUpTo([i \in 1 .. Len(b.inflows) |-> b.inflows[i].amount], Len(b.inflows))

\* Every wei ever received is in a sink or was paid out of one: the balances of
\* the six sinks and their withdrawals add up to the inflows on record.
EveryWeiRouted ==
    Total([s \in SinkNames |-> committed.bal[s]]) + Total(committed.paid)
        - committed.paid["DATA_YIELD"] = TotalInflow(committed)

\* Addresses lock once they are wired: no later operation of any kind replaces
\* the receiver's router, the router's receiver or a sink's router.
WiringLocked ==
    [][/\ receiver.router # NoAddr => receiver'.router = receiver.router
       /\ router.receiver # NoAddr => router'.receiver = router.receiver
       /\ \A s \in SinkNames :
            sinks[s].router # NoAddr => sinks'[s].router = sinks[s].router]_vars

\* The committed state of the rail behaves as the ledger: an inflow appears
\* whole, in one step, and only MEV, OpsDev, DelegatePools and Founder pay out.
Payers == {"MEV", "OPS_DEV", "DELEGATE_POOLS", "FOUNDER"}

Ledger == INSTANCE RailLedger WITH
            InflowRecords <- [amount : Inflows, sender : Sources],
            inflows <- committed.inflows,
            held <- [s \in SinkNames |-> committed.bal[s]],
            paid <- [s \in Payers |-> committed.paid[s]]

ImplementsLedger == Ledger!Spec

\* The founder never draws more than 5 % of what the rail took in.
FounderHardCap ==
    committed.paid["FOUNDER"] * BPS_DENOMINATOR
        <= TotalInflow(committed) * FOUNDER_MAX_BPS
=============================================================================
