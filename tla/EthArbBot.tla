----------------------------- MODULE EthArbBot ------------------------------
(***************************************************************************)
(* The Ethereum bot (eth-arb-bot/src): it handles its inbox of plans in     *)
(* order, and submits a swap for each, approved or not, when it runs live:  *)
(* to the public mempool, where it waits for the receipt, or to a Flashbots *)
(* relay, where it does not.  A plan is known by its place in the inbox.    *)
(***************************************************************************)
EXTENDS Integers, Sequences, FiniteSets

CONSTANTS
    Plans,       \* number of plans
    ArbFaults    \* bound on calls and sends gone wrong, restarts and rebalances

BlocksAhead == 3

ASSUME ArbAssumption == Plans \in Nat /\ ArbFaults \in Nat

VARIABLES
    arbMode,      \* "dry", "public", "relay"
    arbPosition,  \* plans handled, since the inbox was last read again
    arbReads,     \* per plan: how often it was handled
    arbHand,      \* what the handler is doing
    nonce,        \* transactions of the account that the chain has included
    swaps,        \* the transactions submitted: plan, nonce, state
    arbResults,   \* execution.eth-result
    arbFaults,
    arbRereads    \* times the inbox was read again from an earlier offset

arbVars == <<arbMode, arbPosition, arbReads, arbHand, nonce, swaps, arbResults, arbFaults,
             arbRereads>>

NoSwap == 0
ArbDoing(step, plan, success, swap) ==
    [step |-> step, plan |-> plan, success |-> success, swap |-> swap]
ArbIdle == ArbDoing("idle", 0, FALSE, NoSwap)

ArbInit ==
    /\ arbMode \in {"dry", "public", "relay"}
    /\ arbPosition = 0
    /\ arbReads = [p \in 1 .. Plans |-> 0]
    /\ arbHand = ArbIdle
    /\ nonce = 0
    /\ swaps = << >>
    /\ arbResults = {}
    /\ arbFaults = 0 /\ arbRereads = 0

ArbFault == arbFaults < ArbFaults /\ arbFaults' = arbFaults + 1

\* A transaction for the plan, signed with the nonce that comes next according
\* to the chain: one that is submitted and not included does not count.
Signed(plan) == [plan |-> plan, nonce |-> nonce, state |-> "pending"]
InPool == {i \in DOMAIN swaps : swaps[i].state = "pending" /\ swaps[i].nonce = nonce}

\* The plan is answered without a swap: a dry run, or a call that fails first.
PlanAnswered(plan) ==
    /\ \/ arbMode = "dry" /\ arbHand' = ArbDoing("emit", plan, TRUE, NoSwap) /\ UNCHANGED arbFaults
       \/ arbMode # "dry" /\ arbHand' = ArbDoing("emit", plan, FALSE, NoSwap) /\ ArbFault
    /\ UNCHANGED swaps

\* sendBundle: the same transaction is offered for one block after the other.
\* The first hash is success; after BlocksAhead refusals or timeouts it is
\* failure, although the relay may have accepted it at one that timed out.
BundleSent(plan) ==
    /\ arbMode = "relay"
    /\ \E refused \in 0 .. BlocksAhead, kept \in BOOLEAN :
         IF refused < BlocksAhead
         THEN /\ ~kept
              /\ arbHand' = ArbDoing("emit", plan, TRUE, Len(swaps) + 1)
              /\ swaps' = Append(swaps, Signed(plan))
              /\ UNCHANGED arbFaults
         ELSE /\ ArbFault
              /\ arbHand' = ArbDoing("emit", plan, FALSE, NoSwap)
              /\ swaps' = IF kept THEN Append(swaps, Signed(plan)) ELSE swaps

\* The pool with one more transaction, which replaces one with its nonce.
InThePool(plan) ==
    Append([i \in DOMAIN swaps |->
              IF i \in InPool THEN [swaps[i] EXCEPT !.state = "dropped"] ELSE swaps[i]],
           Signed(plan))

\* The public mempool takes the transaction, takes it and its answer is lost, or
\* refuses it because one with its nonce is there, which a restart, a lost answer
\* or a wait given up has left behind.
SwapBroadcast(plan) ==
    /\ arbMode = "public"
    /\ \/ /\ arbHand' = ArbDoing("wait", plan, FALSE, Len(swaps) + 1)
          /\ swaps' = InThePool(plan)
          /\ UNCHANGED arbFaults
       \/ /\ ArbFault
          /\ arbHand' = ArbDoing("emit", plan, FALSE, NoSwap)
          /\ swaps' = InThePool(plan)
       \/ /\ InPool # {}
          /\ arbHand' = ArbDoing("emit", plan, FALSE, NoSwap)
          /\ UNCHANGED <<swaps, arbFaults>>

\* handleMessage up to the receipt.
HandlePlan ==
    LET plan == arbPosition + 1
    IN  /\ arbHand = ArbIdle
        /\ plan <= Plans
        /\ arbReads' = [arbReads EXCEPT ![plan] = @ + 1]
        /\ PlanAnswered(plan) \/ BundleSent(plan) \/ SwapBroadcast(plan)
        /\ UNCHANGED <<arbMode, arbPosition, nonce, arbResults, arbRereads>>

\* Mutant: the bot does not wait for the receipt.
Receipt_NotAwaited ==
    /\ arbHand.step = "wait"
    /\ arbHand' = [arbHand EXCEPT !.step = "emit", !.success = TRUE]
    /\ UNCHANGED <<arbMode, arbPosition, arbReads, nonce, swaps, arbResults, arbFaults,
                   arbRereads>>

\* The receipt comes; waiting for a transaction that reverted throws, and so does
\* a call that fails meanwhile, whatever becomes of the transaction.  There is no
\* timeout: until then no further plan is handled.
Receipt ==
    /\ arbHand.step = "wait"
    /\ \/ /\ swaps[arbHand.swap].state \in {"swapped", "reverted"}
          /\ arbHand' = [arbHand EXCEPT
               !.step = "emit", !.success = swaps[arbHand.swap].state = "swapped"]
          /\ UNCHANGED arbFaults
       \/ /\ ArbFault
          /\ arbHand' = [arbHand EXCEPT !.step = "emit"]
    /\ UNCHANGED <<arbMode, arbPosition, arbReads, nonce, swaps, arbResults, arbRereads>>

\* emitResult.  When the send fails the result is lost and the message handled.
EmitEthResult ==
    /\ arbHand.step = "emit"
    /\ \/ arbResults' = arbResults \union {arbHand} /\ UNCHANGED arbFaults
       \/ ArbFault /\ UNCHANGED arbResults
    /\ arbPosition' = arbPosition + 1
    /\ arbHand' = ArbIdle
    /\ UNCHANGED <<arbMode, arbReads, nonce, swaps, arbRereads>>

\* The chain includes the transaction with the next nonce, of which there may be
\* several in bundles.
SwapIncluded(i) ==
    /\ i \in InPool
    /\ \E state \in {"swapped", "reverted"} : swaps' = [swaps EXCEPT ![i].state = state]
    /\ nonce' = nonce + 1
    /\ UNCHANGED <<arbMode, arbPosition, arbReads, arbHand, arbResults, arbFaults, arbRereads>>

\* The block a bundle was for passes without it.
BundleExpires(i) ==
    /\ arbMode = "relay" /\ swaps[i].state = "pending"
    /\ swaps' = [swaps EXCEPT ![i].state = "dropped"]
    /\ UNCHANGED <<arbMode, arbPosition, arbReads, arbHand, nonce, arbResults, arbFaults,
                   arbRereads>>

\* The inbox is read again, from the committed offset.
ArbReadsAgain ==
    /\ ArbFault
    /\ arbRereads' = arbRereads + 1
    /\ arbPosition' \in 0 .. arbPosition
    /\ arbHand' = ArbIdle
    /\ UNCHANGED <<arbMode, arbReads, nonce, swaps, arbResults>>

\* The bot is killed and started again.
ArbRestart == ArbReadsAgain

\* The broker has taken the bot for dead, which sends no heartbeat while it waits
\* for a receipt: it joins again between messages.
ArbRejoin == arbHand = ArbIdle /\ ArbReadsAgain

ArbNext ==
    \/ HandlePlan
    \/ Receipt
    \/ EmitEthResult
    \/ \E i \in DOMAIN swaps : SwapIncluded(i) \/ BundleExpires(i)
    \/ ArbRestart
    \/ ArbRejoin

ArbSpec == ArbInit /\ [][ArbNext]_arbVars
-----------------------------------------------------------------------------
\* A success reported for a swap in the public mempool names one that the chain
\* has executed for that plan.  With the relay it names one that was accepted,
\* and may be one of several with the same nonce, at most one of which will be
\* included (service.ts:151, 161-165).
ArbSuccessMined ==
    \A result \in arbResults : result.success /\ arbMode # "dry" =>
        /\ result.swap \in DOMAIN swaps
        /\ swaps[result.swap].plan = result.plan
        /\ arbMode = "public" => swaps[result.swap].state = "swapped"

Included(plan) == {i \in DOMAIN swaps :
    swaps[i].plan = plan /\ swaps[i].state \in {"swapped", "reverted"}}

\* A plan is swapped at most once for each time it is read, although a bundle is
\* offered several times, and read once more at most for each restart and each
\* rebalance of the consumer group.
SwappedOncePerRead ==
    \A plan \in 1 .. Plans :
        /\ Cardinality(Included(plan)) <= arbReads[plan]
        /\ arbReads[plan] <= 1 + arbRereads
=============================================================================
