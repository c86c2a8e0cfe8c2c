--------------------------- MODULE BridgeExecBot ----------------------------
(***************************************************************************)
(* The bridge executor (bridge-exec-bot/src/service.ts): it handles its     *)
(* inbox of requests in order, and submits a Wormhole transfer for each     *)
(* when it runs live.  A request is known by its place in the inbox.        *)
(***************************************************************************)
EXTENDS Integers, Sequences, FiniteSets

CONSTANTS
    Requests,     \* number of requests
    BridgeFaults  \* bound on calls and sends gone wrong, restarts and rebalances

ASSUME BridgeAssumption == Requests \in Nat /\ BridgeFaults \in Nat

VARIABLES
    bridgeLive,     \* not in dry run, with a wallet
    verified,       \* bridgeContractVerified
    bridgePosition, \* requests handled, since the inbox was last read again
    bridgeReads,    \* per request: how often it was handled
    bridgeHand,     \* what the handler is doing
    expired,        \* requests whose deadline has passed
    transfers,      \* the transfers submitted: request and state on the chain
    bridgeResults,  \* execution.bridge-result
    bridgeFaults,
    bridgeRereads   \* times the inbox was read again from an earlier offset

bridgeVars == <<bridgeLive, verified, bridgePosition, bridgeReads, bridgeHand, expired,
                transfers, bridgeResults, bridgeFaults, bridgeRereads>>

NoTransfer == 0
Doing(step, request, success, transfer) ==
    [step |-> step, request |-> request, success |-> success, transfer |-> transfer]
NothingToDo == Doing("idle", 0, FALSE, NoTransfer)

\* start: the contract is verified once, in live mode.
BridgeInit ==
    /\ bridgeLive \in BOOLEAN
    /\ verified \in {v \in BOOLEAN : v => bridgeLive}
    /\ bridgePosition = 0
    /\ bridgeReads = [r \in 1 .. Requests |-> 0]
    /\ bridgeHand = NothingToDo
    /\ expired = {}
    /\ transfers = << >>
    /\ bridgeResults = {}
    /\ bridgeFaults = 0 /\ bridgeRereads = 0

BridgeFault == bridgeFaults < BridgeFaults /\ bridgeFaults' = bridgeFaults + 1

Submitted(r) == Append(transfers, [request |-> r, state |-> "pending"])

\* handleMessage up to the confirmation: the early returns of executeBridge, a
\* submission that fails, one whose answer is lost, and one that succeeds.
HandleRequest ==
    LET r == bridgePosition + 1
        EarlyReturn(success) ==
            /\ bridgeHand' = Doing("emit", r, success, NoTransfer)
            /\ UNCHANGED <<transfers, bridgeFaults>>
    IN  /\ bridgeHand = NothingToDo
        /\ r <= Requests
        /\ bridgeReads' = [bridgeReads EXCEPT ![r] = @ + 1]
        /\ \/ r \in expired /\ EarlyReturn(FALSE)
           \/ r \notin expired /\ ~bridgeLive /\ EarlyReturn(TRUE)
           \/ r \notin expired /\ bridgeLive /\ ~verified /\ EarlyReturn(FALSE)
           \/ /\ r \notin expired /\ bridgeLive /\ verified
              /\ \/ /\ bridgeHand' = Doing("confirm", r, FALSE, Len(transfers) + 1)
                    /\ transfers' = Submitted(r)
                    /\ UNCHANGED bridgeFaults
                 \/ /\ BridgeFault
                    /\ bridgeHand' = Doing("emit", r, FALSE, NoTransfer)
                    /\ transfers' \in {transfers, Submitted(r)}
        /\ UNCHANGED <<bridgeLive, verified, bridgePosition, expired, bridgeResults, bridgeRereads>>

\* Mutant: a confirmation that does not come in time counts as success.
ConfirmationTimeout_Success ==
    /\ bridgeHand.step = "confirm"
    /\ bridgeHand' = [bridgeHand EXCEPT !.step = "emit", !.success = TRUE]
    /\ UNCHANGED <<bridgeLive, verified, bridgePosition, bridgeReads, expired, transfers,
                   bridgeResults, bridgeFaults, bridgeRereads>>

\* Mutant: a confirmation that does not come in time is followed by a second
\* submission.
ConfirmationTimeout_Resubmit ==
    /\ bridgeHand.step = "confirm"
    /\ BridgeFault
    /\ bridgeHand' = [bridgeHand EXCEPT !.transfer = Len(transfers) + 1]
    /\ transfers' = Submitted(bridgeHand.request)
    /\ UNCHANGED <<bridgeLive, verified, bridgePosition, bridgeReads, expired,
                   bridgeResults, bridgeRereads>>

\* The confirmation does not come in time: failure is reported, whatever becomes
\* of the transfer.
ConfirmationTimeout ==
    /\ bridgeHand.step = "confirm"
    /\ bridgeHand' = [bridgeHand EXCEPT !.step = "emit", !.transfer = NoTransfer]
    /\ UNCHANGED <<bridgeLive, verified, bridgePosition, bridgeReads, expired, transfers,
                   bridgeResults, bridgeFaults, bridgeRereads>>

\* The receipt comes; waiting for a reverted transaction throws.
Confirmation ==
    /\ bridgeHand.step = "confirm"
    /\ transfers[bridgeHand.transfer].state # "pending"
    /\ bridgeHand' = [bridgeHand EXCEPT
         !.step = "emit", !.success = transfers[bridgeHand.transfer].state = "mined"]
    /\ UNCHANGED <<bridgeLive, verified, bridgePosition, bridgeReads, expired, transfers,
                   bridgeResults, bridgeFaults, bridgeRereads>>

\* emitResult.  When the send fails the result is lost and the message handled.
EmitBridgeResult ==
    /\ bridgeHand.step = "emit"
    /\ \/ /\ bridgeResults' = bridgeResults \union {bridgeHand}
          /\ UNCHANGED bridgeFaults
       \/ BridgeFault /\ UNCHANGED bridgeResults
    /\ bridgePosition' = bridgePosition + 1
    /\ bridgeHand' = NothingToDo
    /\ UNCHANGED <<bridgeLive, verified, bridgeReads, expired, transfers, bridgeRereads>>

\* The chain settles a transfer, in time or not.
TransferSettles(i) ==
    /\ transfers[i].state = "pending"
    /\ \E state \in {"mined", "reverted"} : transfers' = [transfers EXCEPT ![i].state = state]
    /\ UNCHANGED <<bridgeLive, verified, bridgePosition, bridgeReads, bridgeHand, expired,
                   bridgeResults, bridgeFaults, bridgeRereads>>

DeadlinePasses(r) ==
    /\ expired' = expired \union {r}
    /\ UNCHANGED <<bridgeLive, verified, bridgePosition, bridgeReads, bridgeHand, transfers,
                   bridgeResults, bridgeFaults, bridgeRereads>>

\* The inbox is read again, from the committed offset.
BridgeReadsAgain ==
    /\ BridgeFault
    /\ bridgeRereads' = bridgeRereads + 1
    /\ bridgePosition' \in 0 .. bridgePosition
    /\ bridgeHand' = NothingToDo

\* The bot is killed and started again: the contract is verified again, with
\* success or not.
BridgeRestart ==
    /\ BridgeReadsAgain
    /\ verified' \in {v \in BOOLEAN : v => bridgeLive}
    /\ UNCHANGED <<bridgeLive, bridgeReads, expired, transfers, bridgeResults>>

\* The broker has taken the bot for dead: it sends no heartbeat while a handler
\* waits, up to 120 s with a session of 30 s.  It joins again between messages.
BridgeRejoin ==
    /\ bridgeHand = NothingToDo
    /\ BridgeReadsAgain
    /\ UNCHANGED <<bridgeLive, verified, bridgeReads, expired, transfers, bridgeResults>>

BridgeNext ==
    \/ HandleRequest
    \/ Confirmation
    \/ ConfirmationTimeout
    \/ EmitBridgeResult
    \/ \E i \in DOMAIN transfers : TransferSettles(i)
    \/ \E r \in (1 .. Requests) \ expired : DeadlinePasses(r)
    \/ BridgeRestart
    \/ BridgeRejoin

BridgeSpec == BridgeInit /\ [][BridgeNext]_bridgeVars
-----------------------------------------------------------------------------
\* A success reported in live mode names a transfer of that request that the
\* chain has executed (service.ts:194-210).
BridgeSuccessMined ==
    \A result \in bridgeResults : result.success /\ bridgeLive =>
        /\ result.transfer \in DOMAIN transfers
        /\ transfers[result.transfer] = [request |-> result.request, state |-> "mined"]

TransfersOf(r) == {i \in DOMAIN transfers : transfers[i].request = r}

\* A request moves assets at most once for each time it is read, and it is read
\* once more at most for each restart and each rebalance of the consumer group:
\* the timeout of service.ts:194-199 does not by itself repeat a transfer,
\* although the late one may still be mined.  A request that is read again does
\* move assets again.
BridgedOncePerRead ==
    \A r \in 1 .. Requests :
        /\ Cardinality(TransfersOf(r)) <= bridgeReads[r]
        /\ bridgeReads[r] <= 1 + bridgeRereads
=============================================================================
