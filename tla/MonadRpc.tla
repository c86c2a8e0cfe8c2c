------------------------------ MODULE MonadRpc ------------------------------
(***************************************************************************)
(* The WebSocket client of the Monad market agent                           *)
(* (monad-market-agent/src/adapters/rpc.ts).  Connections are numbered in   *)
(* the order they are established; provider is 0 while connect loops: what  *)
(* this.provider holds then is under test, and destroyed when the test      *)
(* fails.  The test has no time limit, and the socket under test has no      *)
(* error listener: only an established connection has listeners, and it is   *)
(* destroyed because its socket has closed, so that one reconnect runs at a *)
(* time and this.reconnecting is provider = 0 after the first connection.   *)
(***************************************************************************)
EXTENDS Integers, FiniteSets

CONSTANTS
    Endpoints,   \* number of WebSocket endpoints, the configured one first
    Accepting,   \* endpoints that pass the test of the connection
    Refusing,    \* endpoints whose socket cannot be opened; those in neither set
                 \* answer the test with an error, such as a rate limit
    Pushing,     \* endpoints whose block subscription delivers blocks
    MaxFaults    \* bound on everything that goes wrong

RotateAfter == 3

ASSUME RpcAssumption ==
    /\ Endpoints \in Nat \ {0}
    /\ Accepting \subseteq 1 .. Endpoints /\ Refusing \subseteq 1 .. Endpoints
    /\ Accepting \intersect Refusing = {}
    /\ Pushing \subseteq Accepting
    /\ MaxFaults \in Nat

VARIABLES
    provider,   \* the connection in use, 0 while there is none
    opened,     \* connections established since the process started
    endpoint,   \* currentEndpointIndex
    failures,   \* consecutiveFailures of the connect loop
    unanswered, \* the test under way is never answered: connect awaits it for ever
    attached,   \* the connection in use has a block listener
    checks,     \* subscriptions whose 5 s check is pending and that are silent so far
    callback,   \* blockCallback is set
    polling,    \* pollTimer is set
    lastPolled, \* lastPolledBlock
    faults      \* what has gone wrong so far

rpcVars == <<provider, opened, endpoint, failures, unanswered, attached, checks,
             callback, polling, lastPolled, faults>>

Connected == provider # 0

\* connect awaits the answer of the endpoint to its test.
Testing == ~Connected /\ ~unanswered

\* Something goes wrong.
Fault ==
    /\ faults < MaxFaults
    /\ faults' = faults + 1

\* A new client, in the first turn of connect.
RpcInit ==
    /\ provider = 0 /\ opened = 0 /\ endpoint = 1 /\ failures = 0
    /\ unanswered = FALSE
    /\ attached = FALSE /\ checks = {} /\ callback = FALSE
    /\ polling = FALSE /\ lastPolled = 0 /\ faults = 0

ClientLost ==
    /\ provider' = 0 /\ opened' = 0 /\ endpoint' = 1 /\ failures' = 0
    /\ unanswered' = FALSE
    /\ attached' = FALSE /\ checks' = {} /\ callback' = FALSE
    /\ polling' = FALSE /\ lastPolled' = 0
-----------------------------------------------------------------------------
\* The endpoint answers with an error, always or this time.
AnsweredWithError ==
    \/ endpoint \notin Accepting \union Refusing /\ UNCHANGED faults
    \/ endpoint \in Accepting /\ Fault

\* Mutant: the client stays with its endpoint.
ConnectFails_NoRotation ==
    /\ Testing
    /\ AnsweredWithError
    /\ failures' = (failures + 1) % RotateAfter
    /\ UNCHANGED <<provider, opened, endpoint, unanswered, attached, checks, callback,
                   polling, lastPolled>>

\* The test fails; after RotateAfter failures in a row, or at once when the
\* endpoint answers that its rate limit is reached, the next endpoint is tried.
ConnectFails ==
    /\ Testing
    /\ AnsweredWithError
    /\ \E rateLimited \in BOOLEAN :
         IF rateLimited \/ failures + 1 >= RotateAfter
         THEN endpoint' = (endpoint % Endpoints) + 1 /\ failures' = 0
         ELSE failures' = failures + 1 /\ UNCHANGED endpoint
    /\ UNCHANGED <<provider, opened, unanswered, attached, checks, callback, polling,
                   lastPolled>>

\* The endpoint does not answer, or drops the socket before it is watched for
\* its close: the loop is stuck in this turn.
ConnectHangs ==
    /\ Testing
    /\ Fault
    /\ unanswered' = TRUE
    /\ UNCHANGED <<provider, opened, endpoint, failures, attached, checks, callback, polling,
                   lastPolled>>

\* The socket reports an error, with no listener for it: an uncaught exception,
\* at which the process shuts down.
ConnectRefused ==
    /\ Testing
    /\ \/ endpoint \in Refusing /\ UNCHANGED faults
       \/ endpoint \notin Refusing /\ Fault
    /\ ClientLost

\* onBlock on connection p.
OnBlock(p) ==
    /\ callback' = TRUE
    /\ attached' = TRUE
    /\ checks' = checks \union {p}

\* The test of the connection succeeds; a reconnect subscribes to blocks again.
ConnectSucceeds ==
    /\ Testing
    /\ endpoint \in Accepting
    /\ provider' = opened + 1
    /\ opened' = opened + 1
    /\ failures' = 0
    /\ IF callback THEN OnBlock(opened + 1) ELSE UNCHANGED <<callback, attached, checks>>
    /\ UNCHANGED <<endpoint, unanswered, polling, lastPolled, faults>>

\* The socket of the connection closes: its provider is destroyed and connect
\* starts over.  Its check and the polling timer go on.
SocketCloses ==
    /\ Connected
    /\ Fault
    /\ provider' = 0
    /\ attached' = FALSE
    /\ failures' = 0
    /\ UNCHANGED <<opened, endpoint, unanswered, checks, callback, polling, lastPolled>>

\* Mutant: the check only gives up the subscription.
CheckFires_NoPolling(p) ==
    /\ p \in checks
    /\ checks' = checks \ {p}
    /\ attached' = (attached /\ ~callback)
    /\ UNCHANGED <<provider, opened, endpoint, failures, unanswered, callback, polling,
                   lastPolled, faults>>

\* Five seconds after onBlock, with no block from that subscription.  The check
\* works on the connection in use by now, which may be another one.
CheckFires(p) ==
    /\ p \in checks
    /\ checks' = checks \ {p}
    /\ attached' = (attached /\ ~callback)
    /\ polling' = (polling \/ callback)
    /\ UNCHANGED <<provider, opened, endpoint, failures, unanswered, callback, lastPolled,
                   faults>>

\* The subscription can deliver a block, and does: its check will do nothing.
Pushes ==
    /\ Connected /\ attached /\ callback
    /\ endpoint \in Pushing
    /\ checks' = checks \ {provider}
    /\ UNCHANGED <<provider, opened, endpoint, failures, unanswered, attached, callback,
                   polling, lastPolled, faults>>

\* A poll that returns a block it has not returned before.
Polls(block) ==
    /\ Connected /\ polling /\ callback
    /\ block > lastPolled
    /\ lastPolled' = block
    /\ UNCHANGED <<provider, opened, endpoint, failures, unanswered, attached, checks,
                   callback, polling, faults>>
=============================================================================
