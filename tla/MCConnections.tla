--------------------------- MODULE MCConnections ---------------------------
(***************************************************************************)
(* The components that live with connections which break, side by side:    *)
(* the PostgreSQL adapter with two threads on one connection and a caller  *)
(* on another; Node with three calls, of which the callback of one makes   *)
(* another; the cluster client with two peers; the router with two members *)
(* and three calls.  They share nothing, so a behaviour moves one of them, *)
(* named by part, and the others stay in their initial states.             *)
(***************************************************************************)
EXTENDS PostgresStorage, TLC

CONSTANTS c1, c2, c3, a1, a2, k1, k2, k3

MCHome == (c1 :> a1) @@ (c2 :> a1) @@ (c3 :> a2)

VARIABLES
    part,
    token, end, wire, call, on, running, stopped, faults, notes, runs,
    closing, peer, lease, cConn, cCall, cResults, cFaults, cRuns,
    rCall, expired, bytes, member, rConn, requests, rResults, owner, rStopped, rFaults, rRuns

N == INSTANCE Node WITH
    Calls <- {k1, k2, k3}, Follow <- (k1 :> k3) @@ (k2 :> None) @@ (k3 :> None),
    MaxSessions <- 2, MaxFaults <- 1, MaxNotes <- 0,
    QueueLimit <- 3, PendingLimit <- 2, InflightLimit <- 1, ConnectionLimit <- 1

\* One session and enough traffic to fill its queue before it is authenticated.
N2 == INSTANCE Node WITH
    Calls <- {k1, k2, k3}, Follow <- (k1 :> k3) @@ (k2 :> None) @@ (k3 :> None),
    MaxSessions <- 1, MaxFaults <- 1, MaxNotes <- 1,
    QueueLimit <- 3, PendingLimit <- 2, InflightLimit <- 1, ConnectionLimit <- 1

K == INSTANCE ClusterClient WITH
    Peers <- {1, 2}, Calls <- {k1, k2}, Idempotent <- {k2}, MaxFaults <- 1,
    conn <- cConn, call <- cCall, results <- cResults, faults <- cFaults, runs <- cRuns

R == INSTANCE EntityRouter WITH
    Calls <- {k1, k2, k3}, Keyed <- {k1}, Members <- {1, 2},
    Lookup <- (k1 :> "found") @@ (k2 :> "found") @@ (k3 :> "not_found"),
    Size <- (k1 :> 1) @@ (k2 :> 1) @@ (k3 :> 1), Requests <- 2, Bytes <- 2, MaxFaults <- 1,
    call <- rCall, conn <- rConn, results <- rResults, stopped <- rStopped,
    faults <- rFaults, runs <- rRuns

nodeVars == <<token, end, wire, call, on, running, stopped, faults, notes, runs>>
clusterVars == <<closing, peer, lease, cConn, cCall, cResults, cFaults, cRuns>>
routerVars ==
    <<rCall, expired, bytes, member, rConn, requests, rResults, owner, rStopped, rFaults, rRuns>>
allVars == <<part, vars, nodeVars, clusterVars, routerVars>>

\* Of the parts that have a choice of initial states, only the one that moves makes it.
AllInit ==
    /\ part \in {"postgres", "node", "queue", "cluster", "router"}
    /\ Init /\ N!Init /\ K!Init /\ R!Init
    /\ part \notin {"node", "queue"} => token
    /\ part # "router" => owner = 0

AllNext ==
    \/ part = "postgres" /\ Next /\ UNCHANGED <<part, nodeVars, clusterVars, routerVars>>
    \/ part = "node" /\ N!Next /\ UNCHANGED <<part, token, vars, clusterVars, routerVars>>
    \/ part = "queue" /\ N2!Next /\ UNCHANGED <<part, token, vars, clusterVars, routerVars>>
    \/ part = "cluster" /\ K!Next /\ UNCHANGED <<part, vars, nodeVars, routerVars>>
    \/ part = "router" /\ R!Next /\ UNCHANGED <<part, vars, nodeVars, clusterVars>>

AllSpec == AllInit /\ [][AllNext]_allVars
-----------------------------------------------------------------------------
\* Node: a pending call always has an open session that answers or fails it, no request is
\* repeated and ok means that the handler ran, the requests queued before the connection
\* is up leave room for the handshake, which is the first to be sent, and the counts of
\* pending calls and running handlers are exact and within their limits.
NodeSafe == part \in {"node", "queue"} =>
    /\ N!TypeOK /\ N!PendingHasSession /\ N!RunsOnce /\ N!HandshakeFits
    /\ N!HandshakeFirst /\ N!InflightExact

\* Node: a call that was answered is not answered again.
AnswerFinal == N!AnswerFinal

\* ClusterClient: a listed peer is connected, calls are sent once or, if idempotent, at
\* most twice, and no connection is leaked or closed by a late failure of an earlier one.
ClusterSafe == part = "cluster" =>
    K!TypeOK /\ K!ListedIsConnected /\ K!RunsBounded /\ K!NoOrphanConnection

\* EntityRouter: a method runs at most once for a call, an answer that sounds definite is,
\* a member has one live connection, the cached one, and the limits are charged exactly.
RouterSafe == part = "router" =>
    R!TypeOK /\ R!RunsAtMostOnce /\ R!DefiniteAnswers /\ R!NoOrphanConnection
=============================================================================
