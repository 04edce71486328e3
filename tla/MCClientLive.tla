---------------------------- MODULE MCClientLive ----------------------------
(***************************************************************************)
(* What the network side owes to those who wait, side by side: the router  *)
(* with two members; the cluster client with one peer; Node with a call    *)
(* whose callback makes another, and a notification; one client's replica  *)
(* of an entity; a gateway that migrates subscriptions between two nodes;  *)
(* a gateway with a watch, a presentation and a call that is not exposed;  *)
(* the client.  They share nothing, so a behaviour moves one of them,      *)
(* named by part, and the others stay in their initial states.             *)
(***************************************************************************)
EXTENDS Integers, Sequences, FiniteSets, TLC

CONSTANTS None, n1, n2, e1, e2, d1, d2, q1, q2, q3

VARIABLES
    part,
    rCall, expired, bytes, member, rConn, requests, rResults, owner, rStopped, rFaults, rRuns,
    closing, peer, lease, cConn, cCall, cResults, cFaults, cRuns,
    token, end, wire, call, on, running, nStopped, nFaults, notes, runs,
    hist, right, jobs, subs, stopped, projs, calls, up, down, uplink, serial, faults,
    home, rev, shown, mSerial, links, mCalls, stream, mSubs, control, cached, client,
    kicked, presented, possessed, mFaults,
    gateway, gFaults,
    app, aFaults

R == INSTANCE EntityRouter WITH
    Calls <- {q1, q2}, Keyed <- {q1}, Members <- {1, 2},
    Lookup <- (q1 :> "found") @@ (q2 :> "found"),
    Size <- (q1 :> 1) @@ (q2 :> 1), Requests <- 2, Bytes <- 2, MaxFaults <- 1,
    call <- rCall, conn <- rConn, results <- rResults, stopped <- rStopped,
    faults <- rFaults, runs <- rRuns

K == INSTANCE ClusterClient WITH
    Peers <- {1}, Calls <- {q1}, Idempotent <- {q1}, MaxFaults <- 2,
    conn <- cConn, call <- cCall, results <- cResults, faults <- cFaults, runs <- cRuns

N == INSTANCE Node WITH
    Calls <- {q1, q2}, Follow <- (q1 :> q2) @@ (q2 :> None),
    MaxSessions <- 1, MaxFaults <- 2, MaxNotes <- 1,
    QueueLimit <- 3, PendingLimit <- 2, InflightLimit <- 1, ConnectionLimit <- 1,
    stopped <- nStopped, faults <- nFaults

A == INSTANCE AttributeReplication WITH
    MaxRevision <- 2, MaxSubs <- 1, MaxCalls <- 2, MaxFaults <- 1, PerPeer <- 1

M == INSTANCE GatewayMigration WITH
    Nodes <- {n1, n2}, Entities <- {e1, e2}, MaxSubs <- 2, MaxCommits <- 0,
    MaxPossess <- 2, Hides <- FALSE, MaxFaults <- 1, Reshow <- FALSE,
    serial <- mSerial, calls <- mCalls, subs <- mSubs, faults <- mFaults

G == INSTANCE GatewayRequests WITH
    Clients <- {d1, d2}, Requests <- {q1, q2, q3},
    Client <- (q1 :> d1) @@ (q2 :> d1) @@ (q3 :> d2),
    Kind <- (q1 :> "watch") @@ (q2 :> "present") @@ (q3 :> "hidden"),
    Target <- [x \in {q1, q2, q3} |-> q1], Size <- [x \in {q1, q2, q3} |-> 1],
    MaxPending <- 2, MaxBytes <- 2, MaxLinks <- 2, MaxSessions <- 1, PerClient <- 1,
    MaxFaults <- 1, g <- gateway, faults <- gFaults

P == INSTANCE Client WITH
    Subs <- {1}, Requests <- {1}, MaxGen <- 3, MaxReacts <- 3, MaxFaults <- 2,
    g <- app, faults <- aFaults

routerVars ==
    <<rCall, expired, bytes, member, rConn, requests, rResults, owner, rStopped, rFaults, rRuns>>
clusterVars == <<closing, peer, lease, cConn, cCall, cResults, cFaults, cRuns>>
nodeVars == <<token, end, wire, call, on, running, nStopped, nFaults, notes, runs>>
replicationVars ==
    <<hist, right, jobs, subs, stopped, projs, calls, up, down, uplink, serial, faults>>
migrationVars ==
    <<home, rev, shown, mSerial, links, mCalls, stream, mSubs, control, cached, client,
      kicked, presented, possessed, mFaults>>
gatewayVars == <<gateway, gFaults>>
clientVars == <<app, aFaults>>
vars ==
    <<part, routerVars, clusterVars, nodeVars, replicationVars, migrationVars, gatewayVars,
      clientVars>>

\* Of the parts that have a choice of initial states, only the one that moves makes it.  The
\* two nodes are alike: the first entity begins on n1.
Init ==
    /\ part \in {"router", "cluster", "node", "replication", "migration", "gateway", "client"}
    /\ R!Init /\ K!Init /\ N!Init /\ A!Init /\ M!Init /\ G!Init /\ P!Init
    /\ part # "router" => owner = 0
    /\ part # "node" => token
    /\ part # "replication" => right = "owner"
    /\ home[e1] = n1 /\ (part # "migration" => home[e2] = n1)

OnlyRouter == part = "router" /\ UNCHANGED
    <<part, clusterVars, nodeVars, replicationVars, migrationVars, gatewayVars, clientVars>>
OnlyCluster == part = "cluster" /\ UNCHANGED
    <<part, routerVars, nodeVars, replicationVars, migrationVars, gatewayVars, clientVars>>
OnlyNode == part = "node" /\ UNCHANGED
    <<part, token, routerVars, clusterVars, replicationVars, migrationVars, gatewayVars, clientVars>>
OnlyReplication == part = "replication" /\ UNCHANGED
    <<part, routerVars, clusterVars, nodeVars, migrationVars, gatewayVars, clientVars>>
OnlyMigration == part = "migration" /\ UNCHANGED
    <<part, routerVars, clusterVars, nodeVars, replicationVars, gatewayVars, clientVars>>
OnlyGateway == part = "gateway" /\ UNCHANGED
    <<part, routerVars, clusterVars, nodeVars, replicationVars, migrationVars, clientVars>>
OnlyClient == part = "client" /\ UNCHANGED
    <<part, routerVars, clusterVars, nodeVars, replicationVars, migrationVars, gatewayVars>>

Next ==
    \/ OnlyRouter /\ R!Next
    \/ OnlyCluster /\ K!Next
    \/ OnlyNode /\ N!Next
    \/ OnlyReplication /\ A!Next
    \/ OnlyMigration /\ M!Next
    \/ OnlyGateway /\ G!Next
    \/ OnlyClient /\ P!Next

Call(i) == <<q1, q2, q3>>[i]
Home(i) == <<n1, n2>>[i]
End(i) == <<"client", "server">>[i]

\* The fairness of each component's FairSpec. As part never changes, the i-th weakly fair
\* step of one component and that of another can be one condition.
Weak(i) ==
    \/ /\ OnlyRouter
       /\ \/ i \in 1..2 /\ R!RouterStep(Call(i))
          \/ i \in 3..4 /\ \E x \in rResults : x.call = Call(i - 2) /\ R!Result(x)
          \/ i \in 5..6 /\ \E x \in requests : x.call = Call(i - 4) /\ R!Host(x)
          \/ i \in 7..8 /\ R!BackoffEnds(i - 6)
    \/ /\ OnlyCluster
       /\ \/ i = 1 /\ K!Tick(1)
          \/ i = 2 /\ K!Pass
          \/ i = 3 /\ \E x \in cResults : x.for = 1 /\ K!Transport(x)
          \/ i = 4 /\ \E x \in cResults : x.for = q1 /\ K!Transport(x)
    \/ /\ OnlyNode
       /\ \/ i = 1 /\ 1 \in N!Sessions /\ (N!Accept(1) \/ N!Refused(1))
          \/ i \in 3..4 /\ 1 \in N!Sessions /\ N!Transport(1, End(i - 2))
          \/ /\ i \in 5..6 /\ 1 \in N!Sessions
             /\ end[1][N!Peer(End(i - 4))].state = "closed" /\ N!Broken(1, End(i - 4))
          \/ i = 7 /\ \E h \in running : N!Reply(h)
    \/ /\ OnlyReplication
       /\ \/ i = 1 /\ A!Serve
          \/ i = 2 /\ A!HostWrite
          \/ i = 3 /\ A!Receive
          \/ i = 4 /\ 1 \in DOMAIN subs /\ A!Loaded(1)
          \/ i = 5 /\ 1 \in DOMAIN subs /\ A!Poll(1)
          \/ i = 6 /\ 1 \in DOMAIN subs /\ ~A!Has(1) /\ A!Lapse(1)
          \/ i = 7 /\ ~up /\ A!StopClient
    \/ /\ OnlyMigration
       /\ \/ i \in 1..2 /\ M!Serve(Home(i))
          \/ i \in 3..4 /\ M!Receive(Home(i - 2))
          \/ i \in 5..6 /\ M!RouteLapses(<<e1, e2>>[i - 4])
          \/ i \in 7..8 /\ (i - 6) \in DOMAIN mSubs /\ M!NoticeLink(i - 6)
    \/ /\ OnlyGateway
       /\ \/ i \in 1..3 /\ G!Answered(Call(i))
          \/ i \in 4..6 /\ G!Serve(Call(i - 3), TRUE)
          \/ i \in 7..9 /\ G!Retry(Call(i - 6))
          \/ i = 10 /\ G!LookedUp("ok")
          \/ i = 11 /\ G!BackoffEnds
          \/ i \in 12..13 /\ G!Delegated(<<d1, d2>>[i - 11], TRUE)
          \/ i \in 14..15 /\ G!PollSession(<<d1, d2>>[i - 13])
    \/ /\ OnlyClient
       /\ \/ i = 1 /\ P!BeginPoll
          \/ i = 2 /\ P!EndPoll(FALSE)
Strong(i) ==
    \/ OnlyMigration /\ i \in DOMAIN mSubs /\ cached[mSubs[i].e] = M!NoNode /\ M!Refresh(i)
    \/ OnlyClient /\ i = 1 /\ P!EndPoll(TRUE)

Spec ==
    /\ Init /\ [][Next]_vars
    /\ \A i \in 1..15 : WF_vars(Weak(i))
    /\ \A i \in 1..2 : SF_vars(Strong(i))
-----------------------------------------------------------------------------
\* EntityRouter, Node, ClusterClient, ClientGateway and Client: every call is answered, and
\* without the help of its deadline; so is every request that a gateway lets in, and a
\* client's attempt to connect or to disconnect.
CallsAnswered ==
    \A i \in 1..3 :
       []<>(CASE part = "router" -> i < 3 => Call(i) \notin R!Pending
              [] part = "cluster" -> i < 2 => cCall[Call(i)].pc # "wait"
              [] part = "node" -> i < 3 => Call(i) \notin N!Pending
              [] part = "gateway" -> gateway.who[Call(i)] # 0 => gateway.answers[Call(i)] # <<>>
              [] part = "client" -> IF i = 1 THEN app.state # "connecting" ELSE ~app.pending
              [] OTHER -> TRUE)

\* ClusterClient, ClientGateway and AttributeReplication: what two sides know of each other
\* does not stay wrong. A peer that failed is listed again; a migration ends, with the
\* subscription restored at the entity's node or ended; a subscription that one side gave up
\* ends on the other, and none outlives the right it was made under.
ViewsRecover ==
    /\ \A i \in 1..2 :
          []<>(CASE part = "cluster" -> closing \/ lease[1] > 0
                 [] part = "migration" -> i \in M!Live => ~mSubs[i].migrating
                 [] part = "replication" -> i \in DOMAIN subs => (i \in A!Live) = A!Has(i)
                 [] OTHER -> TRUE)
    /\ A!Refreshed

\* ClientGateway: the gateway and the nodes come to agree on what the client controls.
ControlAgrees == M!ControlAgrees
=============================================================================
