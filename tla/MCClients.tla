----------------------------- MODULE MCClients -----------------------------
(***************************************************************************)
(* What stands between entities and their clients, side by side: one       *)
(* client's replicas of an entity; the deltas of its attributes; a gateway *)
(* that migrates the subscriptions of two entities between two nodes; a    *)
(* gateway with the requests of two clients; the client; the Lua engine    *)
(* with two requests of one entity beside a critical start task.  They     *)
(* share nothing, so a behaviour moves one of them, named by part, and the *)
(* others stay in their initial states.                                    *)
(***************************************************************************)
EXTENDS Integers, Sequences, FiniteSets, TLC

CONSTANTS n1, n2, e1, e2, d1, d2, w1, w2, w3, w4, boot

VARIABLES
    part,
    hist, right, jobs, subs, stopped, projs, calls, up, down, uplink, serial, faults,
    image, replica, asked,
    home, rev, shown, mSerial, links, mCalls, stream, mSubs, control, cached, client,
    kicked, presented, possessed, mFaults,
    gateway, gFaults,
    app, aFaults,
    engine

A == INSTANCE AttributeReplication WITH
    MaxRevision <- 3, MaxSubs <- 2, MaxCalls <- 2, MaxFaults <- 1, PerPeer <- 1

V == INSTANCE AttributeDelta WITH MaxLength <- 2

\* The gateway that migrates, three times: with an entity that is shown or hidden again,
\* with control that scripts change twice, and with commits.
M == INSTANCE GatewayMigration WITH
    Nodes <- {n1, n2}, Entities <- {e1, e2}, MaxSubs <- 3, MaxCommits <- 0,
    MaxPossess <- 1, Hides <- TRUE, MaxFaults <- 1, Reshow <- TRUE,
    serial <- mSerial, calls <- mCalls, subs <- mSubs, faults <- mFaults

M2 == INSTANCE GatewayMigration WITH
    Nodes <- {n1, n2}, Entities <- {e1, e2}, MaxSubs <- 2, MaxCommits <- 0,
    MaxPossess <- 2, Hides <- FALSE, MaxFaults <- 1, Reshow <- FALSE,
    serial <- mSerial, calls <- mCalls, subs <- mSubs, faults <- mFaults

M3 == INSTANCE GatewayMigration WITH
    Nodes <- {n1, n2}, Entities <- {e1, e2}, MaxSubs <- 3, MaxCommits <- 1,
    MaxPossess <- 0, Hides <- FALSE, MaxFaults <- 1, Reshow <- TRUE,
    serial <- mSerial, calls <- mCalls, subs <- mSubs, faults <- mFaults

\* A watch, a second one, a renewal of the first, and a call of the other client.
G == INSTANCE GatewayRequests WITH
    Clients <- {d1, d2}, Requests <- {w1, w2, w3, w4},
    Client <- (w1 :> d1) @@ (w2 :> d1) @@ (w3 :> d1) @@ (w4 :> d2),
    Kind <- (w1 :> "watch") @@ (w2 :> "watch") @@ (w3 :> "renew") @@ (w4 :> "call"),
    Target <- (w1 :> w1) @@ (w2 :> w1) @@ (w3 :> w1) @@ (w4 :> w1),
    Size <- (w1 :> 1) @@ (w2 :> 2) @@ (w3 :> 1) @@ (w4 :> 1),
    MaxPending <- 2, MaxBytes <- 2, MaxLinks <- 2, MaxSessions <- 2, PerClient <- 1,
    MaxFaults <- 1, g <- gateway, faults <- gFaults

P == INSTANCE Client WITH
    Subs <- {1, 2}, Requests <- {1, 2}, MaxGen <- 3, MaxReacts <- 3, MaxFaults <- 2,
    g <- app, faults <- aFaults

\* The Lua engine three times: a request and the critical start that each wait once, a
\* request that waits twice, and a request of another entity behind a busy mailbox.
L == INSTANCE LuaEngine WITH
    Requests <- {e1, e2, w1}, Starts <- <<boot>>, Critical <- {boot},
    Box <- (e1 :> "e") @@ (e2 :> "e") @@ (w1 :> "f") @@ (boot :> "none"), NoBox <- "none",
    MaxQueued <- 2, MaxActive <- 2, MaxBytes <- 1, WorkLimit <- 2,
    MaxAwaits <- (e1 :> 1) @@ (e2 :> 0) @@ (w1 :> 0) @@ (boot :> 1), MaxFaults <- 1, g <- engine

L2 == INSTANCE LuaEngine WITH
    Requests <- {e1, e2, w1}, Starts <- <<boot>>, Critical <- {boot},
    Box <- (e1 :> "e") @@ (e2 :> "e") @@ (w1 :> "f") @@ (boot :> "none"), NoBox <- "none",
    MaxQueued <- 2, MaxActive <- 2, MaxBytes <- 1, WorkLimit <- 2,
    MaxAwaits <- (e1 :> 2) @@ (e2 :> 0) @@ (w1 :> 0) @@ (boot :> 0), MaxFaults <- 1, g <- engine

L3 == INSTANCE LuaEngine WITH
    Requests <- {e1, e2, w1}, Starts <- <<boot>>, Critical <- {boot},
    Box <- (e1 :> "e") @@ (e2 :> "e") @@ (w1 :> "f") @@ (boot :> "none"), NoBox <- "none",
    MaxQueued <- 2, MaxActive <- 2, MaxBytes <- 1, WorkLimit <- 2,
    MaxAwaits <- (e1 :> 1) @@ (e2 :> 0) @@ (w1 :> 0) @@ (boot :> 0), MaxFaults <- 0, g <- engine

replicationVars ==
    <<hist, right, jobs, subs, stopped, projs, calls, up, down, uplink, serial, faults>>
deltaVars == <<image, replica, asked>>
migrationVars ==
    <<home, rev, shown, mSerial, links, mCalls, stream, mSubs, control, cached, client,
      kicked, presented, possessed, mFaults>>
gatewayVars == <<gateway, gFaults>>
clientVars == <<app, aFaults>>
vars == <<part, replicationVars, deltaVars, migrationVars, gatewayVars, clientVars, engine>>

\* Of the parts that have a choice of initial states, only the one that moves makes it.  The
\* two nodes are alike: the first entity begins on n1.  Where control changes twice, the other
\* begins on n2.
Init ==
    /\ part \in {"replication", "delta", "migration", "control", "commits", "gateway", "client",
                "engine", "waits", "boxes"}
    /\ A!Init /\ V!Init /\ M!Init /\ G!Init /\ P!Init /\ L!Init
    /\ part # "replication" => right = "owner"
    /\ part # "delta" => image = [a |-> V!Array(<<>>)]
    /\ home[e1] = n1 /\ (part \notin {"migration", "commits"} => home[e2] = n2)

Next ==
    \/ /\ part = "replication" /\ A!Next
       /\ UNCHANGED <<part, deltaVars, migrationVars, gatewayVars, clientVars, engine>>
    \/ /\ part = "delta" /\ V!Next
       /\ UNCHANGED <<part, replicationVars, migrationVars, gatewayVars, clientVars, engine>>
    \/ /\ \/ part = "migration" /\ M!Next
          \/ part = "control" /\ M2!Next
          \/ part = "commits" /\ M3!Next
       /\ UNCHANGED <<part, replicationVars, deltaVars, gatewayVars, clientVars, engine>>
    \/ /\ part = "gateway" /\ G!Next
       /\ UNCHANGED <<part, replicationVars, deltaVars, migrationVars, clientVars, engine>>
    \/ /\ part = "client" /\ P!Next
       /\ UNCHANGED <<part, replicationVars, deltaVars, migrationVars, gatewayVars, engine>>
    \/ /\ \/ part = "engine" /\ L!Next /\ engine'.st[w1] = "new"
          \/ part = "waits" /\ L2!Next /\ engine'.st[w1] = "new"
          \/ part = "boxes" /\ L3!Next
       /\ UNCHANGED <<part, replicationVars, deltaVars, migrationVars, gatewayVars, clientVars>>

Spec == Init /\ [][Next]_vars
-----------------------------------------------------------------------------
\* AttributeReplication: a replica holds the values of the revision it claims, and with no
\* update under way it shows the present image.
ReplicationSafe == part = "replication" =>
    A!TypeOK /\ A!ProjectionExact /\ A!UpToDate

\* attribute_delta(): a replica that applied the delta of a commit has the committed image,
\* and what a client proposes as patches of its replica is what the server stages.
DeltaSafe == part = "delta" =>
    V!ReplicaFollows /\ V!ProposalMeansValues

\* ClientGateway, migrations: the client controls one entity, the one the session says, it
\* is never sent a delta that its projection cannot take, and no two of its subscriptions
\* are the same one of a node.
MigrationSafe == part \in {"migration", "control", "commits"} =>
    M!TypeOK /\ M!OneControlled /\ M!NoGap /\ M!RemoteIsUnique

\* ClientGateway, requests: every request kept waits for something that calls it back and
\* its bytes are charged, nothing of a revoked session is left, and no node keeps a watch
\* that the gateway has given up, unless the call that made it ended by its own deadline.
GatewaySafe == part = "gateway" =>
    G!TypeOK /\ G!NothingStranded /\ G!BytesExact /\ G!RevokedIsGone /\ G!NoOrphanWatch

\* The client's events form complete generations, what can be looked up is what was shown,
\* and an open request belongs to the present connection, whatever callbacks do.
ClientSafe == part = "client" =>
    P!TypeOK /\ P!EventsLegal /\ P!ShownIsBound /\ P!CallsAreCurrent

\* LuaEngine: an entity is served in order, one request at a time, a coroutine is resumed
\* with the answer it waits for, no watch is leaked, and startup is reported truthfully.
EngineSafe == part \in {"engine", "waits", "boxes"} =>
    L!TypeOK /\ L!MailboxInOrder /\ L!ResumesMatch /\ L!NoLeakedWatch /\ L!StartupTruth

\* AttributeReplication: a client's write that is committed changes what the client saw.
\* ClientGateway, migrations: the answer of a restore brings no former control back.
NothingReverted == A!NoLostUpdate /\ M!RestoreKeepsControl

\* ClientGateway, requests: nothing is sent for, and no answer but disconnected is given to,
\* a connection that is no longer the one that asked. Client: after disconnect() nothing
\* more succeeds or is shown on that connection. LuaEngine: the script of a revoked request
\* goes no further.
EndedStaysEnded ==
    G!SentIsCurrent /\ G!AnswerIsForAsker /\ P!DisconnectIsFinal /\ L!RevokedIsSilent
=============================================================================
