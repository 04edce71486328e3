-------------------------- MODULE GatewayMigration --------------------------
(***************************************************************************)
(* How ClientGateway keeps the entities that a client sees and controls    *)
(* while they move between nodes: the subscriptions of one client, the     *)
(* links to the nodes with their notifications, and the restoring of a     *)
(* subscription at the node that an entity has moved to.                   *)
(*                                                                         *)
(* Every link keeps the order of what it carries, answers of calls         *)
(* included; nothing is ordered between links. The client owns all         *)
(* entities. Its own connection keeps order too, so what is sent to it is  *)
(* shown as arrived. The nodes' side is AttributeReplication::visibility() *)
(* behind the routes of GatewayDelegation.                                 *)
(* An entity is always placed or leased, so its route is one node and the  *)
(* endpoints that failed before are not looked at.                         *)
(***************************************************************************)
EXTENDS Integers, Sequences, FiniteSets, SequencesExt, FiniteSetsExt, Functions, TLC

CONSTANTS
    Nodes, Entities,
    MaxSubs,      \* bound: subscriptions of the gateway
    MaxCommits,   \* bound: commits of all entities
    MaxPossess,   \* bound: how often scripts give or take control, or hide an entity
    Hides,        \* whether they may hide one
    MaxFaults,    \* bound: moves, broken links, timeouts, errors, destroyed entities
    Reshow        \* whether scripts may show an entity again, after it has moved

VARIABLES
    home,     \* the node of each entity, or NoNode when it is destroyed
    rev,      \* its revision
    shown,    \* the nodes' own subscriptions of the client
    serial,   \* the last ID of those
    links,    \* the link to each node, 0 for none
    calls,    \* calls under way to each node
    stream,   \* notifications and answers under way from each node
    subs,     \* the gateway's subscriptions, by ID; removed ones stay as such
    control,  \* session.controlled, 0 for none
    cached,   \* the routes that the gateway has looked up
    client,   \* the client's projections, by subscription ID
    kicked,   \* the gateway has closed the client's connection
    presented, possessed, \* history: what scripts have shown, how often they did more
    faults

vars == <<home, rev, shown, serial, links, calls, stream, subs, control, cached, client, kicked, presented, possessed, faults>>
world == <<home, rev, presented, possessed>>

NoNode == "none"
Absent == [id |-> 0]

Init ==
    /\ home \in [Entities -> Nodes] /\ rev = [e \in Entities |-> 1]
    /\ shown = [n \in Nodes |-> [e \in Entities |-> Absent]] /\ serial = 0
    /\ links = [n \in Nodes |-> 1]
    /\ calls = [n \in Nodes |-> <<>>] /\ stream = [n \in Nodes |-> <<>>]
    /\ subs = <<>> /\ client = <<>> /\ control = 0
    /\ cached = [e \in Entities |-> NoNode]
    /\ kicked = FALSE /\ presented = {} /\ possessed = 0 /\ faults = 0

Fault == faults < MaxFaults /\ faults' = faults + 1

\* A link that breaks is a fault, so another one to the same node has another ID.
Linked(n) == links[n] # 0
Opened(n) == [links EXCEPT ![n] = IF @ = 0 THEN faults + 1 ELSE @]
-----------------------------------------------------------------------------
(***************************************************************************)
(* The nodes. A notification has the state of the node's subscription.     *)
(***************************************************************************)
Presence(kind, e, s) == [t |-> kind, e |-> e, id |-> s.id, rev |-> s.rev, ctl |-> s.ctl]
Leave(e, id, status) == [t |-> "leave", e |-> e, id |-> id, status |-> status]

\* visibility(1): show, if it is not shown yet. The subscriptions of node n, the notes.
Showing(n, e) ==
    IF shown[n][e] # Absent THEN [subs |-> shown[n], notes |-> <<>>, serial |-> serial]
    ELSE LET s == [id |-> serial + 1, rev |-> rev[e], ctl |-> FALSE]
         IN [subs |-> [shown[n] EXCEPT ![e] = s], notes |-> <<Presence("enter", e, s)>>, serial |-> serial + 1]

\* visibility(3) and (4): control; the client controls one entity of a node at a time.
Controlling(at, e, ctl) ==
    LET others == {f \in Entities \ {e} : ctl /\ at.subs[f] # Absent /\ at.subs[f].ctl}
        freed == [f \in Entities |-> IF f \in others THEN [at.subs[f] EXCEPT !.ctl = FALSE] ELSE at.subs[f]]
        target == [freed[e] EXCEPT !.ctl = ctl]
        Notes(f) == Presence("control", f, freed[f])
    IN [at EXCEPT !.subs = [freed EXCEPT ![e] = target],
                  !.notes = @ \o SetToSeq({Notes(f) : f \in others})
                              \o (IF freed[e].ctl = ctl THEN <<>> ELSE <<Presence("control", e, target)>>)]

AtNode(n, at, answer) ==
    /\ shown' = [shown EXCEPT ![n] = at.subs]
    /\ serial' = at.serial
    /\ stream' = [stream EXCEPT ![n] = @ \o at.notes \o answer]

Here(n) == [subs |-> shown[n], notes |-> <<>>, serial |-> serial]

\* A script shows an entity to the client ...
Show(n, e) ==
    /\ home[e] = n /\ Linked(n) /\ shown[n][e] = Absent
    /\ Reshow \/ e \notin presented
    /\ presented' = presented \cup {e}
    /\ AtNode(n, Showing(n, e), <<>>)
    /\ UNCHANGED <<home, rev, possessed, links, calls, subs, control, cached, client, kicked, faults>>

\* ... gives it control or takes it back (what is so already changes nothing) ...
Script(n, e) ==
    /\ home[e] = n /\ Linked(n) /\ shown[n][e] # Absent
    /\ possessed < MaxPossess /\ possessed' = possessed + 1
    /\ UNCHANGED <<home, rev, presented, links, calls, subs, control, cached, client, kicked, faults>>

Possess(n, e, ctl) ==
    /\ Script(n, e)
    /\ shown[n][e].ctl # ctl
    /\ AtNode(n, Controlling(Here(n), e, ctl), <<>>)

\* ... or hides it, visibility(2): the subscription ends as that of an entity that moves.
Hide(n, e) ==
    /\ Hides /\ Script(n, e)
    /\ AtNode(n, [Here(n) EXCEPT !.subs[e] = Absent], <<Leave(e, shown[n][e].id, "disconnected")>>)

\* A commit is sent to a subscription as a delta from its last revision.
Commit(e) ==
    /\ home[e] # NoNode /\ SumFunction([f \in Entities |-> rev[f] - 1]) < MaxCommits
    /\ rev' = [rev EXCEPT ![e] = @ + 1]
    /\ LET n == home[e]
           s == shown[n][e]
       IN IF s = Absent THEN UNCHANGED <<shown, stream>>
          ELSE /\ shown' = [shown EXCEPT ![n][e].rev = rev[e] + 1]
               /\ stream' = [stream EXCEPT ![n] =
                     Append(@, [t |-> "update", e |-> e, id |-> s.id, base |-> s.rev, rev |-> rev[e] + 1])]
    /\ UNCHANGED <<home, presented, possessed, serial, links, calls, subs, control, cached, client, kicked, faults>>

\* The entity leaves its node: to another one, or for good.
Depart(e, to) ==
    /\ home[e] \notin {NoNode, to} /\ Fault
    /\ home' = [home EXCEPT ![e] = to]
    /\ LET n == home[e]
           s == shown[n][e]
       IN IF s = Absent THEN UNCHANGED <<shown, stream>>
          ELSE /\ shown' = [shown EXCEPT ![n][e] = Absent]
               /\ stream' = [stream EXCEPT ![n] =
                     Append(@, Leave(e, s.id, IF to = NoNode THEN "not_found" ELSE "disconnected"))]
    /\ UNCHANGED <<rev, presented, possessed, serial, links, calls, subs, control, cached, client, kicked>>

\* GatewayDelegation's restore: show, then control, then the final state as the answer.
Restoring(n, m) ==
    IF home[m.e] # n
    THEN AtNode(n, Here(n), <<[t |-> "restored", s |-> m.s, ctl |-> m.ctl, epoch |-> m.epoch,
                               status |-> IF home[m.e] = NoNode THEN "not_found" ELSE "overloaded"]>>)
    ELSE LET at == Controlling(Showing(n, m.e), m.e, m.ctl)
         IN AtNode(n, at, <<[t |-> "restored", s |-> m.s, ctl |-> m.ctl, epoch |-> m.epoch, status |-> "ok",
                             note |-> Presence("enter", m.e, at.subs[m.e])]>>)

Unpossessing(n, m) ==
    AtNode(n, IF shown[n][m.e] = Absent THEN Here(n) ELSE Controlling(Here(n), m.e, FALSE),
           <<[t |-> "unpossessed", s |-> m.s, epoch |-> m.epoch]>>)

Unwatching(n, m) ==
    AtNode(n, [Here(n) EXCEPT !.subs = [e \in Entities |-> IF @[e].id = m.id THEN Absent ELSE @[e]]], <<>>)

Serve(n) ==
    /\ calls[n] # <<>>
    /\ calls' = [calls EXCEPT ![n] = Tail(@)]
    /\ LET m == Head(calls[n])
       IN \/ m.t = "restore" /\ Restoring(n, m)
          \/ m.t = "unpossess" /\ Unpossessing(n, m)
          \/ m.t = "unwatch" /\ Unwatching(n, m)
    /\ UNCHANGED <<world, links, subs, control, cached, client, kicked, faults>>
-----------------------------------------------------------------------------
(***************************************************************************)
(* The gateway.                                                            *)
(***************************************************************************)
Live == {s \in DOMAIN subs : subs[s].live}
\* reverse: the subscription of a node's subscription ID.
Known(n, id) ==
    {s \in Live : subs[s].node = n /\ subs[s].link = links[n] /\ subs[s].remote = id}

\* The link of the subscription is up: another one to the same node does not count.
Up(s) == subs[s].link = links[subs[s].node]

Migrating(S, s) == [S EXCEPT ![s].migrating = TRUE]
RouteExpired(s) == [cached EXCEPT ![subs[s].e] = NoNode]

Released(s) == IF control = s THEN 0 ELSE control

\* remove(): the client is told, and the node.
RemoveSub(s) ==
    /\ subs' = [subs EXCEPT ![s].live = FALSE]
    /\ client' = [client EXCEPT ![s].live = FALSE]
    /\ control' = Released(s)
    /\ calls' = IF Up(s)
                THEN [calls EXCEPT ![subs[s].node] = Append(@, [t |-> "unwatch", id |-> subs[s].remote])]
                ELSE calls
    /\ UNCHANGED <<cached, kicked>>

Ignored == UNCHANGED <<calls, subs, control, cached, client, kicked>>

\* An entity that the client does not see yet.
NewSub(n, m) == [live |-> TRUE, e |-> m.e, node |-> n, link |-> links[n], remote |-> m.id, rev |-> m.rev, ctl |-> m.ctl,
                 epoch |-> 0, migrating |-> FALSE, busy |-> FALSE]
NewView(m) == [live |-> TRUE, rev |-> m.rev, ctl |-> m.ctl]

\* The part of notice() that is about control: S and C are the subscriptions and the
\* projections so far. The one that was controlled is told first, then its node.
TakesMutant(s, m) == m.ctl /\ control \notin {0, s} /\ ~subs[control].migrating
Takes(s, m) == m.ctl /\ control \notin {0, s}
RelievedMutant(old, epoch) == calls
Relieved(old, epoch) ==
    IF Up(old)
    THEN [calls EXCEPT ![subs[old].node] =
            Append(@, [t |-> "unpossess", e |-> subs[old].e, s |-> old, epoch |-> epoch])]
    ELSE calls
Controlled(S, C, s, m) ==
    LET old == control
        S1 == IF Takes(s, m) THEN [S EXCEPT ![old].ctl = FALSE, ![old].epoch = @ + 1] ELSE S
        C1 == IF Takes(s, m) THEN [C EXCEPT ![old].ctl = FALSE] ELSE C
    IN /\ subs' = [S1 EXCEPT ![s].ctl = m.ctl,
                             ![s].epoch = IF S1[s].ctl # m.ctl THEN @ + 1 ELSE @]
       /\ client' = [C1 EXCEPT ![s].ctl = m.ctl]
       /\ control' = IF m.ctl THEN s ELSE IF control = s THEN 0 ELSE control
       /\ calls' = IF Takes(s, m) THEN Relieved(old, S1[old].epoch) ELSE calls

\* notice(), enter: a new subscription. While the entity is being restored, what the node
\* tells on the way does not count.
Awaited(e) == \E s \in Live : subs[s].e = e /\ subs[s].migrating
Entered(n, S, m) ==
    /\ Len(S) < MaxSubs
    /\ cached' = [cached EXCEPT ![m.e] = NoNode]
    /\ Controlled(Append(S, NewSub(n, m)), Append(client, NewView(m)), Len(S) + 1, m)
    /\ UNCHANGED kicked
Enter(n, m) == IF Awaited(m.e) THEN Ignored ELSE Entered(n, subs, m)

\* notice(), for a subscription that is known.
Presented(s, m) ==
    IF subs[s].migrating THEN Ignored
    ELSE Controlled(subs, client, s, m) /\ UNCHANGED <<cached, kicked>>

\* A leave that says disconnected is a move; any other is the end.
Left(s, m) ==
    IF m.status = "disconnected"
    THEN subs' = Migrating(subs, s) /\ UNCHANGED <<calls, control, cached, client, kicked>>
    ELSE RemoveSub(s)

\* A delta with a gap closes the client's connection.
Updated(s, m) ==
    IF subs[s].migrating THEN Ignored
    ELSE IF m.base # subs[s].rev
    THEN kicked' = TRUE /\ UNCHANGED <<calls, subs, control, cached, client>>
    ELSE /\ subs' = [subs EXCEPT ![s].rev = m.rev]
         /\ client' = [client EXCEPT ![s].rev = m.rev]
         /\ UNCHANGED <<calls, control, cached, kicked>>

\* The end of a restore, in refresh() and in notice() with confirmed. An intent that has
\* changed since is restored again.
SupersededMutant(s, m) == FALSE
Superseded(s, m) == subs[s].epoch # m.epoch
\* The subscription that the confirmation is for: the one of the node's subscription, or one
\* of the entity that is being restored, or else a new one.
Confirms(n, note) ==
    IF Known(n, note.id) # {} THEN Known(n, note.id)
    ELSE {t \in Live : subs[t].e = note.e /\ subs[t].migrating}

\* The snapshot goes to the client as an update of what it has.
CaughtUp(t, note) == [client EXCEPT ![t].rev = note.rev]
Confirmed(n, S, t, note) ==
    IF ~S[t].migrating THEN Controlled(S, client, t, note) /\ UNCHANGED <<cached, kicked>>
    ELSE IF note.rev < S[t].rev THEN RemoveSub(t)
    ELSE /\ Controlled([S EXCEPT ![t].node = n, ![t].link = links[n], ![t].remote = note.id, ![t].rev = note.rev,
                                 ![t].ctl = note.ctl, ![t].migrating = FALSE, ![t].busy = FALSE],
                       CaughtUp(t, note), t, note)
         /\ cached' = RouteExpired(t)
         /\ UNCHANGED kicked

Idle(s) == [subs EXCEPT ![s].busy = FALSE]
Restored(n, s, m) ==
    LET idle == Idle(s)
    IN IF Superseded(s, m)
       THEN subs' = idle /\ cached' = RouteExpired(s) /\ UNCHANGED <<calls, control, client, kicked>>
       ELSE IF m.status = "not_found" THEN RemoveSub(s)
       ELSE IF m.status # "ok"
       THEN subs' = idle /\ UNCHANGED <<calls, control, cached, client, kicked>>
       ELSE IF Confirms(n, m.note) = {} THEN Entered(n, idle, m.note)
       ELSE \E t \in Confirms(n, m.note) : Confirmed(n, idle, t, m.note)

\* Whatever arrives from a node.
Receive(n) ==
    /\ stream[n] # <<>> /\ ~kicked
    /\ stream' = [stream EXCEPT ![n] = Tail(@)]
    /\ LET m == Head(stream[n])
       IN \/ m.t = "restored" /\ IF m.s \in Live THEN Restored(n, m.s, m) ELSE Ignored
          \/ m.t = "unpossessed" /\ Ignored
          \/ m.t \notin {"restored", "unpossessed"} /\ Known(n, m.id) = {}
             /\ IF m.t = "enter" THEN Enter(n, m) ELSE Ignored
          \/ \E s \in (IF m.t \in {"restored", "unpossessed"} THEN {} ELSE Known(n, m.id)) :
                \/ m.t \in {"enter", "control"} /\ Presented(s, m)
                \/ m.t = "leave" /\ Left(s, m)
                \/ m.t = "update" /\ Updated(s, m)
    /\ UNCHANGED <<world, shown, serial, links, faults>>

\* poll(): a subscription whose own link is gone has to be restored.
NoticeLink(s) ==
    /\ s \in Live /\ ~kicked
    /\ ~subs[s].migrating /\ ~Up(s)
    /\ subs' = Migrating(subs, s)
    /\ UNCHANGED <<world, shown, serial, links, calls, stream, control, cached, client, kicked, faults>>

\* refresh(): look up the entity, acquire the link, restore. The answer of the lookup is
\* kept for a while, and may be out of date.
Route(s) == IF cached[subs[s].e] # NoNode THEN cached[subs[s].e] ELSE home[subs[s].e]
SettledAt(s, n) == subs[s].node = n /\ Up(s) /\ ~subs[s].migrating
Refresh(s) ==
    /\ s \in Live /\ ~kicked /\ ~subs[s].busy
    /\ LET n == Route(s)
       IN IF n = NoNode THEN RemoveSub(s) /\ UNCHANGED links
          ELSE /\ ~SettledAt(s, n)
               /\ subs' = [subs EXCEPT ![s].migrating = TRUE, ![s].busy = TRUE]
               /\ cached' = [cached EXCEPT ![subs[s].e] = n]
               /\ links' = Opened(n)
               /\ calls' = [calls EXCEPT ![n] = Append(@, [t |-> "restore", e |-> subs[s].e, s |-> s,
                                                            ctl |-> subs[s].ctl, epoch |-> subs[s].epoch])]
               /\ UNCHANGED <<control, client, kicked>>
    /\ UNCHANGED <<world, shown, serial, stream, faults>>

\* The lookup fails, or no link to the node can be had: even a settled subscription is then
\* migrating, and tries again.
RefreshFails(s) ==
    /\ s \in Live /\ ~kicked /\ ~subs[s].busy /\ Fault
    /\ subs' = Migrating(subs, s)
    /\ UNCHANGED <<world, shown, serial, links, calls, stream, control, cached, client, kicked>>

\* A route that has been looked up goes out of date.
RouteLapses(e) ==
    /\ cached[e] # NoNode
    /\ cached' = [cached EXCEPT ![e] = NoNode]
    /\ UNCHANGED <<world, shown, serial, links, calls, stream, subs, control, client, kicked, faults>>

\* A call is not answered in time: its answer is dropped when it comes. A restore is tried
\* again; one that takes control away and still matters has the subscription restored.
Nobody(ms, kinds, s) == [i \in DOMAIN ms |-> IF ms[i].t \in kinds /\ ms[i].s = s
                                             THEN [ms[i] EXCEPT !.s = 0] ELSE ms[i]]
Dropped(kinds, s) ==
    /\ calls' = [n \in Nodes |-> Nobody(calls[n], kinds, s)]
    /\ stream' = [n \in Nodes |-> Nobody(stream[n], kinds, s)]
    /\ UNCHANGED <<world, shown, serial, links, control, client, kicked>>

Timeout(s) ==
    /\ s \in Live /\ subs[s].busy /\ ~kicked /\ Fault
    /\ Dropped({"restore", "restored"}, s)
    /\ subs' = [subs EXCEPT ![s].busy = FALSE]
    /\ UNCHANGED cached

OnTheWay(n) == Range(calls[n]) \cup Range(stream[n])
Relieving(n, s) == \E m \in OnTheWay(n) : m.t \in {"unpossess", "unpossessed"} /\ m.s = s
                                           /\ m.epoch = subs[s].epoch
RelieveTimeout(s) ==
    /\ s \in Live /\ ~kicked /\ (\E n \in Nodes : Relieving(n, s)) /\ Fault
    /\ Dropped({"unpossess", "unpossessed"}, s)
    /\ subs' = Migrating(subs, s) /\ cached' = RouteExpired(s)

\* migration_timeout.
GiveUp(s) ==
    /\ s \in Live /\ subs[s].migrating /\ ~kicked /\ Fault
    /\ RemoveSub(s)
    /\ UNCHANGED <<world, shown, serial, links, stream>>

\* A link breaks with what is under way: the node forgets the client, and the calls end.
BreakLink(n) ==
    LET ended(s) == \E m \in OnTheWay(n) : m.t \in {"restore", "restored"} /\ m.s = s
        lost == {s \in Live : Relieving(n, s)}
    IN /\ Linked(n) /\ Fault
       /\ links' = [links EXCEPT ![n] = 0]
       /\ shown' = [shown EXCEPT ![n] = [e \in Entities |-> Absent]]
       /\ calls' = [calls EXCEPT ![n] = <<>>] /\ stream' = [stream EXCEPT ![n] = <<>>]
       /\ subs' = [s \in DOMAIN subs |->
             [subs[s] EXCEPT !.busy = @ /\ ~ended(s), !.migrating = @ \/ s \in lost]]
       /\ cached' = [e \in Entities |-> IF \E s \in lost : subs[s].e = e THEN NoNode ELSE cached[e]]
       /\ UNCHANGED <<world, serial, control, client, kicked>>

Next ==
    \/ \E n \in Nodes, e \in Entities : Show(n, e) \/ Hide(n, e) \/ \E ctl \in BOOLEAN : Possess(n, e, ctl)
    \/ \E e \in Entities : Commit(e) \/ RouteLapses(e) \/ \E to \in Nodes \cup {NoNode} : Depart(e, to)
    \/ \E n \in Nodes : Serve(n) \/ Receive(n) \/ BreakLink(n)
    \/ \E s \in DOMAIN subs : NoticeLink(s) \/ Refresh(s) \/ RefreshFails(s)
                             \/ Timeout(s) \/ RelieveTimeout(s) \/ GiveUp(s)

Spec == Init /\ [][Next]_vars

\* Nodes and gateway poll, and a looked-up route is not used for ever. Nothing is assumed
\* of timeouts: the deadline of a migration is not needed for it to end.
Fairness ==
    /\ \A n \in Nodes : WF_vars(Serve(n)) /\ WF_vars(Receive(n))
    /\ \A e \in Entities : WF_vars(RouteLapses(e))
    /\ \A s \in 1..MaxSubs :
          /\ WF_vars(s \in DOMAIN subs /\ NoticeLink(s))
          /\ SF_vars(s \in DOMAIN subs /\ cached[subs[s].e] = NoNode /\ Refresh(s))

FairSpec == Spec /\ Fairness
-----------------------------------------------------------------------------
TypeOK ==
    /\ \A e \in Entities : home[e] \in Nodes \cup {NoNode}
    /\ DOMAIN client = DOMAIN subs
    /\ \A n \in Nodes : ~Linked(n) => stream[n] = <<>> /\ calls[n] = <<>>
    /\ control \in {0} \cup Live

\* The client controls one entity at a time, and the one that the session says, whatever
\* the order in which the nodes' scripts and restores give control.
OneControlled ==
    /\ Cardinality({s \in Live : client[s].ctl}) <= 1
    /\ \A s \in Live : client[s].ctl => control = s

\* The client is never sent a delta that its projection cannot take: what was left out
\* while an entity was restored is in the snapshot. The connection is not closed for a gap.
NoGap == ~kicked /\ \A s \in Live : client[s].rev = subs[s].rev

\* The answer of a restore does not change what the client controls: one that was sent
\* before control passed to another entity does not bring the old control back, nor does
\* it take one away that was given meanwhile (control_epoch in refresh()). This is about
\* the answer: at the node the restore sets control, and frees the other entities there,
\* whatever scripts did before it came.
RestoreKeepsControl ==
    [][\A n \in Nodes : (stream[n] # <<>> /\ Head(stream[n]).t = "restored" /\ Receive(n)) =>
          control' = control \/ (control' = 0 /\ ~subs'[control].live)]_vars

\* A subscription has one of the node's, and no two have the same: reverse is a function.
RemoteIsUnique ==
    \A s, t \in Live : s # t => subs[s].node # subs[t].node \/ subs[s].remote # subs[t].remote

\* A migration ends, without its deadline: the subscription is restored at the entity's
\* node, or ended because the entity is gone.
Settles ==
    \A s \in 1..MaxSubs :
       []<>(s \in Live => ~subs[s].migrating)

\* The gateway and the nodes come to agree on what the client controls, although a node's
\* word and the gateway's may cross.
ControlAgrees ==
    <>[](\A s \in Live : subs[s].node \in Nodes /\ ~subs[s].migrating
            /\ shown[subs[s].node][subs[s].e] # Absent =>
                  shown[subs[s].node][subs[s].e].ctl = subs[s].ctl)

\* The client has one handle for an entity it sees, also after the entity moved.
OneHandle == \A s, t \in Live : s # t => subs[s].e # subs[t].e
=============================================================================
