------------------------ MODULE AttributeReplication ------------------------
(***************************************************************************)
(* Replication of an entity's attributes to a client: the subscriptions of *)
(* AttributeReplication at the server, the projections of AttributeClient, *)
(* and the connection between them, which keeps order and may close.       *)
(*                                                                         *)
(* One entity, one client. The image has an attribute that owner and       *)
(* observers see and one that only the owner sees. A delta carries the     *)
(* changed attributes (AttributeDelta has how it is built). Whether a      *)
(* lease has run out is decided by an action of its own. The checks of the *)
(* entity's generation are left out: the host tells that the entity closed *)
(* whenever it changes the generation, which ends every subscription.      *)
(***************************************************************************)
EXTENDS Integers, Sequences, FiniteSets, SequencesExt, FiniteSetsExt, Functions, TLC

CONSTANTS
    MaxRevision,  \* bound: commits
    MaxSubs,      \* the last serial number of a subscription
    MaxCalls,     \* bound: calls of the client
    MaxFaults,    \* bound: changes of rights, deactivations, timeouts, lost connections
    PerPeer       \* limits.per_peer

VARIABLES
    hist,      \* the images of the entity, by revision
    right,     \* the client's right: none, observer or owner
    jobs,      \* writes that wait in the host
    subs,      \* the server's subscriptions, by ID; gone ones stay as such
    stopped,   \* the client has been stopped
    projs,     \* the client's projections, by subscription ID
    calls,     \* the client's calls whose callback has not run
    up,        \* the connection
    down, uplink,  \* what is under way to the client and to the server
    serial,    \* calls made
    faults

vars == <<hist, right, jobs, subs, stopped, projs, calls, up, down, uplink, serial, faults>>

Names == {"pub", "own"}
Gone == [state |-> "gone"]
Live == {i \in DOMAIN subs : subs[i].state # "gone"}
Active == {i \in DOMAIN subs : subs[i].state = "active"}
Revision == Len(hist)

Init ==
    /\ hist = <<[n \in Names |-> 0]>>
    /\ right \in {"observer", "owner"}
    /\ jobs = <<>>
    /\ subs = <<>> /\ projs = <<>>
    /\ stopped = FALSE /\ up = TRUE
    /\ calls = {} /\ down = <<>> /\ uplink = <<>>
    /\ serial = 0 /\ faults = 0

Fault == faults < MaxFaults /\ faults' = faults + 1
-----------------------------------------------------------------------------
(***************************************************************************)
(* Images. A view is the part of an image that a right lets through.       *)
(***************************************************************************)
Visible(r) == CASE r = "owner" -> Names [] r = "observer" -> {"pub"} [] OTHER -> {}

\* filtered(): the view of an image.
View(r, images) ==
    [revision |-> Len(images), values |-> [n \in Visible(r) |-> images[Len(images)][n]]]

Snapshot(view) ==
    [snapshot |-> TRUE, base |-> 0, revision |-> view.revision, values |-> view.values]

\* attribute_delta(): a snapshot when an attribute is no longer to be seen.
Delta(old, new) ==
    IF DOMAIN old.values \subseteq DOMAIN new.values
    THEN [snapshot |-> FALSE, base |-> old.revision, revision |-> new.revision,
          values |-> Restrict(new.values, {n \in DOMAIN new.values :
             ~(n \in DOMAIN old.values /\ old.values[n] = new.values[n])})]
    ELSE Snapshot(new)

\* AttributeReplica::apply() refuses a delta that has another base, or goes back.
Applicable(p, u) == (u.snapshot \/ u.base = p.revision) /\ u.revision >= p.revision

AppliedMutant(p, u) ==
    [revision |-> u.revision, values |-> IF u.snapshot THEN u.values ELSE p.values @@ u.values]
Applied(p, u) ==
    [revision |-> u.revision, values |-> IF u.snapshot THEN u.values ELSE u.values @@ p.values]
-----------------------------------------------------------------------------
(***************************************************************************)
(* The server.                                                             *)
(***************************************************************************)
Allowed == right # "none" /\ up
SetSub(i, s) == subs' = [subs EXCEPT ![i] = s]
Ended(i, status) == [to |-> "sub", sub |-> i, status |-> status]
Answer(call, status) == [to |-> "call", call |-> call, status |-> status]

\* What remove() sends: the answer to a pending watch, or the end of the subscription.
EndOf(i, status) ==
    IF subs[i].state = "pending" THEN <<Answer(subs[i].call, status)>> ELSE <<Ended(i, status)>>

Say(ms) == down' = IF up THEN down \o ms ELSE down

RemoveSub(i, status) == SetSub(i, Gone) /\ Say(EndOf(i, status))

Full == Cardinality(Live) >= PerPeer \/ Len(subs) >= MaxSubs

\* watch(): a pending subscription, whose snapshot the host is asked for.
ServeWatch(m) ==
    IF Full
    THEN Say(<<Answer(m.call, "overloaded")>>) /\ UNCHANGED subs
    ELSE /\ subs' = Append(subs, [state |-> "pending", call |-> m.call, lease |-> TRUE])
         /\ UNCHANGED down

\* The host's answer, with the rights checked when it arrives.
Loaded(i) ==
    /\ i \in Live /\ subs[i].state = "pending"
    /\ IF ~Allowed \/ ~subs[i].lease THEN RemoveSub(i, "rejected")
       ELSE /\ SetSub(i, [state |-> "active", lease |-> TRUE, right |-> right,
                          last |-> View(right, hist)])
            /\ Say(<<[to |-> "call", call |-> subs[i].call, status |-> "ok", sub |-> i,
                      update |-> Snapshot(View(right, hist))]>>)
    /\ UNCHANGED <<hist, right, jobs, stopped, projs, calls, up, uplink, serial, faults>>

\* Or the host fails: overloaded, timed out, or without storage.
LoadError(i) ==
    /\ i \in Live /\ subs[i].state = "pending"
    /\ Fault
    /\ RemoveSub(i, "internal")
    /\ UNCHANGED <<hist, right, jobs, stopped, projs, calls, up, uplink, serial>>

\* The status that a subscription has to end with.
Stale(i) ==
    IF ~subs[i].lease THEN "timeout"
    ELSE IF ~Allowed \/ right # subs[i].right THEN "rejected" ELSE "ok"

\* An owner is sent an empty delta too: it advances the revision that a write is based on.
Skippable(u) == ~u.snapshot /\ u.values = <<>> /\ right # "owner"

\* committed(), with the image of the next revision in hist', and what is answered after.
Sent(i) == ~Skippable(Delta(subs[i].last, View(right, hist')))
Committed(answer) ==
    /\ subs' = [i \in DOMAIN subs |->
          IF i \notin Active THEN subs[i]
          ELSE IF Stale(i) # "ok" THEN Gone
          ELSE IF Sent(i) THEN [subs[i] EXCEPT !.last = View(right, hist')] ELSE subs[i]]
    /\ Say(FlattenSeq([i \in DOMAIN subs |->
          IF i \notin Active THEN <<>>
          ELSE IF Stale(i) # "ok" THEN <<Ended(i, Stale(i))>>
          ELSE IF Sent(i)
          THEN <<[to |-> "sub", sub |-> i, status |-> "ok", update |-> Delta(subs[i].last, View(right, hist'))]>>
          ELSE <<>>]) \o answer)

\* The image after a commit that changes some attributes, or only what no client sees.
After(changed) == [n \in Names |-> IF n \in changed THEN 1 - hist[Revision][n] ELSE hist[Revision][n]]

\* A commit of the server's own logic.
Commit(changed) ==
    /\ Revision < MaxRevision
    /\ hist' = Append(hist, After(changed))
    /\ Committed(<<>>)
    /\ UNCHANGED <<right, jobs, stopped, projs, calls, up, uplink, serial, faults>>

\* control(): renew and unwatch.
ServeRenew(m) ==
    /\ IF m.sub \notin Live THEN Say(<<Answer(m.call, "not_found")>>) /\ UNCHANGED subs
       ELSE IF subs[m.sub].state = "pending" \/ ~subs[m.sub].lease
       THEN Say(<<Answer(m.call, "timeout")>>) /\ UNCHANGED subs
       ELSE IF ~Allowed THEN Say(<<Answer(m.call, "rejected")>>) /\ UNCHANGED subs
       ELSE SetSub(m.sub, [subs[m.sub] EXCEPT !.lease = TRUE]) /\ Say(<<Answer(m.call, "ok")>>)

ServeUnwatch(m) ==
    IF m.sub \in Live THEN SetSub(m.sub, Gone) /\ Say(<<Answer(m.call, "ok")>>)
    ELSE Say(<<Answer(m.call, "not_found")>>) /\ UNCHANGED subs

\* write(): a proposal of the owner goes to the host.
ServeWrite(m) ==
    IF m.sub \in Active /\ subs[m.sub].lease /\ Allowed /\ right = "owner"
    THEN jobs' = Append(jobs, m) /\ UNCHANGED down
    ELSE Say(<<Answer(m.call, "rejected")>>) /\ UNCHANGED jobs

\* stage_attribute_proposal(), when the entity gets to the write.
StageableMutant(m) == right = "owner"
Stageable(m) == right = "owner" /\ m.base = Revision

\* The commit is published before it is answered.
HostWrite ==
    /\ jobs # <<>>
    /\ jobs' = Tail(jobs)
    /\ LET m == Head(jobs)
       IN IF Stageable(m) /\ Revision < MaxRevision
          THEN /\ hist' = Append(hist, [hist[Revision] EXCEPT !["pub"] = m.value])
               /\ Committed(<<Answer(m.call, "ok")>>)
          ELSE Say(<<Answer(m.call, "rejected")>>) /\ UNCHANGED <<hist, subs>>
    /\ UNCHANGED <<right, stopped, projs, calls, up, uplink, serial, faults>>

Serve ==
    /\ uplink # <<>> /\ up
    /\ uplink' = Tail(uplink)
    /\ LET m == Head(uplink)
       IN \/ m.kind = "watch" /\ ServeWatch(m) /\ UNCHANGED jobs
          \/ m.kind = "renew" /\ ServeRenew(m) /\ UNCHANGED jobs
          \/ m.kind = "unwatch" /\ ServeUnwatch(m) /\ UNCHANGED jobs
          \/ m.kind = "write" /\ ServeWrite(m) /\ UNCHANGED subs
    /\ UNCHANGED <<hist, right, stopped, projs, calls, up, serial, faults>>

\* poll(): a subscription whose connection, lease, entity or right is gone.
DoomedMutant(i) == ~up \/ (i \in Active /\ Stale(i) = "rejected")
Doomed(i) == ~up \/ ~subs[i].lease \/ (i \in Active /\ Stale(i) # "ok")
Poll(i) ==
    /\ i \in Live /\ Doomed(i)
    /\ RemoveSub(i, IF ~subs[i].lease THEN "timeout" ELSE "rejected")
    /\ UNCHANGED <<hist, right, jobs, stopped, projs, calls, up, uplink, serial, faults>>

Lapse(i) ==
    /\ i \in Live /\ subs[i].lease
    /\ SetSub(i, [subs[i] EXCEPT !.lease = FALSE])
    /\ UNCHANGED <<hist, right, jobs, stopped, projs, calls, up, down, uplink, serial, faults>>

\* Ownership or the area of interest changes; the replication is not told.
Change(r) ==
    /\ r # right /\ Fault
    /\ right' = r
    /\ UNCHANGED <<hist, jobs, subs, stopped, projs, calls, up, down, uplink, serial>>

\* The entity closes: it is deactivated, or a commit failed that may have taken effect.
Close(changed) ==
    /\ Fault
    /\ hist' = IF changed = {} THEN hist ELSE Append(hist, After(changed))
    /\ Len(hist') <= MaxRevision
    /\ subs' = [i \in DOMAIN subs |-> Gone]
    /\ Say(FlattenSeq([i \in DOMAIN subs |-> IF i \in Live THEN EndOf(i, "disconnected") ELSE <<>>]))
    /\ UNCHANGED <<right, jobs, stopped, projs, calls, up, uplink, serial>>

\* The connection ends: also when a notification does not fit into its queue.
Disconnect ==
    /\ up /\ Fault
    /\ up' = FALSE /\ down' = <<>> /\ uplink' = <<>>
    /\ UNCHANGED <<hist, right, jobs, subs, stopped, projs, calls, serial>>
-----------------------------------------------------------------------------
(***************************************************************************)
(* The client.                                                             *)
(***************************************************************************)
NoProj == [state |-> "none"]
Proj(i) == IF i \in DOMAIN projs THEN projs[i] ELSE NoProj
Has(i) == Proj(i) # NoProj
SetProj(ps, i, p) == [j \in 1..Max({i} \cup DOMAIN ps) |-> IF j = i THEN p ELSE IF j \in DOMAIN ps THEN ps[j] ELSE NoProj]
Forget(i) == IF i \in DOMAIN projs THEN [projs EXCEPT ![i] = NoProj] ELSE projs

\* A call, whose callback runs with its answer, with a timeout or with the connection.
\* Unwatching has no callback of interest.
Send(m) ==
    /\ up /\ serial < MaxCalls
    /\ serial' = serial + 1
    /\ uplink' = Append(uplink, m)
    /\ calls' = IF m.kind = "unwatch" THEN calls ELSE calls \cup {m}

Watch ==
    /\ ~stopped
    /\ Send([kind |-> "watch", call |-> serial + 1])
    /\ UNCHANGED <<hist, right, jobs, subs, stopped, projs, up, down, faults>>

Unwatch(i) ==
    /\ Has(i) /\ ~stopped
    /\ Send([kind |-> "unwatch", call |-> serial + 1, sub |-> i])
    /\ projs' = Forget(i)
    /\ UNCHANGED <<hist, right, jobs, subs, stopped, up, down, faults>>

\* poll() renews a projection; the number of renewals is not bounded.
Renew(i) ==
    /\ Has(i) /\ ~stopped
    /\ up /\ ~\E c \in calls : c.kind = "renew" /\ c.sub = i
    /\ LET m == [kind |-> "renew", call |-> 0 - i, sub |-> i]
       IN uplink' = Append(uplink, m) /\ calls' = calls \cup {m}
    /\ UNCHANGED <<hist, right, jobs, subs, stopped, projs, up, down, serial, faults>>

\* A write changes what the client sees.
Write(i) ==
    /\ Has(i) /\ ~stopped
    /\ "pub" \in DOMAIN Proj(i).values
    /\ Send([kind |-> "write", call |-> serial + 1, sub |-> i, base |-> Proj(i).revision,
             value |-> 1 - Proj(i).values["pub"]])
    /\ UNCHANGED <<hist, right, jobs, subs, stopped, projs, up, down, faults>>

\* The callback of a call: a watch makes a projection, or takes back a subscription that
\* comes too late; a failed renewal ends a projection.
Callback(c, m) ==
    /\ calls' = calls \ {c}
    /\ projs' = IF stopped THEN projs
                ELSE IF c.kind = "watch" /\ m.status = "ok"
                THEN SetProj(projs, m.sub, Applied([revision |-> 0, values |-> <<>>], m.update))
                ELSE IF c.kind = "renew" /\ m.status # "ok" THEN Forget(c.sub)
                ELSE projs
    /\ uplink' = IF stopped /\ c.kind = "watch" /\ m.status = "ok"
                 THEN Append(uplink, [kind |-> "unwatch", call |-> 0, sub |-> m.sub]) ELSE uplink

\* receive(): an update for a projection; one that does not apply ends it and the
\* subscription, whose unwatch is not bounded.
Update(m) ==
    IF stopped \/ ~Has(m.sub) THEN UNCHANGED <<projs, uplink>>
    ELSE IF m.status # "ok" THEN projs' = Forget(m.sub) /\ UNCHANGED uplink
    ELSE IF ~Applicable(Proj(m.sub), m.update)
    THEN projs' = Forget(m.sub) /\ uplink' = Append(uplink, [kind |-> "unwatch", call |-> 0, sub |-> m.sub])
    ELSE projs' = SetProj(projs, m.sub, Applied(Proj(m.sub), m.update)) /\ UNCHANGED uplink

Receive ==
    /\ down # <<>>
    /\ down' = Tail(down)
    /\ LET m == Head(down)
       IN IF m.to = "sub" THEN Update(m) /\ UNCHANGED calls
          ELSE IF \E c \in calls : c.call = m.call
          THEN Callback(CHOOSE c \in calls : c.call = m.call, m)
          ELSE UNCHANGED <<projs, calls, uplink>>
    /\ UNCHANGED <<hist, right, jobs, subs, stopped, up, serial, faults>>

\* A call times out, or ends with its connection; its answer is ignored later.
Expire(c) ==
    /\ IF up THEN Fault ELSE UNCHANGED faults
    /\ Callback(c, [status |-> "timeout"])
    /\ UNCHANGED <<hist, right, jobs, subs, stopped, up, down, serial>>

\* stop(), also by poll() after the connection is lost: every projection is unwatched.
StopClient ==
    /\ ~stopped /\ stopped' = TRUE
    /\ IF up THEN Fault ELSE UNCHANGED faults
    /\ projs' = <<>>
    /\ uplink' = IF up THEN uplink \o SetToSeq({[kind |-> "unwatch", call |-> 0, sub |-> i] :
                                                  i \in {j \in DOMAIN projs : Has(j)}})
                 ELSE uplink
    /\ UNCHANGED <<hist, right, jobs, subs, calls, up, down, serial>>

Next ==
    \/ \E changed \in {{}, {"pub"}, {"own"}} : Commit(changed) \/ Close(changed)
    \/ \E i \in DOMAIN subs : Loaded(i) \/ LoadError(i) \/ Poll(i) \/ Lapse(i)
    \/ Serve \/ HostWrite \/ Disconnect
    \/ \E r \in {"none", "observer", "owner"} : Change(r)
    \/ Watch \/ Receive \/ StopClient
    \/ \E i \in DOMAIN projs : Unwatch(i) \/ Renew(i) \/ Write(i)
    \/ \E c \in calls : Expire(c)

Spec == Init /\ [][Next]_vars

\* Both sides poll, the host and the connection do their work, and a lease that no client
\* renews runs out. Nothing is assumed of the lease of a projection that is renewed.
Fairness ==
    /\ WF_vars(Serve) /\ WF_vars(HostWrite) /\ WF_vars(Receive)
    /\ \A i \in 1..MaxSubs :
          /\ WF_vars(i \in DOMAIN subs /\ Loaded(i))
          /\ WF_vars(i \in DOMAIN subs /\ Poll(i))
          /\ WF_vars(i \in DOMAIN subs /\ ~Has(i) /\ Lapse(i))
    /\ WF_vars(~up /\ StopClient)

FairSpec == Spec /\ Fairness
-----------------------------------------------------------------------------
TypeOK ==
    /\ Cardinality(Live) <= PerPeer
    /\ \A i \in DOMAIN subs : subs[i].state \in {"gone", "pending", "active"}
    /\ \A i \in DOMAIN projs : Has(i) => projs[i].revision \in 1..Revision
    /\ up \/ (down = <<>> /\ uplink = <<>>)

\* A projection is exact: it holds the values that the entity had at the revision it
\* claims, whatever updates were left out, refused or overtaken. So a write based on that
\* revision is based on what the client saw.
ProjectionExact ==
    \A i \in DOMAIN projs : Has(i) =>
       \A n \in DOMAIN projs[i].values : projs[i].values[n] = hist[projs[i].revision][n]

\* Nothing is missed: a projection with no update under way, whose subscription is intact,
\* shows the present image, and to the owner the present revision.
UpToDate ==
    \A i \in Active : (Has(i) /\ up /\ Stale(i) = "ok" /\ \A k \in DOMAIN down : down[k].to # "sub") =>
       /\ projs[i].values = View(right, hist).values
       /\ right = "owner" => projs[i].revision = Revision

\* No lost update: a client's write that the host commits changes the value that the
\* client saw when it wrote, although the entity may have been committed since.
NoLostUpdate ==
    [][(hist' # hist /\ HostWrite) => hist'[Len(hist')]["pub"] # hist[Len(hist)]["pub"]]_vars

\* The two sides do not stay apart: a subscription whose client gave up, timed out or
\* stopped ends, and so does a projection whose subscription ended.
Reconciled ==
    \A i \in 1..MaxSubs :
       []<>(i \in DOMAIN subs => (i \in Live) = Has(i))

\* A subscription does not outlive the right it was made under, although nobody tells the
\* replication that ownership or interest changed and the client keeps renewing it.
Refreshed ==
    \A i \in 1..MaxSubs :
       []<>(i \in Active => subs[i].right = right)
=============================================================================
