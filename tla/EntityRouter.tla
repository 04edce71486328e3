---------------------------- MODULE EntityRouter ----------------------------
(***************************************************************************)
(* The router of entity calls: it looks the entity's owner up in storage,  *)
(* picks a member, connects to it and calls it, and retries a call that    *)
(* carries a request ID until the caller's deadline.                       *)
(*                                                                         *)
(* Time appears as what it decides: whether a call is past its deadline,   *)
(* and whether a member is in its back-off after a failed connection. The  *)
(* transport (Node) and the hosts behind it are the router's environment:  *)
(* a request on a connection that breaks may have been executed, may still *)
(* be, or may be lost.                                                     *)
(***************************************************************************)
EXTENDS Integers, Sequences, FiniteSets, FiniteSetsExt

CONSTANTS
    Calls,       \* calls that may be made, each at most once
    Keyed,       \* those that carry a request ID
    Members,     \* the endpoints, as numbers in the order of their score
    Lookup,      \* what storage knows of a call's entity: found, not_found or rejected
    Size,        \* the bytes a call is charged for
    Requests, Bytes,  \* limits.requests and limits.bytes
    MaxFaults    \* bound: failures and moves of the entity

VARIABLES
    call,      \* per call: new, ready, lookup (busy), wait (busy), or its answer
    expired,   \* calls past their deadline
    bytes,     \* Impl::bytes
    member,    \* per member: its cached connection and whether it is in back-off
    conn,      \* connections made: the member, and up, broken or closed
    requests,  \* requests under way to a host
    results,   \* results of node.call whose callback has not run
    owner,     \* where the entity is: the member m that has its lease, -m if it is only
               \* placed there, 0 if neither
    stopped, faults,
    runs       \* history: how often the entity's method ran for a call

vars == <<call, expired, bytes, member, conn, requests, results, owner, stopped, faults, runs>>
world == <<owner, runs>>

Statuses == {"ok", "rejected", "not_found", "disconnected", "timeout", "overloaded", "internal"}
Peers == DOMAIN conn
Places == Members \cup {-m : m \in Members} \cup {0}
Pending == {c \in Calls : call[c] \in {"ready", "lookup", "wait"}}

Init ==
    /\ call = [c \in Calls |-> "new"]
    /\ expired = {} /\ bytes = 0
    /\ member = [m \in Members |-> [peer |-> 0, backoff |-> FALSE]]
    /\ conn = <<>>
    /\ requests = {} /\ results = {}
    /\ owner \in Places
    /\ stopped = FALSE /\ faults = 0
    /\ runs = [c \in Calls |-> 0]

Fault == faults < MaxFaults /\ faults' = faults + 1
-----------------------------------------------------------------------------
(***************************************************************************)
(* finish(), failed().                                                     *)
(***************************************************************************)
Finish(c, status) == call' = [call EXCEPT ![c] = status] /\ bytes' = bytes - Size[c]

RetryableMutant(c, status) == status \in {"rejected", "disconnected", "timeout", "overloaded"}
Retryable(c, status) == c \in Keyed /\ status \in {"rejected", "disconnected", "timeout", "overloaded"}

\* The call is ready for another attempt after 25 ms, or finished.
Failed(c, status) ==
    IF Retryable(c, status) THEN call' = [call EXCEPT ![c] = "ready"] /\ UNCHANGED bytes
    ELSE Finish(c, status)

\* call_encoded(), bind_owner().
Fits(c) == Cardinality(Pending) < Requests /\ Size[c] <= Bytes - bytes

Submit(c) ==
    /\ call[c] = "new" /\ ~stopped
    /\ IF Fits(c) THEN call' = [call EXCEPT ![c] = "ready"] /\ bytes' = bytes + Size[c]
       ELSE call' = [call EXCEPT ![c] = "overloaded"] /\ UNCHANGED bytes
    /\ UNCHANGED <<expired, member, conn, requests, results, stopped, faults, world>>
-----------------------------------------------------------------------------
(***************************************************************************)
(* attempt(): the read of the location, then its callback.                 *)
(***************************************************************************)
\* poll() starts an attempt; the storage queue may be full.
Attempt(c) ==
    /\ call[c] = "ready" /\ c \notin expired /\ ~stopped
    /\ \/ call' = [call EXCEPT ![c] = "lookup"] /\ UNCHANGED <<bytes, faults>>
       \/ Fault /\ Failed(c, "overloaded")
    /\ UNCHANGED <<expired, member, conn, requests, results, stopped, world>>

Eligible == {m \in Members : ~member[m].backoff}

\* select_entity_endpoint(): the owner of a valid lease, else the member of the placement,
\* else the best score.
Select(o) == IF o # 0 THEN Eligible \cap {o, -o} ELSE Eligible

Live(p) == p # 0 /\ conn[p].state = "up"

\* A new connection unless the cached one is connected or connecting, and the call on it.
Send(c, m) ==
    LET fresh == ~Live(member[m].peer)
        p == IF fresh THEN Len(conn) + 1 ELSE member[m].peer
    IN /\ conn' = IF fresh THEN Append(conn, [to |-> m, state |-> "up"]) ELSE conn
       /\ member' = [member EXCEPT ![m].peer = p]
       /\ requests' = requests \cup {[call |-> c, peer |-> p]}
       /\ call' = [call EXCEPT ![c] = "wait"]
       /\ UNCHANGED <<bytes, faults>>

\* connect() throws, or call() does and a new connection stays.
SendError(c, m) ==
    /\ Fault
    /\ \/ member' = [member EXCEPT ![m].backoff = TRUE] /\ UNCHANGED conn
       \/ /\ ~Live(member[m].peer)
          /\ conn' = Append(conn, [to |-> m, state |-> "up"])
          /\ member' = [member EXCEPT ![m] = [peer |-> Len(conn) + 1, backoff |-> TRUE]]
    /\ Failed(c, "disconnected")
    /\ UNCHANGED requests

\* The owner that was read may be the owner no more when the request arrives.
Located(c) ==
    /\ call[c] = "lookup"
    /\ \/ /\ c \in expired \/ Lookup[c] # "found" \/ Select(owner) = {}
          /\ IF c \in expired THEN Finish(c, "timeout")
             ELSE IF Lookup[c] # "found" THEN Finish(c, Lookup[c])
             ELSE Failed(c, "disconnected")
          /\ UNCHANGED <<member, conn, requests, faults>>
       \/ Fault /\ Finish(c, "internal") /\ UNCHANGED <<member, conn, requests>>
       \/ /\ c \notin expired /\ Lookup[c] = "found" /\ Select(owner) # {}
          /\ LET m == Max(Select(owner)) IN Send(c, m) \/ SendError(c, m)
    /\ UNCHANGED <<expired, results, stopped, world>>

\* The callback of node.call, whose own timeout is the caller's deadline. Only the
\* connection that failed is given up.
Drops(p) == member[conn[p].to].peer = p

Shut(cs, ps) == [p \in DOMAIN cs |-> IF p \in ps THEN [cs[p] EXCEPT !.state = "closed"] ELSE cs[p]]

Result(r) ==
    LET m == conn[r.peer].to
    IN /\ results' = results \ {r}
       /\ IF call[r.call] # "wait" \/ stopped THEN UNCHANGED <<call, bytes, member, conn>>
          ELSE /\ IF r.status = "disconnected" /\ Drops(r.peer)
                  THEN /\ member' = [member EXCEPT ![m] = [peer |-> 0, backoff |-> TRUE]]
                       /\ conn' = Shut(conn, {r.peer})
                  ELSE UNCHANGED <<member, conn>>
               /\ IF r.status = "ok" THEN Finish(r.call, "ok") ELSE Failed(r.call, r.status)
       /\ UNCHANGED <<expired, requests, stopped, faults, world>>

\* poll(): the deadline ends a call in any phase.
Overdue(c) ==
    /\ c \in Pending \cap expired /\ ~stopped
    /\ Finish(c, "timeout")
    /\ UNCHANGED <<expired, member, conn, requests, results, stopped, faults, world>>

Stop ==
    /\ ~stopped /\ stopped' = TRUE /\ Fault
    /\ call' = [c \in Calls |-> IF c \in Pending THEN "disconnected" ELSE call[c]]
    /\ bytes' = 0
    /\ conn' = Shut(conn, {member[m].peer : m \in Members})
    /\ member' = [m \in Members |-> [member[m] EXCEPT !.peer = 0]]
    /\ UNCHANGED <<expired, requests, results, world>>
-----------------------------------------------------------------------------
(***************************************************************************)
(* The environment.                                                        *)
(***************************************************************************)
Answer(q, status) ==
    results' = IF call[q.call] # "wait" THEN results
               ELSE results \cup {[call |-> q.call, peer |-> q.peer, status |-> status]}

\* A host executes the request if it has the lease or may take it. A request ID that
\* it executed before is answered from the receipt.
Host(q) ==
    LET m == conn[q.peer].to
    IN /\ requests' = requests \ {q}
       /\ IF owner \in {0, m, -m}
          THEN /\ owner' = m
               /\ runs' = [runs EXCEPT ![q.call] = IF q.call \in Keyed /\ @ > 0 THEN @ ELSE @ + 1]
               /\ IF conn[q.peer].state = "up" THEN Answer(q, "ok") ELSE UNCHANGED results
          ELSE /\ IF conn[q.peer].state = "up" THEN Answer(q, "rejected") ELSE UNCHANGED results
               /\ UNCHANGED world
       /\ UNCHANGED <<call, expired, bytes, member, conn, stopped, faults>>

\* A connection breaks: every call that waits on it is answered disconnected. Its
\* requests may have left, or be lost.
Waiting(p) == {q \in requests : q.peer = p /\ call[q.call] = "wait"}
Break(p) ==
    /\ conn[p].state = "up" /\ Fault
    /\ conn' = [conn EXCEPT ![p].state = "broken"]
    /\ results' = {r \in results : r.peer # p} \cup
                  {[call |-> q.call, peer |-> p, status |-> "disconnected"] :
                      q \in Waiting(p) \cup {r \in results : r.peer = p}}
    /\ \E lost \in SUBSET Waiting(p) : requests' = requests \ lost
    /\ UNCHANGED <<call, expired, bytes, member, stopped, world>>

\* The entity's lease ends, another member takes the entity over, or it is handed off.
Move ==
    /\ Fault
    /\ owner' \in Places \ {owner}
    /\ UNCHANGED <<call, expired, bytes, member, conn, requests, results, stopped, runs>>

Expire(c) ==
    /\ c \in Pending /\ expired' = expired \cup {c} /\ c \notin expired
    /\ UNCHANGED <<call, bytes, member, conn, requests, results, stopped, faults, world>>

BackoffEnds(m) ==
    /\ member[m].backoff
    /\ member' = [member EXCEPT ![m].backoff = FALSE]
    /\ UNCHANGED <<call, expired, bytes, conn, requests, results, stopped, faults, world>>

RouterStep(c) == Attempt(c) \/ Located(c) \/ Overdue(c)

Next ==
    \/ \E c \in Calls : Submit(c) \/ RouterStep(c) \/ Expire(c)
    \/ \E r \in results : Result(r)
    \/ \E q \in requests : Host(q)
    \/ \E p \in Peers : Break(p)
    \/ \E m \in Members : BackoffEnds(m)
    \/ Move \/ Stop

Spec == Init /\ [][Next]_vars

\* poll() runs, storage and transport answer, back-offs end. A deadline need not pass.
Fairness ==
    /\ \A c \in Calls :
          /\ WF_vars(RouterStep(c))
          /\ WF_vars(\E r \in results : r.call = c /\ Result(r))
          /\ WF_vars(\E q \in requests : q.call = c /\ Host(q))
    /\ \A m \in Members : WF_vars(BackoffEnds(m))

FairSpec == Spec /\ Fairness
-----------------------------------------------------------------------------
\* The counters of the limits are exact: what is charged is what is pending.
TypeOK ==
    /\ call \in [Calls -> {"new", "ready", "lookup", "wait"} \cup Statuses]
    /\ Cardinality(Pending) <= Requests
    /\ bytes = FoldSet(LAMBDA c, sum : sum + Size[c], 0, Pending)
    /\ bytes <= Bytes
    /\ \A m \in Members : member[m].peer \in 0..Len(conn)

\* The router sends a call without a request ID at most once, whatever fails, moves or
\* breaks, so its method runs at most once; with a request ID the host's receipts see to it.
RunsAtMostOnce == \A c \in Calls : runs[c] <= 1

\* An answer is definite where it sounds definite: ok means the method ran, and a
\* rejected or not_found call without a request ID did not run and is not on its way.
DefiniteAnswers ==
    \A c \in Calls :
       /\ call[c] = "ok" => runs[c] > 0
       /\ call[c] \in {"rejected", "not_found"} =>
             runs[c] = 0 /\ \A q \in requests : q.call # c

\* A late callback of a connection that was replaced leaves the replacement alone: a
\* member has one live connection, and it is the one the router has cached.
NoOrphanConnection ==
    \A p \in Peers : conn[p].state = "up" => member[conn[p].to].peer = p

\* Even if no deadline passes, every call is answered: retries follow the entity to
\* its owner and end once failures do.
Answered == \A c \in Calls : []<>(c \notin Pending)
=============================================================================
