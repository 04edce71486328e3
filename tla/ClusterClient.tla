--------------------------- MODULE ClusterClient ----------------------------
(***************************************************************************)
(* The cluster client: it probes its peers, keeps the answering ones in a  *)
(* directory with a lease, and calls the peer that the directory selects.  *)
(* A call declared idempotent is tried a second time after a transport     *)
(* failure.                                                                *)
(*                                                                         *)
(* Time is in units of half a second, and timers count down: a probe waits *)
(* one unit and is due again two units after an answer, and a directory    *)
(* lease lasts four. The back-off after f failures, 100 ms * 2^f, is       *)
(* rounded up to units.                                                    *)
(***************************************************************************)
EXTENDS Integers, Sequences, FiniteSets, FiniteSetsExt

CONSTANTS
    Peers,       \* the members, as numbers in the order of their score
    Calls,       \* calls that may be made, each at most once
    Idempotent,  \* those that are declared idempotent
    MaxFaults    \* bound: failures of a connection, a probe or a call

VARIABLES
    peer,       \* per peer: its connection (0 if none), probing, failures, time to next
    lease,      \* ServiceDirectory: per peer the time left of its lease, 0 if not listed
    closing,
    conn,       \* connections made: the peer, and whether the transport still has them
    call,       \* per call: new, its current attempt, or its answer
    results,    \* results of node.call whose callback has not run
    faults,
    runs        \* history: how often the route of a call ran

vars == <<closing, peer, lease, conn, call, results, faults, runs>>

Idle == [connection |-> 0, probing |-> FALSE, failures |-> 0, next |-> 0]
New == [pc |-> "new", connection |-> 0, retry |-> FALSE]

Init ==
    /\ closing = FALSE
    /\ peer = [i \in Peers |-> Idle]
    /\ lease = [i \in Peers |-> 0]
    /\ conn = <<>>
    /\ call = [c \in Calls |-> New]
    /\ results = {} /\ faults = 0
    /\ runs = [c \in Calls |-> 0]

Fault == faults < MaxFaults /\ faults' = faults + 1
Backoff(f) == Max({1, (2 ^ f + 4) \div 5})
-----------------------------------------------------------------------------
\* failed(): only the connection that is still the peer's own is given up.
CurrentMutant(i, connection) == TRUE
Current(i, connection) == peer[i].connection = connection

GiveUp(i) ==
    LET f == Min({peer[i].failures + 1, 6})
    IN [connection |-> 0, probing |-> FALSE, failures |-> f, next |-> Backoff(f)]

Failed(i, connection) ==
    IF ~Current(i, connection) THEN UNCHANGED <<peer, lease, conn>>
    ELSE /\ lease' = [lease EXCEPT ![i] = 0]
         /\ peer' = [peer EXCEPT ![i] = GiveUp(i)]
         /\ conn' = [conn EXCEPT ![connection].up = FALSE]

\* tick() for one peer: connect unless connected, and probe. Probes are results in
\* waiting whose call is the peer itself.
Tick(i) ==
    /\ ~peer[i].probing /\ peer[i].next = 0 /\ ~closing
    /\ LET fresh == peer[i].connection = 0
           p == IF fresh THEN Len(conn) + 1 ELSE peer[i].connection
       IN \/ /\ conn' = IF fresh THEN Append(conn, [to |-> i, up |-> TRUE]) ELSE conn
             /\ peer' = [peer EXCEPT ![i].connection = p, ![i].probing = TRUE]
             /\ results' = results \cup {[for |-> i, connection |-> p, status |-> "none", age |-> 0]}
             /\ UNCHANGED faults
          \/ /\ fresh /\ Fault
             /\ peer' = [peer EXCEPT ![i].next = 2]
             /\ UNCHANGED <<conn, results>>
    /\ UNCHANGED <<closing, lease, call, runs>>

\* The answer to a probe: ready, or late, or the connection's end.
Probed(r) ==
    /\ r.for \in Peers /\ r.status # "none"
    /\ results' = results \ {r}
    /\ IF closing \/ ~Current(r.for, r.connection) THEN UNCHANGED <<peer, lease, conn>>
       ELSE IF r.status # "ok" THEN Failed(r.for, r.connection)
       ELSE /\ peer' = [peer EXCEPT ![r.for].probing = FALSE, ![r.for].failures = 0,
                                    ![r.for].next = 2]
            /\ lease' = [lease EXCEPT ![r.for] = 4]
            /\ UNCHANGED conn
    /\ UNCHANGED <<closing, call, faults, runs>>
-----------------------------------------------------------------------------
Listed == {i \in Peers : lease[i] > 0}

\* attempt(): the best listed peer, on the connection it has now.
Sent(c, p) == [for |-> c, connection |-> p, status |-> "none", age |-> 0]

Attempt(c, retry) ==
    IF Listed = {}
    THEN call' = [call EXCEPT ![c] = [New EXCEPT !.pc = "disconnected"]] /\ UNCHANGED results
    ELSE LET p == peer[Max(Listed)].connection
         IN /\ call' = [call EXCEPT ![c] = [pc |-> "wait", connection |-> p, retry |-> retry]]
            /\ results' = results \cup {Sent(c, p)}

Call(c) ==
    /\ call[c].pc = "new" /\ ~closing
    /\ Attempt(c, c \in Idempotent)
    /\ UNCHANGED <<closing, peer, lease, conn, faults, runs>>

\* The callback of a call. A transport failure fails the peer, and an idempotent call
\* is tried once more if the directory still has a peer and there is time left, which
\* there is not after its own timeout. A timeout that the peer itself answers, here "late",
\* counts as a transport failure too. A client that is gone answers for itself.
Again(c, status) == call[c].retry /\ status \in {"disconnected", "late"}
Reported(status) == IF closing THEN "disconnected" ELSE IF status = "late" THEN "timeout" ELSE status

Called(r) ==
    LET c == r.for
        transport == r.status # "ok"
        next == {i \in Peers : lease'[i] > 0}
    IN /\ c \in Calls /\ r.status # "none"
       /\ IF transport /\ ~closing THEN Failed(conn[r.connection].to, r.connection)
          ELSE UNCHANGED <<peer, lease, conn>>
       /\ IF Again(c, r.status) /\ ~closing /\ next # {}
          THEN LET p == peer'[Max(next)].connection
               IN /\ call' = [call EXCEPT ![c] = [pc |-> "wait", connection |-> p, retry |-> FALSE]]
                  /\ results' = (results \ {r}) \cup {Sent(c, p)}
          ELSE /\ call' = [call EXCEPT ![c] = [New EXCEPT !.pc = Reported(r.status)]]
               /\ results' = results \ {r}
       /\ UNCHANGED <<closing, faults, runs>>

\* ~ClusterClient().
Close ==
    /\ ~closing /\ closing' = TRUE /\ Fault
    /\ conn' = [p \in DOMAIN conn |-> [conn[p] EXCEPT !.up = FALSE]]
    /\ UNCHANGED <<peer, lease, call, results, runs>>
-----------------------------------------------------------------------------
(***************************************************************************)
(* The transport and the peers behind it.                                  *)
(***************************************************************************)
Settle(r, status) == results' = (results \ {r}) \cup {[r EXCEPT !.status = status]}

\* The peer executes a request and answers it.
Serve(r) ==
    /\ r.status = "none" /\ conn[r.connection].up
    /\ runs' = IF r.for \in Calls THEN [runs EXCEPT ![r.for] = @ + 1] ELSE runs
    /\ Settle(r, "ok")
    /\ UNCHANGED <<closing, peer, lease, conn, call, faults>>

\* A request is lost or its answer is: it times out, or its connection ends. Or the peer
\* answers that it timed out there.
Lose(r) ==
    /\ r.status = "none" /\ conn[r.connection].up /\ Fault
    /\ \E ran \in {0, 1}, s \in {"timeout", "disconnected", "late"} :
          /\ runs' = IF r.for \in Calls THEN [runs EXCEPT ![r.for] = @ + ran] ELSE runs
          /\ Settle(r, s)
    /\ UNCHANGED <<closing, peer, lease, conn, call>>

\* A connection that the client closed ends its requests, executed or not.
End(r) ==
    /\ r.status = "none" /\ ~conn[r.connection].up
    /\ \E ran \in {0, 1} :
          runs' = IF r.for \in Calls THEN [runs EXCEPT ![r.for] = @ + ran] ELSE runs
    /\ Settle(r, "disconnected")
    /\ UNCHANGED <<closing, peer, lease, conn, call, faults>>

\* Half a second. A probe that is overdue has its timeout first.
Less(t) == IF t > 0 THEN t - 1 ELSE 0

Pass ==
    /\ ~closing /\ \A r \in results : r.for \in Peers => r.age = 0
    /\ peer' = [i \in Peers |-> [peer[i] EXCEPT !.next = Less(@)]]
    /\ lease' = [i \in Peers |-> Less(lease[i])]
    /\ results' = {IF r.for \in Peers THEN [r EXCEPT !.age = 1] ELSE r : r \in results}
    /\ UNCHANGED <<closing, conn, call, faults, runs>>

Transport(r) == Serve(r) \/ End(r) \/ Called(r) \/ Probed(r)

Next ==
    \/ \E i \in Peers : Tick(i)
    \/ \E c \in Calls : Call(c)
    \/ \E r \in results : Transport(r) \/ Lose(r)
    \/ Pass \/ Close

Spec == Init /\ [][Next]_vars

\* Time passes, poll() runs, and the transport answers.
Fairness ==
    /\ \A i \in Peers : WF_vars(Tick(i))
    /\ WF_vars(Pass)
    /\ \A k \in Peers \cup Calls :
          WF_vars(\E r \in results : r.for = k /\ Transport(r))

FairSpec == Spec /\ Fairness
-----------------------------------------------------------------------------
TypeOK ==
    /\ \A i \in Peers : /\ peer[i].connection \in 0..Len(conn)
                        /\ peer[i].failures \in 0..6
                        /\ peer[i].probing => peer[i].connection # 0
    /\ \A c \in Calls : call[c].pc \in {"new", "wait", "ok", "disconnected", "timeout"}

\* A peer in the directory has a connection, and it is open: attempt() calls on it
\* without looking. A late answer to an old probe never lists a peer again.
ListedIsConnected ==
    \A i \in Peers : ~closing /\ lease[i] # 0 =>
       peer[i].connection # 0 /\ conn[peer[i].connection] = [to |-> i, up |-> TRUE]

\* A call that is not declared idempotent is never sent twice, an idempotent one never
\* more than twice, whichever connections fail or are replaced meanwhile.
RunsBounded == \A c \in Calls : runs[c] <= IF c \in Idempotent THEN 2 ELSE 1

\* Every connection the client opened and did not close is the current one of its peer:
\* a failure reported late neither leaks the replacement nor closes it.
NoOrphanConnection == \A p \in DOMAIN conn : conn[p].up => peer[conn[p].to].connection = p

\* However a peer failed, it is listed again and again once failures cease: no order of
\* late answers leaves it unprobed. Every call is answered.
Recovers ==
    /\ \A i \in Peers : []<>(closing \/ lease[i] > 0)
    /\ \A c \in Calls : []<>(call[c].pc # "wait")
=============================================================================
