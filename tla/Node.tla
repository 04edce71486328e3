-------------------------------- MODULE Node --------------------------------
(***************************************************************************)
(* The transport of two nodes: sessions with their mutual authentication   *)
(* and output queues, calls and their callbacks at the connecting node,    *)
(* handlers at the listening node.                                         *)
(*                                                                         *)
(* Each session has two ends, and between them a byte stream that may be   *)
(* cut at any time. Every frame has the size 1 and the reserve for the     *)
(* authentication exchange is 2 frames, as in the code it is two of the    *)
(* largest handshake frame.                                                *)
(***************************************************************************)
EXTENDS Integers, Sequences, FiniteSets, SequencesExt

CONSTANTS
    Calls,       \* calls the client makes, each at most once
    Follow,      \* the call that a call's callback makes at once on the same peer, or None
    None,
    MaxSessions, \* bound: sessions, numbered as they are opened
    MaxFaults,   \* bound: cut streams, idle timeouts, stops
    MaxNotes,    \* bound: notifications sent
    QueueLimit, PendingLimit, InflightLimit, ConnectionLimit   \* Limits

Ends == {"client", "server"}
Peer(e) == IF e = "client" THEN "server" ELSE "client"

VARIABLES
    token,    \* whether both nodes are configured with the same token
    end,      \* end[s][e]: the session object of session s at end e
    wire,     \* wire[s][e]: frames that e has written and its peer has not read
    call,     \* per call: new, pending, or its status
    on,       \* the session a pending call waits on
    running,  \* handlers that have not replied yet
    stopped,  \* the ends whose node is stopped
    faults, notes,
    runs      \* history: how often the handler of a call was started

vars == <<token, end, wire, call, on, running, stopped, faults, notes, runs>>

Sessions == 1..Len(end)
Statuses == {"ok", "rejected", "not_found", "disconnected", "timeout", "overloaded"}
Pending == {c \in Calls : call[c] = "pending"}

\* active: connected; auth: the frame that is awaited, or complete.
NewEnd(auth) == [state |-> "open", active |-> FALSE, auth |-> auth, authq |-> <<>>,
                 out |-> <<>>, writing |-> "no", inflight |-> 0]
ClosedEnd(x) == [x EXCEPT !.state = "closed", !.authq = <<>>, !.out = <<>>]

Init ==
    /\ token \in BOOLEAN
    /\ end = <<>> /\ wire = <<>>
    /\ call = [c \in Calls |-> "new"] /\ on = [c \in Calls |-> 0]
    /\ running = {} /\ stopped = {}
    /\ faults = 0 /\ notes = 0
    /\ runs = [c \in Calls |-> 0]

Fault == faults < MaxFaults /\ faults' = faults + 1
Open(e) == {s \in Sessions : end[s][e].state = "open"}
Authenticated(x) == x.auth = "complete"
-----------------------------------------------------------------------------
(***************************************************************************)
(* Closing. lost(): the session is gone before the callbacks of its calls  *)
(* run, so what a callback calls on the same peer fails at once.           *)
(***************************************************************************)
LostMutant(ss) ==
    LET failed == {c \in Pending : on[c] \in ss}
        next == {c \in Calls : call[c] = "new" /\ \E d \in failed : Follow[d] = c}
    IN /\ call' = [c \in Calls |-> IF c \in failed THEN "disconnected"
                                   ELSE IF c \in next THEN "pending" ELSE call[c]]
       /\ on' = [c \in Calls |-> IF c \in next THEN CHOOSE s \in ss : TRUE ELSE on[c]]
Lost(ss) ==
    LET failed == {c \in Pending : on[c] \in ss}
        next == {c \in Calls : call[c] = "new" /\ \E d \in failed : Follow[d] = c}
    IN /\ call' = [c \in Calls |-> IF c \in failed \cup next THEN "disconnected" ELSE call[c]]
       /\ UNCHANGED on

\* The end e of session s becomes x; close() and lost() if it is closed by that.
BecomeMutant(s, e, x) == end' = [end EXCEPT ![s][e] = x] /\ UNCHANGED <<call, on>>
Become(s, e, x) ==
    /\ end' = [end EXCEPT ![s][e] = x]
    /\ IF e = "client" /\ x.state = "closed" /\ end[s][e].state = "open" THEN Lost({s})
       ELSE UNCHANGED <<call, on>>

\* close() by the application, or by the idle timer.
Close(s, e) ==
    /\ s \in Open(e) /\ Fault
    /\ Become(s, e, ClosedEnd(end[s][e]))
    /\ UNCHANGED <<wire, running, stopped, notes, runs>>

\* A read or a write fails: the other end is gone, or the stream is cut.
Broken(s, e) ==
    /\ s \in Open(e)
    /\ IF end[s][Peer(e)].state # "closed" THEN Fault ELSE UNCHANGED faults
    /\ Become(s, e, ClosedEnd(end[s][e]))
    /\ UNCHANGED <<wire, running, stopped, notes, runs>>

Stop(e) ==
    /\ e \notin stopped /\ Fault
    /\ stopped' = stopped \cup {e}
    /\ end' = [s \in Sessions |-> [end[s] EXCEPT ![e] = ClosedEnd(@)]]
    /\ IF e = "client" THEN Lost(Sessions) ELSE UNCHANGED <<call, on>>
    /\ UNCHANGED <<wire, running, notes, runs>>
-----------------------------------------------------------------------------
(***************************************************************************)
(* Output.                                                                 *)
(***************************************************************************)
Queued(x) == Len(x.authq) + Len(x.out)

\* enqueue(): room for the handshake is kept free until it is over.
Fits(x, handshake) ==
    Queued(x) + (IF handshake \/ Authenticated(x) THEN 0 ELSE 2) < QueueLimit

Put(x, f) == [x EXCEPT !.out = Append(@, f)]
PutAuth(x, f) == IF Fits(x, TRUE) THEN [x EXCEPT !.authq = Append(@, [kind |-> f])] ELSE ClosedEnd(x)
\* A response that does not fit closes the session.
Respond(x, f) == IF Fits(x, FALSE) THEN Put(x, f) ELSE ClosedEnd(x)

\* write(): handshake frames first, other frames once authenticated.
Writes(x) == IF x.authq # <<>> THEN "auth"
             ELSE IF Authenticated(x) /\ x.out # <<>> THEN "out" ELSE "no"

Write(s, e) ==
    LET x == end[s][e]
    IN /\ s \in Open(e) /\ x.active /\ x.writing = "no" /\ Writes(x) # "no"
       /\ end' = [end EXCEPT ![s][e].writing = Writes(x)]
       /\ wire' = [wire EXCEPT ![s][e] = Append(@, Head(IF Writes(x) = "auth" THEN x.authq ELSE x.out))]
       /\ UNCHANGED <<call, on, running, stopped, faults, notes, runs>>

\* The callback of the write; the frame may have been read long before.
Written(s, e) ==
    LET x == end[s][e]
    IN /\ s \in Open(e) /\ x.writing # "no"
       /\ end' = [end EXCEPT ![s][e] = IF x.writing = "auth"
                     THEN [x EXCEPT !.authq = Tail(@), !.writing = "no"]
                     ELSE [x EXCEPT !.out = Tail(@), !.writing = "no"]]
       /\ UNCHANGED <<wire, call, on, running, stopped, faults, notes, runs>>
-----------------------------------------------------------------------------
(***************************************************************************)
(* The client's interface: connect(), call(), notify(), and the timer.     *)
(***************************************************************************)
Connect ==
    /\ "client" \notin stopped /\ Len(end) < MaxSessions
    /\ Cardinality(Open("client")) < ConnectionLimit
    /\ end' = Append(end, [client |-> NewEnd("challenge"),
                           server |-> [NewEnd("client_proof") EXCEPT !.state = "none"]])
    /\ wire' = Append(wire, [e \in Ends |-> <<>>])
    /\ UNCHANGED <<call, on, running, stopped, faults, notes, runs>>

\* accept() and start() on both sides, and the challenge; too many connections are dropped.
Accept(s) ==
    /\ s \in Open("client") /\ end[s].server.state = "none" /\ "server" \notin stopped
    /\ end' = [end EXCEPT
          ![s].client.active = TRUE,
          ![s].server = IF Cardinality(Open("server")) < ConnectionLimit
                        THEN PutAuth([NewEnd("client_proof") EXCEPT !.active = TRUE], "challenge")
                        ELSE ClosedEnd(@)]
    /\ UNCHANGED <<wire, call, on, running, stopped, faults, notes, runs>>

\* The connection is refused.
Refused(s) ==
    /\ s \in Open("client") /\ end[s].server.state = "none" /\ "server" \in stopped
    /\ Become(s, "client", ClosedEnd(end[s].client))
    /\ UNCHANGED <<wire, running, stopped, faults, notes, runs>>

\* call(): on an open session, connected or not, unless a limit is reached.
Call(c, s) ==
    /\ call[c] = "new" /\ ~\E d \in Calls : Follow[d] = c
    /\ IF s \notin Open("client")
       THEN call' = [call EXCEPT ![c] = "disconnected"] /\ UNCHANGED <<end, on>>
       ELSE IF Cardinality(Pending) >= PendingLimit \/ ~Fits(end[s].client, FALSE)
       THEN call' = [call EXCEPT ![c] = "overloaded"] /\ UNCHANGED <<end, on>>
       ELSE /\ call' = [call EXCEPT ![c] = "pending"] /\ on' = [on EXCEPT ![c] = s]
            /\ end' = [end EXCEPT ![s].client = Put(@, [kind |-> "request", call |-> c])]
    /\ UNCHANGED <<wire, running, stopped, faults, notes, runs>>

\* The timer of a call. What was sent stays sent.
Timeout(c) ==
    /\ c \in Pending /\ Fault
    /\ call' = [call EXCEPT ![c] = "timeout"]
    /\ UNCHANGED <<end, wire, on, running, stopped, notes, runs>>

\* notify(): best effort.
Notify(s, e) ==
    /\ s \in Open(e) /\ notes < MaxNotes /\ Fits(end[s][e], FALSE)
    /\ end' = [end EXCEPT ![s][e] = Put(@, [kind |-> "note"])]
    /\ notes' = notes + 1
    /\ UNCHANGED <<wire, call, on, running, stopped, faults, runs>>
-----------------------------------------------------------------------------
(***************************************************************************)
(* receive().                                                              *)
(***************************************************************************)
\* Before the session is authenticated: the one frame that is awaited, or the end.
Handshake(x, f) ==
    IF f.kind # x.auth THEN ClosedEnd(x)
    ELSE IF x.auth = "challenge" THEN PutAuth([x EXCEPT !.auth = "server_proof"], "client_proof")
    ELSE IF ~token THEN ClosedEnd(x)
    ELSE IF x.auth = "server_proof" THEN [x EXCEPT !.auth = "complete"]
    ELSE LET y == PutAuth(x, "server_proof")
         IN IF y.state = "closed" THEN y ELSE [y EXCEPT !.auth = "complete"]

Busy(x) == x.inflight >= InflightLimit

\* A request: refused by the limit, by authorization, identity, policy or for want of a
\* route, or handed to its handler.
Request(s, x, f) ==
    IF Busy(x)
    THEN /\ Become(s, "server", Respond(x, [kind |-> "reply", call |-> f.call, status |-> "overloaded"]))
         /\ UNCHANGED <<running, runs>>
    ELSE \/ \E status \in {"rejected", "not_found"} :
               /\ Become(s, "server", Respond(x, [kind |-> "reply", call |-> f.call, status |-> status]))
               /\ UNCHANGED <<running, runs>>
         \/ /\ Become(s, "server", [x EXCEPT !.inflight = @ + 1])
            /\ running' = running \cup {[session |-> s, call |-> f.call]}
            /\ runs' = [runs EXCEPT ![f.call] = @ + 1]

\* A reply: for a call that still waits on this session.
AnswersMutant(s, f) == TRUE
Answers(s, f) == f.call \in Pending /\ on[f.call] = s

Receive(s, e) ==
    LET x == end[s][e]
        f == Head(wire[s][Peer(e)])
    IN /\ s \in Open(e) /\ x.active /\ wire[s][Peer(e)] # <<>>
       /\ wire' = [wire EXCEPT ![s][Peer(e)] = Tail(@)]
       /\ \/ ~Authenticated(x) /\ Become(s, e, Handshake(x, f)) /\ UNCHANGED <<running, runs>>
          \/ /\ Authenticated(x) /\ f.kind = "note"
             /\ \E y \in {x, ClosedEnd(x)} : Become(s, e, y)  \* accepted, or not allowed
             /\ UNCHANGED <<running, runs>>
          \/ Authenticated(x) /\ f.kind = "request" /\ Request(s, x, f)
          \/ /\ Authenticated(x) /\ f.kind = "reply"
             /\ call' = IF Answers(s, f) THEN [call EXCEPT ![f.call] = f.status] ELSE call
             /\ UNCHANGED <<end, on, running, runs>>
       /\ UNCHANGED <<stopped, faults, notes>>

\* The reply of a handler: too late if the session is closed.
Reply(h) ==
    LET x == end[h.session].server
        y == [x EXCEPT !.inflight = @ - 1]
    IN /\ running' = running \ {h}
       /\ IF x.state = "closed" THEN UNCHANGED <<end, call, on>>
          ELSE Become(h.session, "server", Respond(y, [kind |-> "reply", call |-> h.call, status |-> "ok"]))
       /\ UNCHANGED <<wire, stopped, faults, notes, runs>>

Transport(s, e) == Write(s, e) \/ Written(s, e) \/ Receive(s, e)

Next ==
    \/ Connect
    \/ \E s \in Sessions :
          \/ Accept(s) \/ Refused(s)
          \/ \E c \in Calls : Call(c, s)
          \/ \E e \in Ends : Transport(s, e) \/ Close(s, e) \/ Broken(s, e) \/ Notify(s, e)
    \/ \E c \in Calls : Timeout(c)
    \/ \E h \in running : Reply(h)
    \/ \E e \in Ends : Stop(e)

Spec == Init /\ [][Next /\ UNCHANGED token]_vars

\* poll() is called and handlers reply; streams end after their other end is closed.
\* Nothing is assumed of timers.
Fairness ==
    /\ \A s \in 1..MaxSessions :
          /\ WF_vars(s \in Sessions /\ (Accept(s) \/ Refused(s)) /\ UNCHANGED token)
          /\ \A e \in Ends :
                /\ WF_vars(s \in Sessions /\ Transport(s, e) /\ UNCHANGED token)
                /\ WF_vars(/\ s \in Sessions /\ end[s][Peer(e)].state = "closed"
                           /\ Broken(s, e) /\ UNCHANGED token)
    /\ WF_vars((\E h \in running : Reply(h)) /\ UNCHANGED token)

FairSpec == Spec /\ Fairness
-----------------------------------------------------------------------------
TypeOK ==
    /\ call \in [Calls -> {"new", "pending"} \cup Statuses]
    /\ Cardinality(Pending) <= PendingLimit
    /\ \A s \in Sessions, e \in Ends :
          /\ end[s][e].state \in {"none", "open", "closed"}
          /\ Queued(end[s][e]) <= QueueLimit
    /\ \A e \in Ends : Cardinality(Open(e)) <= ConnectionLimit

\* A pending call always has an open session that will answer it or fail it: no close,
\* stop or re-entrant callback strands one until its timer.
PendingHasSession == \A c \in Pending : on[c] \in Open("client")

\* The transport never repeats a request, and ok means that the handler ran.
RunsOnce == \A c \in Calls : runs[c] <= 1 /\ (call[c] = "ok" => runs[c] = 1)

\* The requests that are queued before the connection is up leave room for the
\* handshake that flushes them.
HandshakeFits ==
    \A s \in Sessions, e \in Ends :
       LET x == end[s][e]
       IN s \in Open(e) /\ x.auth \in {"challenge", "client_proof"} => Queued(x) < QueueLimit

\* Nothing but the handshake is sent on a session before its sender has authenticated
\* the other end as a holder of its token, and the handshake leaves before the rest.
HandshakeFirst ==
    \A s \in Sessions, e \in Ends :
       LET w == wire[s][e]
           app == {i \in 1..Len(w) : w[i].kind \in {"request", "reply", "note"}}
       IN /\ app # {} => token /\ end[s][e].auth = "complete"
          /\ \A i \in app, j \in 1..Len(w) : j > i => j \in app

\* inflight counts exactly the handlers that have not replied, within its limit.
InflightExact ==
    \A s \in Open("server") :
       /\ end[s].server.inflight = Cardinality({h \in running : h.session = s})
       /\ end[s].server.inflight <= InflightLimit

\* An answer is final: a late or a second reply does not change it.
AnswerFinal == [][\A c \in Calls : call[c] \in Statuses => call'[c] = call[c]]_vars

\* Every call is answered without the help of its timer.
Answered == \A c \in Calls : []<>(c \notin Pending)
=============================================================================
