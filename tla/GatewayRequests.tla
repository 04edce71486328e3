--------------------------- MODULE GatewayRequests ---------------------------
(***************************************************************************)
(* The requests that ClientGateway takes from its clients (and, for their  *)
(* clients, from the nodes) and answers itself: client_gateway.cpp.        *)
(* A request looks up where its entity is, sharing one lookup with all     *)
(* requests for the entity, gets the link of its client to that node,      *)
(* sharing one opening with all requests of the client, and is forwarded.  *)
(* Between any two of these steps its client may disconnect or log in      *)
(* again (the front Node's identity of the connection changes), its        *)
(* deadline may pass and the link may break.                               *)
(* Handlers call each other synchronously, so that they are functions from *)
(* a state g of the gateway to its next one, and an action is one callback *)
(* of a Node, of the AsyncDatabase, or one part of poll().                 *)
(* All requests are for one entity, that one node serves; limits of the    *)
(* lookups and the migration of subscriptions are not modelled here.       *)
(***************************************************************************)
EXTENDS Naturals, FiniteSets, SequencesExt, FiniteSetsExt

CONSTANTS
    Clients,       \* connections of the front Node
    Requests,      \* what the clients send, each once
    Client,        \* Requests -> Clients
    Kind,          \* Requests -> {"call", "hidden", "watch", "present", "renew"}
    Target,        \* the watch whose subscription a "renew" names
    Size,          \* Requests -> bytes
    MaxPending, MaxBytes, MaxLinks, MaxSessions, PerClient,  \* GatewayLimits
    MaxFaults      \* bound: failures and changes of identity

VARIABLES g, faults
vars == <<g, faults>>

Fault == faults < MaxFaults /\ faults' = faults + 1

\* The front's connections (open, identity) and the gateway's memory: ses[c] is the identity
\* of the session, 0 for none. dead[c] counts the lost links that poll() has not yet removed.
\* call[r] is what back.call() is waiting for, remote the subscriptions at the node, unwatch
\* the calls that end one. full: the back Node has no room for another connection. overdue is
\* a history: the requests whose back.call() gave up at its own deadline.
Init ==
    /\ faults = 0
    /\ g = [open |-> [c \in Clients |-> TRUE], identity |-> [c \in Clients |-> 1],
            ses |-> [c \in Clients |-> 0],
            link |-> [c \in Clients |-> "none"], dead |-> [c \in Clients |-> 0], joining |-> {},
            busy |-> FALSE, cached |-> FALSE, looking |-> {},
            pending |-> {}, retry |-> {}, queued |-> 0, who |-> [r \in Requests |-> 0],
            sub |-> [r \in Requests |-> "none"], call |-> [r \in Requests |-> "none"],
            remote |-> {}, unwatch |-> {}, backoff |-> FALSE, full |-> FALSE, overdue |-> {},
            answers |-> [r \in Requests |-> <<>>],
            draining |-> FALSE, stopped |-> FALSE]

Of(c) == {r \in Requests : Client[r] = c}
-----------------------------------------------------------------------------
(***************************************************************************)
(* Sessions, and the end of a request                                      *)
(***************************************************************************)
Current(h, c, i) == ~h.stopped /\ h.open[c] /\ h.identity[c] = i

AuthenticatedSession(h, c) == h.ses[c] # 0 /\ Current(h, c, h.ses[c])

Authenticated(h, r) == h.ses[Client[r]] = h.who[r] /\ Current(h, Client[r], h.who[r])

\* remove(): the node is told if the subscription is there and the link up.
Remove_(h, r) ==
    [h EXCEPT !.sub[r] = "none",
              !.unwatch = IF h.sub[r] = "live" /\ h.link[Client[r]] = "ready" THEN @ \cup {r} ELSE @]

\* A request leaves the gateway: detach removes it from whatever it waits for.
Bytes(S) == MapThenSumSet(LAMBDA r : Size[r], S)
DetachedMutant(h, S) == [h EXCEPT !.pending = @ \ S, !.retry = @ \ S, !.queued = @ - Bytes(S)]
Detached(h, S) ==
    [h EXCEPT !.pending = @ \ S, !.retry = @ \ S, !.queued = @ - Bytes(S),
              !.looking = @ \ S, !.joining = @ \ S]

Replied(h, S, status) == [h EXCEPT !.answers = [r \in Requests |-> IF r \in S THEN Append(@[r], status) ELSE @[r]]]

\* A link that is closed takes its calls and the node's subscriptions with it.
Cut(h, c, state) ==
    [h EXCEPT !.link[c] = state,
              !.call = [r \in Requests |-> IF Client[r] = c THEN "none" ELSE @[r]],
              !.sub = [r \in Requests |-> IF Client[r] = c /\ @[r] = "live" THEN "lost" ELSE @[r]],
              !.remote = @ \ Of(c), !.unwatch = @ \ Of(c)]

\* revoke(): the session first, then its requests, its subscriptions and its links.
ClosedLinks(h, c) ==
    [Cut(h, c, "none") EXCEPT !.dead[c] = IF h.link[c] = "dead" THEN @ - 1 ELSE @,
                              !.backoff = @ \/ h.link[c] = "opening"]
Revoke(h, c) ==
    LET S == h.pending \cap Of(c)
        h1 == [h EXCEPT !.ses[c] = 0, !.open[c] = FALSE,
                        !.sub = [r \in Requests |-> IF Client[r] = c THEN "none" ELSE @[r]]]
    IN IF h.ses[c] = 0 THEN h ELSE ClosedLinks(Replied(Detached(h1, S), S, "disconnected"), c)

\* finish(): an answer is for the connection that asked, and for no other.
Finish(h, r, status) ==
    LET valid == Authenticated(h, r)
        given == IF valid THEN status ELSE "disconnected"
        h1 == Detached(h, {r})
        h2 == IF given # "ok" /\ Kind[r] = "watch" THEN Remove_(h1, r) ELSE h1
        h3 == Replied(h2, {r}, given)
    IN IF r \notin h.pending THEN h ELSE IF valid THEN h3 ELSE Revoke(h3, Client[r])
-----------------------------------------------------------------------------
(***************************************************************************)
(* acquire(): the link, and select(): the node                             *)
(***************************************************************************)
Links(h) == MapThenSumSet(LAMBDA c : h.dead[c], Clients)
            + Cardinality({c \in Clients : h.link[c] \in {"opening", "ready"}})

Acquire(h, r) ==
    LET c == Client[r]
    IN CASE ~AuthenticatedSession(h, c) -> Finish(Revoke(h, c), r, "disconnected")
         [] AuthenticatedSession(h, c) /\ h.link[c] = "ready" -> [h EXCEPT !.call[r] = "sent"]
         [] AuthenticatedSession(h, c) /\ h.link[c] = "opening" -> [h EXCEPT !.joining = @ \cup {r}]
         [] AuthenticatedSession(h, c) /\ h.link[c] \in {"none", "dead"} ->
              IF Links(h) >= MaxLinks THEN Finish(h, r, "overloaded")
              ELSE IF h.full THEN Finish(h, r, "disconnected")  \* connect() throws
              ELSE [h EXCEPT !.link[c] = "opening", !.joining = @ \cup {r}]

\* What each kind of request does with the outcome of select().
Selected(h, r, status) ==
    CASE r \notin h.pending -> h
      [] r \in h.pending /\ Kind[r] = "present" /\ status = "disconnected" -> [h EXCEPT !.retry = @ \cup {r}]
      [] r \in h.pending /\ status = "ok" /\ Kind[r] = "hidden" -> Finish(h, r, "rejected")
      [] r \in h.pending /\ status = "ok" /\ Kind[r] # "hidden" -> Acquire(h, r)
      [] OTHER -> Finish(h, r, status)

\* The endpoint is eligible while the client's link is up or it is not backed off.
Located(h, r) ==
    Selected(h, r, IF h.link[Client[r]] = "ready" \/ ~h.backoff THEN "ok" ELSE "disconnected")

Select(h, r) ==
    IF h.cached THEN Located(h, r)
    ELSE [h EXCEPT !.busy = TRUE, !.looking = @ \cup {r}]
-----------------------------------------------------------------------------
(***************************************************************************)
(* The requests                                                            *)
(***************************************************************************)
Fits(h, r) == Cardinality(h.pending) < MaxPending /\ Size[r] <= MaxBytes - h.queued

\* request(): the request of a client that is let in, or the answer it gets.
Refusal(h, r) ==
    LET c == Client[r]
    IN CASE h.stopped -> "disconnected"
         [] ~h.stopped /\ h.draining -> "overloaded"
         [] ~h.stopped /\ ~h.draining /\ ~Current(h, c, h.identity[c]) -> "rejected"
         [] ~h.stopped /\ ~h.draining /\ Current(h, c, h.identity[c]) ->
              IF ~Fits(h, r) THEN "overloaded"
              ELSE IF h.ses[c] = 0 /\ Cardinality({d \in Clients : h.ses[d] # 0}) >= MaxSessions THEN "overloaded"
              ELSE IF h.ses[c] \notin {0, h.identity[c]} THEN "rejected"
              ELSE "none"
Refused(h, r, status) ==
    LET h1 == IF status = "rejected" THEN Revoke(h, Client[r]) ELSE h IN Replied(h1, {r}, status)

Request(h, r) ==
    LET c == Client[r]
    IN [h EXCEPT !.ses[c] = h.identity[c], !.who[r] = h.identity[c],
                 !.pending = @ \cup {r}, !.queued = @ + Size[r]]

New(r) == g.answers[r] = <<>> /\ g.who[r] = 0
Watches(h, c) == Cardinality({r \in Of(c) : h.sub[r] # "none"})

\* routed(), watch() and present(), which a node sends over the client's link.
Submit(r) ==
    LET c == Client[r]
        status == Refusal(g, r)
        full == Kind[r] = "watch" /\ Watches(g, c) >= PerClient
        open == ~(Kind[r] = "present" /\ ~AuthenticatedSession(g, c))
        h == Request(g, r)
    IN /\ New(r) /\ Kind[r] # "renew"
       /\ g.open[c]
       /\ Kind[r] = "present" => g.link[c] = "ready"
       /\ g' = CASE full -> Replied(g, {r}, "overloaded")
                 [] ~open -> Replied(g, {r}, "disconnected")
                 [] ~full /\ open /\ status # "none" -> Refused(g, r, status)
                 [] ~full /\ open /\ status = "none" ->
                      Select(IF Kind[r] = "watch" THEN [h EXCEPT !.sub[r] = "busy"] ELSE h, r)
       /\ UNCHANGED faults

\* control() of a renew: of a subscription whose link is lost nothing is asked.
Renew(r) ==
    LET c == Client[r]
        status == Refusal(g, r)
    IN /\ New(r) /\ Kind[r] = "renew" /\ ~g.stopped
       /\ g.open[c]
       /\ g.answers[Target[r]] = <<"ok">>
       /\ g' = CASE g.sub[Target[r]] = "none" -> Replied(g, {r}, "not_found")
                 [] g.sub[Target[r]] # "none" /\ g.ses[c] # g.identity[c] -> Refused(g, r, "rejected")
                 [] g.sub[Target[r]] # "none" /\ g.ses[c] = g.identity[c] ->
                      IF g.sub[Target[r]] \in {"lost", "moving"}
                      THEN Replied([g EXCEPT !.sub[Target[r]] = "moving"], {r}, "ok")
                      ELSE IF status # "none" THEN Refused(g, r, status)
                      ELSE [Request(g, r) EXCEPT !.call[r] = "sent"]
       /\ UNCHANGED faults

\* control() of an unwatch.
Unwatch(r) ==
    LET c == Client[r]
    IN /\ g.answers[r] = <<"ok">> /\ g.sub[r] # "none" /\ ~g.stopped
       /\ g.open[c] /\ g.ses[c] = g.identity[c]
       /\ g' = Remove_(g, r) /\ UNCHANGED faults
-----------------------------------------------------------------------------
(***************************************************************************)
(* The callbacks                                                           *)
(***************************************************************************)
\* The lookup is done. (The waiters are called in the order of their ids; here in any.)
LookedUp(status) ==
    /\ g.busy
    /\ IF status = "ok" THEN UNCHANGED faults ELSE Fault
    /\ \E order \in SetToSeqs(g.looking) :
         LET h == [g EXCEPT !.busy = FALSE, !.looking = {}, !.cached = status = "ok"]
         IN g' = FoldLeft(LAMBDA x, r : IF status = "ok" THEN Located(x, r) ELSE Selected(x, r, status),
                          h, order)

LookupExpires == g.cached /\ g' = [g EXCEPT !.cached = FALSE] /\ UNCHANGED faults

\* The answer of system.gateway.delegate, which the opening of a link waits for.
Welcome(h, c) == AuthenticatedSession(h, c)
Delegated(c, ok) ==
    /\ g.link[c] = "opening"
    /\ IF ok THEN UNCHANGED faults ELSE Fault
    /\ \E order \in SetToSeqs(g.joining \cap Of(c)) :
         LET up == ok /\ Welcome(g, c)
             h1 == IF Welcome(g, c) THEN g ELSE Revoke(g, c)
             h2 == [h1 EXCEPT !.joining = @ \ Of(c), !.link[c] = IF up THEN "ready" ELSE "none",
                              !.backoff = @ \/ ~up]
         IN g' = FoldLeft(LAMBDA x, r : IF r \notin x.pending THEN x
                                        ELSE IF up THEN [x EXCEPT !.call[r] = "sent"]
                                        ELSE Finish(x, r, "disconnected"), h2, order)

BackoffEnds == g.backoff /\ g' = [g EXCEPT !.backoff = FALSE] /\ UNCHANGED faults

\* The node serves a call: of a watch it makes a subscription. The answer to a call that is
\* over at the gateway is dropped.
Serve(r, ok) ==
    /\ g.call[r] \in {"sent", "over"}
    /\ IF ok THEN UNCHANGED faults ELSE Fault
    /\ g' = [g EXCEPT !.call[r] = IF @ = "over" THEN "none" ELSE IF ok THEN "ok" ELSE "failed",
                      !.remote = IF ok /\ Kind[r] = "watch" THEN @ \cup {r} ELSE @]
ServeUnwatch(r) ==
    /\ r \in g.unwatch
    /\ g' = [g EXCEPT !.unwatch = @ \ {r}, !.remote = @ \ {r}] /\ UNCHANGED faults

\* The answer arrives. That of a watch that is over must not leave its subscription behind.
Late(h, r) == IF h.call[r] = "ok" /\ Kind[r] = "watch" THEN [h EXCEPT !.unwatch = @ \cup {r}] ELSE h
Answered(r) ==
    /\ g.call[r] \in {"ok", "failed"}
    /\ LET h == [g EXCEPT !.call[r] = "none"]
           live == IF Kind[r] = "watch" /\ g.call[r] = "ok" THEN [h EXCEPT !.sub[r] = "live"] ELSE h
       IN g' = IF r \in g.pending THEN Finish(live, r, g.call[r])
               ELSE [Late(g, r) EXCEPT !.call[r] = "none"]
    /\ UNCHANGED faults

\* The deadline of back.call() itself passes: the request ends if it has not yet, and what the
\* node answers is dropped, whether it is on its way or still to come.
CallTimeout(r) ==
    /\ g.call[r] \in {"sent", "ok", "failed"}
    /\ g' = Finish([g EXCEPT !.call[r] = IF @ = "sent" THEN "over" ELSE "none",
                             !.overdue = @ \cup {r}], r, "timeout")
    /\ UNCHANGED faults

\* The link breaks: Node::call answers what was sent over it.
BreakLink(c) ==
    /\ g.link[c] = "ready" /\ Fault
    /\ \E order \in SetToSeqs({r \in Of(c) : g.call[r] # "none"}) :
         LET h == [Cut(g, c, "dead") EXCEPT !.dead[c] = @ + 1]
         IN g' = FoldLeft(LAMBDA x, r : Finish(x, r, "disconnected"), h, order)
-----------------------------------------------------------------------------
(***************************************************************************)
(* poll(), the clients, and the end                                        *)
(***************************************************************************)
PollSession(c) ==
    /\ g.ses[c] # 0 /\ ~AuthenticatedSession(g, c) /\ ~g.stopped
    /\ g' = Revoke(g, c) /\ UNCHANGED faults

PollLost(c) ==
    /\ g.dead[c] > 0 /\ ~g.stopped
    /\ g' = [g EXCEPT !.dead[c] = 0, !.link[c] = IF @ = "dead" THEN "none" ELSE @]
    /\ UNCHANGED faults

Timeout(r) == r \in g.pending /\ ~g.stopped /\ g' = Finish(g, r, "timeout") /\ UNCHANGED faults

Retry(r) ==
    /\ r \in g.retry /\ ~g.stopped
    /\ g' = IF Authenticated(g, r) THEN Select([g EXCEPT !.retry = @ \ {r}], r)
            ELSE Finish(g, r, "disconnected")
    /\ UNCHANGED faults

\* poll() finds that the link of a subscription is lost: its migration begins, and may end in
\* its removal.
Moving(r) ==
    /\ g.sub[r] = "lost" /\ ~g.stopped
    /\ g' = [g EXCEPT !.sub[r] = "moving", !.backoff = TRUE] /\ UNCHANGED faults
GiveUp(r) == g.sub[r] = "moving" /\ ~g.stopped /\ g' = Remove_(g, r) /\ UNCHANGED faults

Login(c) == g.open[c] /\ g.identity[c] = 1 /\ Fault /\ g' = [g EXCEPT !.identity[c] = 2]
Leave(c) == g.open[c] /\ Fault /\ g' = [g EXCEPT !.open[c] = FALSE]

\* Other connections fill the back Node, until they end.
Fill == ~g.full /\ ~g.stopped /\ Fault /\ g' = [g EXCEPT !.full = TRUE]
Empty == g.full /\ g' = [g EXCEPT !.full = FALSE] /\ UNCHANGED faults

Drain == ~g.draining /\ ~g.stopped /\ Fault /\ g' = [g EXCEPT !.draining = TRUE]

\* stop(): nobody is authenticated any more, so that every request ends as disconnected.
Stop ==
    /\ ~g.stopped /\ Fault
    /\ LET h == [Replied(Detached(g, g.pending), g.pending, "disconnected")
                    EXCEPT !.stopped = TRUE, !.ses = [c \in Clients |-> 0],
                           !.sub = [r \in Requests |-> "none"], !.busy = FALSE,
                           !.open = [c \in Clients |-> @[c] /\ g.pending \cap Of(c) = {}]]
       IN g' = FoldSet(LAMBDA c, x : ClosedLinks(x, c), h, Clients)

Poll == \/ \E c \in Clients : PollSession(c) \/ PollLost(c)
        \/ \E r \in Requests : Timeout(r) \/ Retry(r) \/ Moving(r) \/ GiveUp(r)

Callback == \/ \E status \in {"ok", "not_found", "internal"} : LookedUp(status)
            \/ \E c \in Clients, ok \in BOOLEAN : Delegated(c, ok)
            \/ \E r \in Requests : Answered(r) \/ CallTimeout(r)

Next ==
    \/ \E r \in Requests : Submit(r) \/ Renew(r) \/ Unwatch(r) \/ ServeUnwatch(r)
    \/ Poll \/ Callback \/ LookupExpires \/ BackoffEnds
    \/ \E r \in Requests, ok \in BOOLEAN : Serve(r, ok)
    \/ \E c \in Clients : BreakLink(c) \/ Login(c) \/ Leave(c)
    \/ Fill \/ Empty \/ Drain \/ Stop

Spec == Init /\ [][Next]_vars

\* Fairness: lookups end, nodes answer, the Nodes report what became of a call and poll() runs.
\* That a deadline passes is not assumed: no request needs its deadline.
Fairness ==
    /\ \A r \in Requests :
         /\ WF_vars(Answered(r)) /\ WF_vars(Serve(r, TRUE))
         /\ WF_vars(Retry(r))
    /\ WF_vars(LookedUp("ok")) /\ WF_vars(BackoffEnds)
    /\ \A c \in Clients :
         /\ WF_vars(Delegated(c, TRUE)) /\ WF_vars(PollSession(c))

FairSpec == Spec /\ Fairness
-----------------------------------------------------------------------------
Statuses == {"ok", "failed", "rejected", "not_found", "overloaded", "disconnected", "internal", "timeout"}
TypeOK ==
    /\ g.ses \in [Clients -> 0..2] /\ g.identity \in [Clients -> 1..2]
    /\ g.link \in [Clients -> {"none", "opening", "ready", "dead"}]
    /\ g.sub \in [Requests -> {"none", "busy", "live", "lost", "moving"}]
    /\ g.call \in [Requests -> {"none", "sent", "ok", "failed", "over"}]
    /\ g.pending \subseteq Requests /\ g.queued \in 0..MaxBytes
    /\ \A r \in Requests : g.answers[r] \in {<<>>} \cup {<<s>> : s \in Statuses}
    /\ Links(g) <= MaxLinks

\* Every request that the gateway keeps is waiting for something that will call it back: a
\* lookup in progress, a link being opened, its call or its retry. Nothing else is waited for,
\* so that no callback finds a request that is over (finish() and its detach).
NothingStranded ==
    /\ g.pending = g.looking \cup g.joining \cup g.retry \cup {r \in g.pending : g.call[r] # "none"}
    /\ g.looking # {} => g.busy
    /\ \A r \in g.joining : g.link[Client[r]] = "opening"

\* The bytes that are counted as queued are those of the requests that are kept (finish()).
BytesExact == g.queued = Bytes(g.pending)

\* When a session has been revoked, nothing of it is left: no link that speaks for its
\* client, no request and no subscription.
RevokedIsGone ==
    \A c \in Clients : g.ses[c] = 0 =>
        g.link[c] = "none" /\ g.pending \cap Of(c) = {} /\ \A r \in Of(c) : g.sub[r] = "none"

\* The node keeps a subscription only for a subscription of the gateway, or until the answer
\* or the unwatch that is on its way arrives: a watch that is cancelled, whenever, leaves none,
\* unless back.call() gave up first and dropped the answer that names it (the callback of
\* watch() ends a subscription it comes too late for).
NoOrphanWatch ==
    \A r \in g.remote \ g.overdue : g.sub[r] = "live" \/ g.call[r] = "ok" \/ r \in g.unwatch

\* No request is forwarded for a connection that is no longer the one that sent it (acquire(),
\* the delegate callback and control() look again before back.call()).
SentIsCurrent ==
    [][\A r \in Requests : (g'.call[r] = "sent" /\ g.call[r] # "sent") =>
          Current(g, Client[r], g'.who[r])]_vars

\* An answer other than disconnected is for the connection that sent the request (finish()).
AnswerIsForAsker ==
    [][\A r \in g.pending : g'.answers[r] # <<>> /\ g'.answers[r] # <<"disconnected">> =>
          Current(g, Client[r], g.who[r])]_vars

\* Every request that is let in is answered, without its deadline.
AllAnswered == \A r \in Requests : []<>(g.who[r] # 0 => g.answers[r] # <<>>)
=============================================================================
