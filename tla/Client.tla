------------------------------- MODULE Client -------------------------------
(***************************************************************************)
(* The client SDK, client.cpp: one connection at a time (a generation), the *)
(* entities that its server shows it (bindings), requests, and the events   *)
(* that it gives to the application.                                        *)
(* The application's callbacks call the client again. What they ask for is  *)
(* put off while poll() or apply_actions() runs (polling, applying), so     *)
(* that one callback may find the client in the middle of a cleanup. A      *)
(* function of the code that calls back is therefore an operator from a     *)
(* state of the client to the set of states it may leave, one for each way  *)
(* the application may react.                                               *)
(***************************************************************************)
EXTENDS Naturals, FiniteSets, SequencesExt

CONSTANTS
    Subs,       \* subscriptions of a connection
    Requests,   \* requests of the application, each made once
    MaxGen,     \* bound: connections
    MaxReacts,  \* bound: times a callback calls the client or throws
    MaxFaults   \* bound: times a connection is lost or times out

VARIABLES
    g,      \* the client
    faults
vars == <<g, faults>>

\* conn is Node's view of the peer, told what the application has been told (open and up: the
\* generation's connecting and connected, shown: the entities), wants the last thing it asked.
Init ==
    /\ faults = 0
    /\ g = [state |-> "disconnected", gen |-> 0, conn |-> "none", bindings |-> {},
            pending |-> FALSE, status |-> "ok", next |-> FALSE,
            polling |-> FALSE, shutdown |-> FALSE,
            calls |-> [r \in Requests |-> 0], answers |-> [r \in Requests |-> <<>>],
            told |-> [open |-> FALSE, up |-> FALSE, shown |-> {}, legal |-> TRUE],
            wants |-> "disconnect", cut |-> FALSE, reacts |-> 0]

Each(H, op(_)) == UNION {op(h) : h \in H}

Active(h) == ~h.shutdown /\ ~h.pending /\ h.state # "disconnected" /\ h.conn # "none"
-----------------------------------------------------------------------------
(***************************************************************************)
(* What the application may do in a callback                               *)
(***************************************************************************)
RequestDisconnect(h, status) == [h EXCEPT !.pending = TRUE, !.status = status]
AskDisconnect(h) == [RequestDisconnect(h, "ok") EXCEPT !.wants = "disconnect"]

MayConnect(h) == ~h.shutdown /\ (h.state = "disconnected" \/ h.pending) /\ ~h.next /\ h.gen < MaxGen
AskConnect(h) == [h EXCEPT !.next = TRUE, !.wants = "connect"]

\* request(): without a connection the answer is immediate.
Ask(h, r) == IF Active(h) THEN [h EXCEPT !.calls[r] = h.gen]
             ELSE [h EXCEPT !.answers[r] = Append(@, "disconnected")]
Fresh(h, r) == h.calls[r] = 0 /\ h.answers[r] = <<>>

\* invoke(): a callback that throws asks for the end of the connection.
React(h) ==
    LET x == [h EXCEPT !.reacts = @ + 1]
    IN {h} \cup
       (IF h.reacts >= MaxReacts THEN {} ELSE
          {AskDisconnect(x), RequestDisconnect(x, "internal")}
          \cup {AskConnect(y) : y \in {z \in {x, AskDisconnect(x)} : MayConnect(z)}}
          \cup {Ask(x, r) : r \in {q \in Requests : Fresh(x, q)}})

\* The events are legal when each generation is connecting, then perhaps connected, shows and
\* hides entities, and ends when all of them are hidden.
Told(t, event, s) ==
    CASE event = "connecting" -> [t EXCEPT !.open = TRUE, !.legal = @ /\ ~t.open]
      [] event = "connected" -> [t EXCEPT !.up = TRUE, !.legal = @ /\ t.open /\ ~t.up]
      [] event = "disconnected" ->
           [t EXCEPT !.open = FALSE, !.up = FALSE, !.legal = @ /\ t.open /\ t.shown = {}]
      [] event = "enter" -> [t EXCEPT !.shown = @ \cup {s}, !.legal = @ /\ t.up /\ s \notin t.shown]
      [] event = "changed" -> [t EXCEPT !.legal = @ /\ s \in t.shown]
      [] event = "leave" -> [t EXCEPT !.shown = @ \ {s}, !.legal = @ /\ s \in t.shown]

Emit(h, event, s) == IF h.shutdown THEN {h} ELSE React([h EXCEPT !.told = Told(@, event, s)])

Ready(h) ==
    IF Active(h) /\ h.state = "connecting" /\ h.conn = "connected"
    THEN Emit([h EXCEPT !.state = "connected"], "connected", 0) ELSE {h}

\* guarded(): the answer of a request, for which there may be no connection any more.
Given(h, r, result) == IF h.gen # h.calls[r] \/ ~Active(h) THEN "disconnected" ELSE result
Answered(h, r, result) == [h EXCEPT !.calls[r] = 0, !.answers[r] = Append(@, Given(h, r, result))]
Reply(h, r, result) ==
    IF h.shutdown THEN {[h EXCEPT !.calls[r] = 0]}
    ELSE Each(Ready(h), LAMBDA x : React(Answered(x, r, result)))

\* Node answers what was sent to a peer that is closed or lost.
Outstanding(h) == SetToSeq({r \in Requests : h.calls[r] # 0})
RejectAllMutant(h) == {h}
RejectAll(h) == FoldLeft(LAMBDA H, r : Each(H, LAMBDA x : Reply(x, r, "disconnected")), {h}, Outstanding(h))
-----------------------------------------------------------------------------
(***************************************************************************)
(* The deferred actions                                                    *)
(***************************************************************************)
Leaving(h) == h.bindings
Close(h) == [h EXCEPT !.conn = "none", !.state = "disconnected", !.bindings = {}]
Cleanup(h) ==
    LET old == SetToSeq(Leaving(h))
        closed == [Close(h) EXCEPT !.pending = FALSE,
                            !.cut = h.state # "disconnected" /\ h.status = "ok"
                                    /\ h.wants = "connect" /\ ~h.next]
        left == FoldLeft(LAMBDA H, s : Each(H, LAMBDA x : Emit(x, "leave", s)), RejectAll(closed), old)
    IN IF h.state = "disconnected" THEN left
       ELSE Each(left, LAMBDA x : Emit(x, "disconnected", 0))

\* start(), which may throw: then the endpoint is forgotten.
Start(h) ==
    LET x == [h EXCEPT !.next = FALSE]
    IN {x} \cup Emit([x EXCEPT !.gen = @ + 1, !.state = "connecting", !.conn = "connecting"], "connecting", 0)

StartOrNot(h) ==
    IF h.shutdown THEN {[h EXCEPT !.next = FALSE]}
    ELSE IF h.next /\ h.state = "disconnected" THEN Start(h) ELSE {h}

ApplyActions(h) == Each(IF h.pending THEN Cleanup(h) ELSE {h}, StartOrNot)
-----------------------------------------------------------------------------
(***************************************************************************)
(* The application, outside of callbacks                                   *)
(***************************************************************************)
Connect == ~g.polling /\ MayConnect(g) /\ g' \in ApplyActions(AskConnect(g)) /\ UNCHANGED faults

Disconnect ==
    /\ ~g.polling /\ ~g.shutdown /\ g.state # "disconnected"
    /\ g' \in ApplyActions(AskDisconnect(g)) /\ UNCHANGED faults

Request(r) == ~g.polling /\ ~g.shutdown /\ Fresh(g, r) /\ g' = Ask(g, r) /\ UNCHANGED faults

\* ~Client()
Destroy ==
    /\ ~g.polling /\ ~g.shutdown
    /\ g' \in ApplyActions([AskDisconnect(g) EXCEPT !.shutdown = TRUE])
    /\ UNCHANGED faults
-----------------------------------------------------------------------------
(***************************************************************************)
(* poll(): Node's callbacks come between its first and its last part       *)
(***************************************************************************)
BeginPoll ==
    /\ ~g.polling /\ ~g.shutdown
    /\ \E h \in ApplyActions(g) : g' = [h EXCEPT !.polling = TRUE]
    /\ UNCHANGED faults

Handshake == g.polling /\ g.conn = "connecting" /\ g' = [g EXCEPT !.conn = "connected"] /\ UNCHANGED faults

Lost ==
    /\ g.polling /\ g.conn \in {"connecting", "connected"}
    /\ faults < MaxFaults /\ faults' = faults + 1
    /\ g' \in RejectAll([g EXCEPT !.conn = "lost"])

Answer(r) ==
    /\ g.polling /\ g.conn = "connected" /\ g.calls[r] # 0
    /\ g' \in Reply(g, r, "ok") /\ UNCHANGED faults

\* changed() and presence(): the host has a new projection, has updated one, or has lost it.
Changed(s, live) ==
    LET Bound(h) ==
            CASE ~Active(h) -> {h}
              [] Active(h) /\ ~live ->
                   IF s \in h.bindings THEN Emit([h EXCEPT !.bindings = @ \ {s}], "leave", s) ELSE {h}
              [] Active(h) /\ live ->
                   IF s \in h.bindings THEN Emit(h, "changed", s)
                   ELSE Emit([h EXCEPT !.bindings = @ \cup {s}], "enter", s)
    IN /\ g.polling /\ g.conn = "connected"
       /\ g' \in Each(Ready(g), Bound) /\ UNCHANGED faults

\* The answer of a watch(): the entity is shown before the application is answered.
Watched(s) ==
    LET Bound(h) ==
            IF Active(h) /\ s \notin h.bindings
            THEN Emit([h EXCEPT !.bindings = @ \cup {s}], "enter", s) ELSE {h}
    IN /\ g.polling /\ g.conn = "connected"
       /\ g' \in Each(Each(Ready(g), Bound), React) /\ UNCHANGED faults

\* The end of poll(); late is whether the deadline of the connection has passed.
Watchdog(h, late) ==
    CASE Active(h) /\ h.conn = "lost" -> RequestDisconnect(h, "disconnected")
      [] Active(h) /\ h.conn = "connecting" /\ late -> RequestDisconnect(h, "timeout")
      [] OTHER -> h
EndPoll(late) ==
    /\ g.polling
    /\ late => g.conn = "connecting"
    /\ g' \in Each(Ready(g), LAMBDA h : ApplyActions([Watchdog(h, late) EXCEPT !.polling = FALSE]))
    /\ UNCHANGED faults

Next ==
    \/ Connect \/ Disconnect \/ Destroy \/ BeginPoll \/ Handshake \/ Lost
    \/ \E r \in Requests : Request(r) \/ Answer(r)
    \/ \E s \in Subs : Watched(s) \/ \E live \in BOOLEAN : Changed(s, live)
    \/ \E late \in BOOLEAN : EndPoll(late)

Spec == Init /\ [][Next]_vars

\* Fairness: the application calls poll() again and again, and it returns; a deadline that
\* has not been met passes.
Fairness ==
    /\ WF_vars(BeginPoll) /\ WF_vars(EndPoll(FALSE))
    /\ SF_vars(EndPoll(TRUE))

FairSpec == Spec /\ Fairness
-----------------------------------------------------------------------------
TypeOK ==
    /\ g.state \in {"disconnected", "connecting", "connected"}
    /\ g.conn \in {"none", "connecting", "connected", "lost"}
    /\ (g.state = "disconnected") = (g.conn = "none")
    /\ g.gen \in 0..MaxGen /\ g.bindings \subseteq Subs
    /\ g.calls \in [Requests -> 0..MaxGen]
    /\ \A r \in Requests : g.answers[r] \in {<<>>, <<"ok">>, <<"disconnected">>}

\* The events form complete generations: nothing is shown before connected, everything that is
\* shown is hidden before disconnected, whatever the callbacks do in between (emit()).
EventsLegal == g.told.legal

\* What the application can look up is what it was shown (entity(), bindings).
ShownIsBound == ~g.shutdown => g.told.shown = g.bindings

\* A request that is open belongs to the connection that is there: the end of a connection
\* answers all of its requests before the next one starts (cleanup()).
CallsAreCurrent == \A r \in Requests : g.calls[r] # 0 => g.calls[r] = g.gen /\ g.conn # "none"

\* Once the application has asked for the end of a connection, it hears of no success and is
\* shown nothing on it any more (active()).
DisconnectIsFinal ==
    [][(g.pending /\ g'.gen = g.gen) =>
          /\ \A r \in Requests : g'.answers[r] = <<"ok">> => g.answers[r] = <<"ok">>
          /\ g'.told.shown \subseteq g.told.shown]_vars

\* A connection that is being made comes up or is given up, and a disconnect that a callback
\* asked for happens, while the client is not destroyed (poll()).
Resolved ==
    /\ []<>(g.state # "connecting")
    /\ []<>~g.pending

\* docs/CLIENT_SDK.md: a callback may disconnect and then connect. The connection that it asks
\* for last is not ended by the disconnect it asked for before. It is when the callback is one
\* of cleanup(): the flag that disconnect() sets there outlives the cleanup that is running.
ReconnectHolds == ~g.cut
=============================================================================
