--------------------------- MODULE EntityTransfer ---------------------------
(***************************************************************************)
(* Handing one entity to a chosen node: the EntityTransfer coordinator of  *)
(* each node probes the target, has its host release the entity durably,   *)
(* and asks the target to accept it under the ticket of that release.      *)
(* Creation on a chosen node uses the same calls.                          *)
(*                                                                         *)
(* A host executes one request as one step here (EntityHost has the steps  *)
(* of its pipeline): it checks placement and lease in the record and       *)
(* commits, or fails, or commits and reports a failure.                    *)
(***************************************************************************)
EXTENDS Integers, FiniteSets

CONSTANTS
    Nodes,
    None,
    MaxStarts,   \* bound: operations begun, retries of an unknown outcome apart
    MaxFaults    \* bound: lost calls, timeouts, storage errors, crashes, lapsed leases

VARIABLES
    record,    \* the entity's record
    slot,      \* the nodes whose host has the entity activated
    draining,  \* the nodes that accept no handoff
    op,        \* operations: each node's coordinator has at most one per key
    calls,     \* calls under way to a node
    starts, faults,
    homes,     \* history: the tickets under which a target activated and committed
    answers    \* history: the handoffs whose callers were told ok

vars == <<record, slot, draining, op, calls, starts, faults, homes, answers>>

OpKeys == {"move", "create"}
NoOp == [pc |-> "idle", target |-> None, ticket |-> 0]

Init ==
    /\ \E n \in Nodes \cup {None} :
          record = [version |-> 1, owner |-> None, placement |-> n, transfer |-> 0,
                    initialized |-> FALSE]
    /\ slot = {} /\ draining = {}
    /\ op = [n \in Nodes |-> [k \in OpKeys |-> NoOp]]
    /\ calls = {}
    /\ starts = 0 /\ faults = 0
    /\ homes = {} /\ answers = {}

Fault == faults < MaxFaults /\ faults' = faults + 1
-----------------------------------------------------------------------------
(***************************************************************************)
(* The hosts.                                                              *)
(***************************************************************************)
\* acquire(): the entity is placed here and nobody else holds its lease.
Eligible(n) == record.placement \in {None, n} /\ record.owner \in {None, n}

\* A lease, unless this node has it, and a commit on top of it.
Version(n) == IF record.owner = n THEN record.version ELSE record.version + 1
Leased(n) == [record EXCEPT !.version = Version(n), !.owner = n]
Taken(n) == [Leased(n) EXCEPT !.version = @ + 1, !.initialized = TRUE]

\* History: the target of the last handoff has the entity up and committed.
Home(n) ==
    homes' = IF record.transfer # 0 /\ record.placement = n
             THEN homes \cup {[ticket |-> record.transfer, at |-> n]} ELSE homes

Executed(n) == record' = Taken(n) /\ slot' = slot \cup {n} /\ Home(n)

\* A request fails: before it has a lease, in the logic, or in a commit that may
\* have been applied, after which the activation is not trusted.
HostFails(n, committed) ==
    \/ UNCHANGED <<record, slot>>
    \/ Eligible(n) /\ record' = Leased(n) /\ slot' \in {slot, slot \ {n}}
    \/ Eligible(n) /\ record' = committed /\ slot' = slot \ {n}

\* A request of a client or a script activates the entity.
Activate(n) ==
    /\ n \notin slot /\ Eligible(n)
    /\ Executed(n)
    /\ UNCHANGED <<draining, op, calls, starts, faults, answers>>

\* drain(): no more handoffs are accepted, and the entity is deactivated.
Drain(n) ==
    /\ draining' = draining \cup {n}
    /\ Fault
    /\ slot' = slot \ {n}
    /\ record' = IF n \in slot /\ Eligible(n)
                 THEN [Leased(n) EXCEPT !.version = @ + 1, !.owner = None] ELSE record
    /\ UNCHANGED <<op, calls, starts, homes, answers>>

\* The lease of a node runs out; the node does not notice.
Lapse ==
    /\ record.owner # None
    /\ record' = [record EXCEPT !.owner = None]
    /\ Fault
    /\ UNCHANGED <<slot, draining, op, calls, starts, homes, answers>>
-----------------------------------------------------------------------------
(***************************************************************************)
(* The coordinators.                                                       *)
(***************************************************************************)
Goto(n, k, o) == op' = [op EXCEPT ![n][k] = o]

\* finish(): the caller is told and the key is free again.
Finish(n, k, status) ==
    /\ Goto(n, k, NoOp)
    /\ answers' = IF k = "move" /\ status = "ok"
                  THEN answers \cup {[ticket |-> op[n][k].ticket, at |-> op[n][k].target]}
                  ELSE answers

\* start(): one operation for an entity at a time, never to this node itself.
Begin(n, t) ==
    /\ t # n /\ op[n]["move"] = NoOp
    /\ Goto(n, "move", [NoOp EXCEPT !.pc = "probe", !.target = t])
    /\ UNCHANGED <<record, slot, draining, calls, faults, homes, answers>>

Start(n, t) == starts < MaxStarts /\ starts' = starts + 1 /\ Begin(n, t)

\* The rule of entity_transfer.hpp: a handoff whose outcome is not known is tried
\* again, with the same destination. Retries are not bounded.
Unknown ==
    record.transfer # 0 /\ [ticket |-> record.transfer, at |-> record.placement] \notin homes

Retry(n) == Unknown /\ Begin(n, record.placement) /\ UNCHANGED starts

\* create(): the target is asked for a snapshot, which creates the entity there.
Create(n, t) ==
    /\ op[n]["create"] = NoOp /\ starts < MaxStarts
    /\ starts' = starts + 1
    /\ Goto(n, "create", [NoOp EXCEPT !.pc = "wait", !.target = t])
    /\ calls' = calls \cup {[from |-> n, key |-> "create", to |-> t, ticket |-> 0]}
    /\ UNCHANGED <<record, slot, draining, faults, homes, answers>>

\* The probe: the target says whether it would accept.
Probe(n) ==
    /\ op[n]["move"].pc = "probe"
    /\ IF op[n]["move"].target \in draining THEN Finish(n, "move", "overloaded")
       ELSE Goto(n, "move", [op[n]["move"] EXCEPT !.pc = "release"]) /\ UNCHANGED answers
    /\ UNCHANGED <<record, slot, draining, calls, starts, faults, homes>>

Confirm(n, o, ticket) ==
    /\ Goto(n, "move", [o EXCEPT !.pc = "wait", !.ticket = ticket])
    /\ calls' = calls \cup {[from |-> n, key |-> "move", to |-> o.target, ticket |-> ticket]}
    /\ UNCHANGED answers

\* The handoff commit: state, target and ticket in one CAS, and the lease given up.
Released(n, t) == [Leased(n) EXCEPT !.version = @ + 1, !.owner = None, !.placement = t,
                                    !.transfer = Version(n)]

\* release() with the entity active here: handoff() of the host.
Handoff(n) ==
    LET o == op[n]["move"]
    IN /\ o.pc = "release" /\ n \in slot
       /\ slot' = slot \ {n}
       /\ IF Eligible(n)
          THEN record' = Released(n, o.target) /\ Confirm(n, o, Version(n))
          ELSE Finish(n, "move", "rejected") /\ UNCHANGED <<record, calls>>
       /\ UNCHANGED <<draining, starts, faults, homes>>

\* The handoff fails: the mailbox is not empty, or the request fails.
HandoffError(n) ==
    LET o == op[n]["move"]
    IN /\ o.pc = "release" /\ n \in slot /\ Fault
       /\ HostFails(n, Released(n, o.target))
       /\ Finish(n, "move", "internal")
       /\ UNCHANGED <<draining, calls, starts, homes>>

\* release() without the entity: it may have been released to that target before.
ResumableMutant(t) == FALSE
Resumable(t) == record.placement = t /\ record.transfer # 0

Resume(n) ==
    LET o == op[n]["move"]
    IN /\ o.pc = "release" /\ n \notin slot
       /\ IF Resumable(o.target) THEN Confirm(n, o, record.transfer)
          ELSE Finish(n, "move", "rejected") /\ UNCHANGED calls
       /\ UNCHANGED <<record, slot, draining, starts, faults, homes>>

\* The answer to a call reaches the operation that made it, if it still waits.
Reply(c, status) ==
    LET o == op[c.from][c.key]
    IN /\ calls' = calls \ {c}
       /\ IF o.pc = "wait" /\ o.target = c.to /\ o.ticket = c.ticket
          THEN Finish(c.from, c.key, status) ELSE UNCHANGED <<op, answers>>

\* accept_handoff(): the record must name this node and this very handoff.
AcceptableMutant(c) == Eligible(c.to)
Acceptable(c) ==
    Eligible(c.to) /\ (c.key = "move" => record.placement = c.to /\ record.transfer = c.ticket)

\* The target executes accept_handoff() or, for a creation, read_attributes(). A node
\* that finds the entity elsewhere forgets it; a stale ticket changes nothing.
Accept(c) ==
    /\ IF Acceptable(c) THEN Executed(c.to) /\ Reply(c, "ok")
       ELSE /\ Reply(c, "rejected")
            /\ slot' = IF Eligible(c.to) THEN slot ELSE slot \ {c.to}
            /\ UNCHANGED <<record, homes>>
    /\ UNCHANGED <<draining, starts, faults>>

\* The call is lost, or the request fails at the target.
AcceptError(c) ==
    /\ Fault
    /\ IF Acceptable(c) THEN HostFails(c.to, Taken(c.to)) ELSE UNCHANGED <<record, slot>>
    /\ UNCHANGED homes
    /\ Reply(c, "internal")
    /\ UNCHANGED <<draining, starts>>

\* The coordinator gives up waiting; the call may still be executed.
Timeout(n, k) ==
    /\ op[n][k].pc \in {"probe", "wait"}
    /\ Fault
    /\ Finish(n, k, "timeout")
    /\ UNCHANGED <<record, slot, draining, calls, starts, homes>>

\* stop(), or the death of the process: operations end, activated entities are gone.
Stop(n) ==
    /\ Fault
    /\ slot' = slot \ {n}
    /\ op' = [op EXCEPT ![n] = [k \in OpKeys |-> NoOp]]
    /\ draining' = draining \ {n}
    /\ record' = [record EXCEPT !.owner = IF @ = n THEN None ELSE @]  \* after the lease
    /\ UNCHANGED <<calls, starts, homes, answers>>

CoordinatorStep(n) == Probe(n) \/ Handoff(n) \/ Resume(n)

Next ==
    \/ \E n \in Nodes :
          \/ Activate(n) \/ Retry(n) \/ Drain(n) \/ CoordinatorStep(n) \/ HandoffError(n) \/ Stop(n)
          \/ \E t \in Nodes : Start(n, t) \/ Create(n, t)
          \/ \E k \in OpKeys : Timeout(n, k)
    \/ \E c \in calls : Accept(c) \/ AcceptError(c)
    \/ Lapse

Spec == Init /\ [][Next]_vars

\* Coordinators poll, the outcome of an unknown handoff is asked again, calls arrive.
Fairness ==
    /\ \A n \in Nodes : WF_vars(CoordinatorStep(n)) /\ WF_vars(Retry(n))
    /\ WF_vars(\E c \in calls : Accept(c))

FairSpec == Spec /\ Fairness
-----------------------------------------------------------------------------
TypeOK ==
    /\ record.owner \in Nodes \cup {None} /\ record.placement \in Nodes \cup {None}
    /\ record.transfer < record.version
    /\ slot \subseteq Nodes /\ draining \subseteq Nodes
    /\ \A n \in Nodes, k \in OpKeys : op[n][k].pc \in {"idle", "probe", "release", "wait"}

\* "ok" means that the target activated the entity and committed it under the very
\* handoff that this operation released or resumed, whatever was lost, repeated,
\* delayed, or handed on in between.
OkMeansActivated ==
    answers \subseteq homes

\* A destination that was committed is changed only by a release on the node it names:
\* no retry, restart or late call from an earlier owner rewrites it.
OnlyHomeReleases ==
    [][record.placement # None /\ record'.placement # record.placement
          => record.placement \in slot /\ op[record.placement]["move"].pc = "release"]_vars

\* A released entity is not stranded: retrying the same destination brings it up there
\* after a lost acknowledgement, a crash of the source or a restart of a coordinator,
\* unless nodes are draining.
Waiting == Unknown /\ draining = {}
Arrives == []<>~Waiting
=============================================================================
