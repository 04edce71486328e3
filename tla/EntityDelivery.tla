--------------------------- MODULE EntityDelivery ---------------------------
(***************************************************************************)
(* Durable commands between entities: the outbox and inbox that            *)
(* EntityScriptHost keeps in the entities' records, and the EntityDelivery *)
(* workers that carry commands and acknowledgements between them.          *)
(*                                                                         *)
(* A Job is one request in the pipeline of some host (see EntityHost).  Of *)
(* that pipeline this module keeps what delivery depends on: a Job reads   *)
(* the record when it acquires the lease, and its commit succeeds only     *)
(* while no other Job has acquired since (holder).  A lease that lapses    *)
(* under a Job, a process that dies, a call that is lost, refused or times *)
(* out, and a storage error are faults, at most MaxFaults of them.  All    *)
(* entities exist and have been active with delivery enabled, so their     *)
(* epochs are set, and an identity is never used again (EntityCatalog).    *)
(***************************************************************************)
EXTENDS Integers, Sequences, FiniteSets

CONSTANTS
    Entities,
    Routes,      \* pairs <<source, target>> of entities that an instance explores
    Mortal,      \* the entities that may be destroyed
    Workers,     \* the EntityDelivery of each process
    Jobs,        \* bound: the requests in all hosts at one time
    None,
    MaxSends,    \* bound: send_entity calls
    MaxCalls,    \* bound: business requests to entities
    MaxFaults

VARIABLES
    record,    \* the delivery state in each entity's record, and its tombstone
    registry,  \* the record of sources under delivery_registry_key
    holder,    \* the Job that acquired the entity last and has not ended
    job,
    attempt,   \* active: the attempt of each worker for each source
    sources,   \* the registry as each worker last loaded it
    budget,    \* sends, business calls and faults so far, for the bounds
    received   \* history: what each entity committed to its inbox

vars == <<record, registry, holder, job, attempt, sources, budget, received>>

Results == {"ok", "rejected", "not_found"}
NoMessage == [from |-> None, to |-> None, seq |-> 0, body |-> 0]
NewRecord ==
    [destroyed |-> FALSE, sent |-> [t \in Entities |-> 0],
     inbox |-> [s \in Entities |-> [seq |-> 0, body |-> 0, result |-> "ok"]],
     outbox |-> <<>>]
NoJob == [pc |-> "free", kind |-> "logic", e |-> None, message |-> NoMessage,
          result |-> "ok", state |-> NewRecord, to |-> None, caller |-> None]
NoAttempt == [pc |-> "idle", message |-> NoMessage, result |-> "ok"]

Init ==
    /\ record = [e \in Entities |-> NewRecord]
    /\ registry = {}
    /\ holder = [e \in Entities |-> None]
    /\ job = [j \in Jobs |-> NoJob]
    /\ attempt = [w \in Workers |-> [s \in Entities |-> NoAttempt]]
    /\ sources = [w \in Workers |-> {}]
    /\ budget = [sends |-> 0, calls |-> 0, faults |-> 0]
    /\ received = [e \in Entities |-> <<>>]

Fault ==
    /\ budget.faults < MaxFaults
    /\ budget' = [budget EXCEPT !.faults = @ + 1]

Pending(outbox) == {i \in DOMAIN outbox : ~outbox[i].done}
First(outbox) == CHOOSE i \in Pending(outbox) : \A k \in Pending(outbox) : i <= k
Ticket(m) == [from |-> m.from, to |-> m.to, seq |-> m.seq]
-----------------------------------------------------------------------------
(***************************************************************************)
(* Requests in the hosts.                                                  *)
(***************************************************************************)
Queue(j, kind, e, message, result, caller) ==
    /\ job[j].pc = "free"
    /\ job' = [job EXCEPT ![j] = [NoJob EXCEPT !.pc = "queued", !.kind = kind, !.e = e,
                  !.message = message, !.result = result, !.caller = caller]]

\* The answer of Job j reaches the attempt that waits for it, if one still does.
Answer(j, ok, result) ==
    attempt' = IF job[j].caller = None THEN attempt
               ELSE [attempt EXCEPT ![job[j].caller.worker][job[j].caller.source] =
                        IF ok /\ job[j].kind = "receive"
                        THEN [@ EXCEPT !.pc = "acknowledge", !.result = result]
                        ELSE NoAttempt]

Released(j) == [e \in Entities |-> IF holder[e] = j THEN None ELSE holder[e]]

\* complete(): the Job leaves the host and its caller is told.
Complete(j, ok, result) ==
    /\ job' = [job EXCEPT ![j] = NoJob]
    /\ holder' = Released(j)
    /\ Answer(j, ok, result)

\* A script's request to an entity, or its destruction.
Business(j, e, kind) ==
    /\ budget.calls < MaxCalls
    /\ kind = "destroy" => e \in Mortal
    /\ Queue(j, kind, e, NoMessage, "ok", None)
    /\ budget' = [budget EXCEPT !.calls = @ + 1]
    /\ UNCHANGED <<record, registry, holder, attempt, sources, received>>

\* The Job goes on with the state it read: to the logic, or straight to the commit.
Take(j, pc, state, result) ==
    /\ job' = [job EXCEPT ![j].pc = pc, ![j].state = state, ![j].result = result]
    /\ holder' = [holder EXCEPT ![job[j].e] = j]
    /\ UNCHANGED attempt

\* An envelope at or below the inbox cursor of its channel was received before.
Duplicate(cursor, m) == m.seq <= cursor.seq

\* What an earlier delivery is answered with: only the last result is kept.
Replayed(cursor, m) == IF m.seq = cursor.seq THEN cursor.result ELSE "ok"

\* A target that no longer exists is an answer, and not a failed delivery.
GoneIsAnswer == TRUE

AcquireReceive(j, r) ==
    LET m == job[j].message
        cursor == r.inbox[m.from]
    IN \/ /\ r.destroyed
          /\ Complete(j, GoneIsAnswer, "not_found")
       \/ /\ ~r.destroyed /\ Duplicate(cursor, m)
          /\ Complete(j, m.seq < cursor.seq \/ m.body = cursor.body, Replayed(cursor, m))
       \/ /\ ~r.destroyed /\ ~Duplicate(cursor, m)
          /\ IF m.seq = cursor.seq + 1 THEN Take(j, "validate", r, "ok")
             ELSE Complete(j, FALSE, "ok")

\* An acknowledgement that contradicts the stored result is refused.
ConflictMutant(entry, result) == FALSE
Conflict(entry, result) == entry.done /\ entry.result # result

Marked(outbox, ticket, result) ==
    [i \in DOMAIN outbox |-> IF Ticket(outbox[i]) = ticket
                             THEN [outbox[i] EXCEPT !.done = TRUE, !.result = result]
                             ELSE outbox[i]]

AcquireAck(j, r) ==
    LET ticket == Ticket(job[j].message)
        result == job[j].result
        refused == \/ r.destroyed
                   \/ \E i \in DOMAIN r.outbox : Ticket(r.outbox[i]) = ticket
                                                 /\ Conflict(r.outbox[i], result)
    IN IF refused THEN Complete(j, FALSE, "ok")
       ELSE Take(j, "commit", [r EXCEPT !.outbox = Marked(@, ticket, result)], result)

\* $destroy is refused while the outbox holds a command that is not done.
Destructible(state) == Pending(state.outbox) = {}

\* acquire(): the lease is taken and the record read.  The lease of another Job
\* on the entity must have lapsed.
Acquire(j) ==
    LET e == job[j].e
        r == record[e]
    IN /\ job[j].pc = "queued"
       /\ IF holder[e] = None THEN UNCHANGED budget ELSE Fault
       /\ \/ job[j].kind = "receive" /\ AcquireReceive(j, r)
          \/ job[j].kind = "ack" /\ AcquireAck(j, r)
          \/ /\ job[j].kind = "logic"
             /\ IF r.destroyed THEN Complete(j, FALSE, "ok") ELSE Take(j, "run", r, "ok")
          \/ /\ job[j].kind = "destroy"
             /\ IF r.destroyed \/ ~Destructible(r) THEN Complete(j, FALSE, "ok")
                ELSE Take(j, "run", r, "ok")
       /\ UNCHANGED <<record, registry, sources, received>>

\* The second get() of acquire(): a new envelope counts only if the source's record
\* still holds this very command as pending.
Intended(m) ==
    LET outbox == record[m.from].outbox
    IN \E i \in Pending(outbox) : Ticket(outbox[i]) = Ticket(m) /\ outbox[i].body = m.body

Validate(j) ==
    /\ job[j].pc = "validate"
    /\ IF Intended(job[j].message)
       THEN job' = [job EXCEPT ![j].pc = "run"] /\ UNCHANGED <<holder, attempt>>
       ELSE Complete(j, FALSE, "ok")
    /\ UNCHANGED <<record, registry, sources, budget, received>>

\* send_entity(), on the storage worker: the target's record is looked up and the
\* source registered, before the command exists anywhere.
Registered(s) == registry \cup {s}

SendRegister(j, t) ==
    LET s == job[j].e
    IN /\ job[j].pc = "run" /\ job[j].to = None
       /\ <<s, t>> \in Routes /\ budget.sends < MaxSends
       /\ ~record[t].destroyed
       /\ registry' = Registered(s)
       /\ job' = [job EXCEPT ![j].to = t]
       /\ budget' = [budget EXCEPT !.sends = @ + 1]
       /\ UNCHANGED <<record, holder, attempt, sources, received>>

\* send_entity(), back on the event loop: the command is staged in the Job.
SendStage(j) ==
    LET t == job[j].to
        state == job[j].state
        m == [from |-> job[j].e, to |-> t, seq |-> state.sent[t] + 1, body |-> budget.sends,
              done |-> FALSE, result |-> "ok"]
    IN /\ job[j].pc = "run" /\ t # None
       /\ job' = [job EXCEPT ![j].to = None, ![j].state =
             [state EXCEPT !.sent[t] = @ + 1, !.outbox = Append(@, m)]]
       /\ UNCHANGED <<record, registry, holder, attempt, sources, budget, received>>

\* forget_delivery(): the script drops a command that is done.
Forget(j, i) ==
    LET outbox == job[j].state.outbox
    IN /\ job[j].pc = "run"
       /\ i \in DOMAIN outbox /\ outbox[i].done
       /\ job' = [job EXCEPT ![j].state.outbox =
             SubSeq(outbox, 1, i - 1) \o SubSeq(outbox, i + 1, Len(outbox))]
       /\ UNCHANGED <<record, registry, holder, attempt, sources, budget, received>>

\* The inbox cursor of the command's channel moves in the commit of its effects.
CursorMutant(state, m, result) == IF result = "ok" THEN state
    ELSE [state EXCEPT !.inbox[m.from] = [seq |-> m.seq, body |-> m.body, result |-> result]]
Cursor(state, m, result) ==
    [state EXCEPT !.inbox[m.from] = [seq |-> m.seq, body |-> m.body, result |-> result]]

\* The logic has ended and the new record is built.  A receiver that rejects loses
\* its staged commands and keeps only the cursor; so does a method that does not
\* exist or may not be called, for which no logic runs.
LogicDone(j, result) ==
    LET state == job[j].state
        undone == record[job[j].e]
    IN /\ job[j].pc = "run"
       /\ \/ /\ job[j].kind = "receive"
             /\ job' = [job EXCEPT ![j].pc = "commit", ![j].result = result, ![j].state =
                   Cursor(IF result = "ok" THEN state ELSE undone, job[j].message, result)]
             /\ UNCHANGED <<holder, attempt>>
          \/ /\ job[j].kind = "logic" /\ result = "ok"
             /\ job' = [job EXCEPT ![j].pc = "commit"]
             /\ UNCHANGED <<holder, attempt>>
          \/ /\ job[j].kind = "destroy" /\ result = "ok"
             /\ IF Destructible(state)
                THEN /\ job' = [job EXCEPT ![j].pc = "commit",
                           ![j].state = [NewRecord EXCEPT !.destroyed = TRUE]]
                     /\ UNCHANGED <<holder, attempt>>
                ELSE Complete(j, FALSE, "ok")
       /\ UNCHANGED <<record, registry, sources, budget, received>>

Written(j) ==
    /\ record' = [record EXCEPT ![job[j].e] = job[j].state]
    /\ received' = IF job[j].kind = "receive"
                   THEN [received EXCEPT ![job[j].e] = Append(@, [from |-> job[j].message.from,
                             seq |-> job[j].message.seq, body |-> job[j].message.body,
                             result |-> job[j].result])]
                   ELSE received

\* The final CAS; it fails when another Job has acquired the entity since.
Commit(j) ==
    LET holds == holder[job[j].e] = j
    IN /\ job[j].pc = "commit"
       /\ IF holds THEN Written(j) ELSE UNCHANGED <<record, received>>
       /\ Complete(j, holds, job[j].result)
       /\ UNCHANGED <<registry, sources, budget>>

\* The final CAS throws although it took effect.
CommitError(j) ==
    /\ job[j].pc = "commit" /\ holder[job[j].e] = j
    /\ Fault
    /\ Written(j)
    /\ Complete(j, FALSE, "ok")
    /\ UNCHANGED <<registry, sources>>

\* The Job ends without effect: its process dies, it times out, is refused, its
\* logic fails or its storage call throws.
Fail(j) ==
    /\ job[j].pc # "free"
    /\ Fault
    /\ Complete(j, FALSE, "ok")
    /\ UNCHANGED <<record, registry, sources, received>>
-----------------------------------------------------------------------------
(***************************************************************************)
(* The workers.                                                            *)
(***************************************************************************)
Moved(w, s, a) == attempt' = [attempt EXCEPT ![w][s] = a]

\* load(): the worker reads the registry.
Load(w) ==
    /\ sources' = [sources EXCEPT ![w] = registry]
    /\ UNCHANGED <<record, registry, holder, job, attempt, budget, received>>

\* A registration is retired only for a tombstone without pending commands.
Retirable(r) == r.destroyed /\ Pending(r.outbox) = {}

\* scan(): the source's record is read and its first pending command taken.
Scan(w, s) ==
    LET r == record[s]
    IN /\ s \in sources[w] /\ attempt[w][s].pc = "idle"
       /\ \/ /\ Retirable(r)
             /\ Moved(w, s, [NoAttempt EXCEPT !.pc = "retire"])
          \/ /\ ~Retirable(r) /\ Pending(r.outbox) # {}
             /\ LET m == r.outbox[First(r.outbox)]
                IN Moved(w, s, [NoAttempt EXCEPT !.pc = "deliver", !.message =
                      [from |-> s, to |-> m.to, seq |-> m.seq, body |-> m.body]])
       /\ UNCHANGED <<record, registry, holder, job, sources, budget, received>>

\* scan(), second half: the CAS that removes the source from the registry.
Retire(w, s) ==
    /\ attempt[w][s].pc = "retire"
    /\ registry' = registry \ {s}
    /\ Moved(w, s, NoAttempt)
    /\ UNCHANGED <<record, holder, job, sources, budget, received>>

\* send(): the call reaches the mailbox of the entity's host.
Send(w, s, j) ==
    LET a == attempt[w][s]
        caller == [worker |-> w, source |-> s]
    IN /\ \/ /\ a.pc = "deliver"
             /\ Queue(j, "receive", a.message.to, a.message, "ok", caller)
             /\ Moved(w, s, [a EXCEPT !.pc = "delivering"])
          \/ /\ a.pc = "acknowledge"
             /\ Queue(j, "ack", s, a.message, a.result, caller)
             /\ Moved(w, s, [a EXCEPT !.pc = "acknowledging"])
       /\ UNCHANGED <<record, registry, holder, sources, budget, received>>

\* The attempt ends without an answer: no endpoint, a lost connection, a timeout.
\* A request that reached a host stays there.
Timeout(w, s) ==
    /\ attempt[w][s].pc # "idle"
    /\ Fault
    /\ Moved(w, s, NoAttempt)
    /\ job' = [j \in Jobs |-> IF job[j].caller = [worker |-> w, source |-> s]
                              THEN [job[j] EXCEPT !.caller = None] ELSE job[j]]
    /\ UNCHANGED <<record, registry, holder, sources, received>>

\* The worker's process stops or dies, and starts again with nothing.
Restart(w) ==
    /\ Fault
    /\ attempt' = [attempt EXCEPT ![w] = [s \in Entities |-> NoAttempt]]
    /\ sources' = [sources EXCEPT ![w] = {}]
    /\ job' = [j \in Jobs |-> IF job[j].caller # None /\ job[j].caller.worker = w
                              THEN [job[j] EXCEPT !.caller = None] ELSE job[j]]
    /\ UNCHANGED <<record, registry, holder, received>>
-----------------------------------------------------------------------------
HostStep(j) ==
    \/ Acquire(j)
    \/ Validate(j)
    \/ SendStage(j)
    \/ \E result \in Results : LogicDone(j, result)
    \/ Commit(j)

WorkerStep(w, s) ==
    \/ Scan(w, s)
    \/ Retire(w, s)
    \/ \E j \in Jobs : Send(w, s, j)

Next ==
    \/ \E j \in Jobs : \/ HostStep(j)
                       \/ \E e \in Entities : Business(j, e, "logic")
                       \/ \E e \in Entities : Business(j, e, "destroy")
                       \/ \E t \in Entities : SendRegister(j, t)
                       \/ \E i \in 1..MaxSends : Forget(j, i)
                       \/ CommitError(j)
                       \/ Fail(j)
    \/ \E w \in Workers : \/ Load(w)
                          \/ Restart(w)
                          \/ \E s \in Entities : WorkerStep(w, s) \/ Timeout(w, s)

Spec == Init /\ [][Next]_vars

\* poll() runs on every process: requests move on, workers load the registry and
\* scan, one attempt for each source.
Fairness ==
    /\ \A j \in Jobs : WF_vars(HostStep(j))
    /\ \A w \in Workers : /\ WF_vars(Load(w))
                          /\ \A s \in Entities : SF_vars(WorkerStep(w, s))

FairSpec == Spec /\ Fairness
-----------------------------------------------------------------------------
TypeOK ==
    /\ \A e \in Entities :
          /\ record[e].destroyed \in BOOLEAN
          /\ \A t \in Entities : record[e].sent[t] \in 0..MaxSends
          /\ \A s \in Entities : record[e].inbox[s].result \in Results
    /\ registry \subseteq Entities
    /\ \A e \in Entities : holder[e] # None => job[holder[e]].e = e
    /\ \A j \in Jobs : job[j].pc \in {"free", "queued", "validate", "run", "commit"}
    /\ \A w \in Workers, s \in Entities :
          attempt[w][s].pc \in {"idle", "retire", "deliver", "delivering", "acknowledge",
                               "acknowledging"}

\* What entity t committed to its inbox from s, in order.
Channel(s, t) == SelectSeq(received[t], LAMBDA m : m.from = s)

\* Exactly once and in order: whatever is retried, duplicated, delayed or lost, the
\* target commits each command of a channel once, in the order of its sequence, and
\* only commands that the source committed (inbox cursor, expected sequence and
\* the check of the source's record in acquire()).
ExactlyOnceInOrder ==
    \A s, t \in Entities :
        LET c == Channel(s, t)
        IN \A i \in DOMAIN c :
              /\ c[i].seq = i
              /\ \/ record[s].destroyed
                 \/ /\ i <= record[s].sent[t]
                    /\ \A k \in DOMAIN record[s].outbox :
                          LET m == record[s].outbox[k]
                          IN m.to = t /\ m.seq = i => m.body = c[i].body

\* The result a source stores is what the target did: success only for a command
\* that the target committed, rejection only for one whose effects were rolled back.
\* (A target that was destroyed answers not_found, whatever it did before.)
TruthfulResult ==
    \A s \in Entities : \A k \in DOMAIN record[s].outbox :
        LET m == record[s].outbox[k]
            c == Channel(s, m.to)
        IN m.done => \/ m.seq <= Len(c) /\ c[m.seq].result = m.result
                     \/ m.result = "not_found" /\ record[m.to].destroyed

\* A restarted worker finds every accepted command: a source with a pending command
\* is in the registry (send_entity registers before the source's commit, and scan()
\* retires only tombstones).
Discoverable == \A s \in Entities : Pending(record[s].outbox) # {} => s \in registry

\* An accepted command leaves the outbox only when it is done, and a stored result
\* is never replaced by another (acknowledgements, forget_delivery, $destroy).
KeptUntilDone ==
    [][\A s \in Entities : \A k \in DOMAIN record[s].outbox :
          LET m == record[s].outbox[k]
              later == {n \in DOMAIN record'[s].outbox : Ticket(record'[s].outbox[n]) = Ticket(m)}
          IN /\ ~m.done => later # {}
             /\ m.done => \A n \in later : record'[s].outbox[n] = m]_vars

\* Every accepted command is answered: once the faults end, the workers deliver it
\* and bring its result back.
Waiting(s, t, n) ==
    \E k \in Pending(record[s].outbox) :
        record[s].outbox[k].to = t /\ record[s].outbox[k].seq = n
Delivered == \A s, t \in Entities : \A n \in 1..MaxSends : []<>~Waiting(s, t, n)
=============================================================================
