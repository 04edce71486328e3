----------------------------- MODULE EntityHost -----------------------------
(***************************************************************************)
(* The mailbox, lease and commit machinery of EntityScriptHost, for one    *)
(* entity that several host processes share through one storage record.    *)
(*                                                                         *)
(* A host is one process incarnation: its owner id is "node/incarnation"   *)
(* and is never used again after the process ends, so a restarted node is  *)
(* another member of Hosts with the same NodeOf.  Every request is one     *)
(* member of Attempts and is presented at most once; a retry of a request  *)
(* is another attempt with the same ReqId.                                 *)
(*                                                                         *)
(* The worker thread of a host touches the shared record one storage       *)
(* operation at a time (get, compare_exchange), and other hosts run        *)
(* between any two of them; job[h].pc names the next step.  Wall clocks    *)
(* of the hosts advance independently.  Request deadlines are measured on  *)
(* the steady clock and may pass at any moment.                            *)
(***************************************************************************)
EXTENDS Integers, Sequences, FiniteSets, Functions

CONSTANTS
    Hosts,           \* process incarnations (owner ids)
    Nodes,           \* stable node names
    NodeOf,          \* the node an owner id belongs to
    Attempts,        \* request attempts that clients and the framework make
    Kind,            \* what an attempt asks for
    ReqId,           \* its request id, or None
    Body,            \* its route and payload, as one value
    Target,          \* the node a handoff names
    None,            \* "no owner", "no node", "no id", "no attempt"
    Lease,           \* limits.lease
    RequestTimeout,  \* limits.request_timeout, in whole ticks of the clock, rounded down
    ReceiptLimit,    \* limits.receipts
    Fitting,         \* the sets of requests whose receipts fit limits.receipt_bytes together
    RequestLimit,    \* limits.requests
    HasHook,         \* the type registers $deactivate and $destroy methods
    Events,          \* the environment events an instance explores
    MaxTime          \* bound of the wall clocks

Control == {"deactivate", "handoff", "destroy"}
Kinds == {"write", "read", "snapshot", "accept", "bind"} \cup Control
\* Status, as far as a caller can act on it.  "failed" stands for rejected,
\* timeout, overloaded and not_found; "unknown" for internal and disconnected,
\* which say nothing of whether the request took effect.
Statuses == {"ok", "failed", "unknown"}

ASSUME HostAssumption ==
    /\ None \notin Hosts /\ None \notin Nodes /\ None \notin Attempts
    /\ NodeOf \in [Hosts -> Nodes]
    /\ Kind \in [Attempts -> Kinds]
    /\ Target \in [Attempts -> Nodes]
    /\ DOMAIN ReqId = Attempts /\ DOMAIN Body = Attempts
    /\ \A a \in Attempts : ReqId[a] # None => Kind[a] \in {"write", "read"}
ASSUME LimitAssumption ==
    /\ Lease \in Nat /\ RequestTimeout \in Nat /\ Lease > RequestTimeout
    /\ ReceiptLimit \in Nat \ {0} /\ RequestLimit \in Nat \ {0} /\ MaxTime \in Nat
    /\ HasHook \in BOOLEAN
ASSUME FittingAssumption ==
    /\ Fitting \subseteq SUBSET Attempts /\ {} \in Fitting
    /\ \A S \in Fitting : \A T \in SUBSET S : T \in Fitting

VARIABLES
    store,    \* the entity's storage record: version and value
    clock,    \* the wall clock each host reads
    up,       \* the process runs
    draining, \* drain() was called
    slot,     \* the resident instance at a host (slots[entity])
    job,      \* the active Job, or the Release, at a host
    ticket,   \* the transfer id an accept_handoff attempt carries
    reply,    \* what each attempt was answered
    hist      \* history: what was committed, never read by the code

vars == <<store, clock, up, draining, slot, job, ticket, reply, hist>>
-----------------------------------------------------------------------------
\* The FER5 record.  log is the durable state: the committed attempts in order,
\* and revision its attribute revision, how many of them changed an attribute.
EmptyValue ==
    [owner |-> None, expires |-> 0, fence |-> 0, log |-> <<>>, revision |-> 0,
     receipts |-> <<>>, initialized |-> FALSE, placement |-> None, transfer |-> 0,
     destroyed |-> FALSE]

\* A Slot that does not exist.  cache is the image of the transient attributes.
NoSlot ==
    [present |-> FALSE, queue |-> <<>>, releasing |-> FALSE, activated |-> FALSE,
     activationFence |-> 0, residentFence |-> 0, cache |-> None, cacheRevision |-> 0]

\* No active Job.  version is what the next CAS expects, fence 0 means no lease.
NoJob ==
    [pc |-> "none", a |-> None, tries |-> 0, version |-> 0, base |-> EmptyValue,
     image |-> EmptyValue, fence |-> 0, expires |-> 0, status |-> "ok",
     metaOnly |-> FALSE, replay |-> FALSE, preserve |-> FALSE, ownerLost |-> FALSE,
     wrongNode |-> FALSE, activating |-> FALSE, ran |-> FALSE, cache |-> None,
     uncertain |-> FALSE]

Init ==
    /\ store = [version |-> 1, val |-> EmptyValue]
    /\ clock = [h \in Hosts |-> 0]
    /\ up = [h \in Hosts |-> TRUE]
    /\ draining = [h \in Hosts |-> FALSE]
    /\ slot = [h \in Hosts |-> NoSlot]
    /\ job = [h \in Hosts |-> NoJob]
    /\ ticket = [a \in Attempts |-> 0]
    /\ reply = [a \in Attempts |-> "none"]
    /\ hist = [applied |-> {}, tickets |-> {}, creates |-> 0, live |-> None, image |-> None]

IsControl(a) == Kind[a] \in Control
Busy(h) == job[h].pc # "none"
Unloading(h) == job[h].pc \in {"unload", "unloadcas", "unloaded"}
\* counters.pending: the queued requests and the active Job (a Release is not one).
Pending(h) == Len(slot[h].queue) + IF Busy(h) /\ ~Unloading(h) THEN 1 ELSE 0
IsWrite(a) == Kind[a] = "write"
-----------------------------------------------------------------------------
(***************************************************************************)
(* Admission: enqueue() and the operations that call it.                   *)
(***************************************************************************)
Offered(h, a) == up[h] /\ reply[a] = "none"

\* enqueue() refuses the request.
Refused(h, a) ==
    (draining[h] /\ ~IsControl(a)) \/ Pending(h) >= RequestLimit \/ slot[h].releasing

Answer(a, status) == reply' = [reply EXCEPT ![a] = status]

Refuse(h, a) ==
    /\ Answer(a, "failed")
    /\ UNCHANGED <<store, clock, up, draining, slot, job, ticket, hist>>

\* enqueue(): the request joins the mailbox of a slot, created if there is none.
Enqueue(h, a) ==
    /\ ~Refused(h, a)
    /\ slot' = [slot EXCEPT ![h].present = TRUE, ![h].queue = Append(@, a),
                            ![h].releasing = IsControl(a)]
    /\ Answer(a, "pending")

\* call_entity, read/write_attributes, bind_owner, and accept_handoff with one
\* of the transfer ids a handoff has returned.
Call(h, a) ==
    /\ Offered(h, a) /\ ~IsControl(a)
    /\ \/ /\ Enqueue(h, a)
          /\ IF Kind[a] = "accept"
             THEN \E t \in hist.tickets : ticket' = [ticket EXCEPT ![a] = t]
             ELSE UNCHANGED ticket
          /\ UNCHANGED <<store, clock, up, draining, job, hist>>
       \/ Refused(h, a) /\ Refuse(h, a)

\* A control operation needs a resident, idle instance.
IdleMutant(h) == slot[h].present /\ ~Busy(h)
Idle(h) == slot[h].present /\ ~Busy(h) /\ slot[h].queue = <<>>

\* Without a $deactivate method, deactivate() submits a Release to the worker.
Unload(h, a) ==
    /\ slot' = [slot EXCEPT ![h].releasing = TRUE]
    /\ job' = [job EXCEPT ![h] = [NoJob EXCEPT !.pc = "unload", !.a = a, !.status = "failed"]]
    /\ Answer(a, "pending")

Deactivate(h, a) == Idle(h) /\ IF HasHook THEN Enqueue(h, a) /\ UNCHANGED job ELSE Unload(h, a)

\* deactivate(), handoff(), control_entity(), and the idle timeout of poll().
ControlEntity(h, a) ==
    /\ Offered(h, a) /\ IsControl(a)
    /\ \/ /\ \/ Kind[a] = "deactivate" /\ Deactivate(h, a)
             \/ /\ Kind[a] # "deactivate" /\ Idle(h) /\ HasHook
                /\ Kind[a] = "handoff" => Target[a] # NodeOf[h]
                /\ Enqueue(h, a)
                /\ UNCHANGED job
          /\ UNCHANGED <<store, clock, up, draining, ticket, hist>>
       \/ /\ \/ ~Idle(h) \/ Refused(h, a)
             \/ ~HasHook /\ Kind[a] # "deactivate"
             \/ Kind[a] = "handoff" /\ Target[a] = NodeOf[h]
          /\ Refuse(h, a)

\* The idle timeout of a type without the method forgets the instance only.
DropIdle(h) ==
    /\ up[h] /\ ~HasHook /\ Idle(h)
    /\ slot' = [slot EXCEPT ![h] = NoSlot]
    /\ UNCHANGED <<store, clock, up, draining, job, ticket, reply, hist>>

\* drain(): refuse new requests, and deactivate the instance if it is idle.
Drain(h) ==
    /\ "drain" \in Events /\ up[h]
    /\ draining' = [draining EXCEPT ![h] = TRUE]
    /\ \/ ~Idle(h) /\ UNCHANGED <<slot, job, reply>>
       \/ \E a \in Attempts : Kind[a] = "deactivate" /\ Offered(h, a) /\ Deactivate(h, a)
    /\ UNCHANGED <<store, clock, up, ticket, hist>>
-----------------------------------------------------------------------------
(***************************************************************************)
(* complete(): the slot after the active Job is answered.                  *)
(***************************************************************************)
\* The Job took the record over from itself (previously_owned).
Owned(h) == job[h].base.owner = h

\* Lines 219-239 and 246-258: the cache, the residency and the activation.
SlotAfter(h, status) ==
    LET j == job[h]
        s == slot[h]
        ok == status = "ok"
        executed == ok /\ ~j.metaOnly
        kept == executed /\ j.ran
        carried == ok /\ j.metaOnly /\ Owned(h) /\ s.activated
                   /\ s.activationFence = j.base.fence
        dropped == (j.fence = 0 /\ ~j.preserve) \/ j.ownerLost
    IN [s EXCEPT
          !.releasing = FALSE,
          !.activated = ~j.uncertain /\ (executed \/ (@ /\ ~dropped)),
          !.activationFence = IF executed \/ carried THEN j.fence ELSE @,
          !.residentFence = IF j.ownerLost \/ j.uncertain THEN 0 ELSE IF ok THEN j.fence ELSE @,
          !.cache = IF j.uncertain THEN None ELSE IF kept THEN j.cache ELSE @,
          !.cacheRevision = IF j.uncertain THEN 0 ELSE IF kept THEN j.image.revision ELSE @]

SlotErasedMutant(h, status) == (status = "ok" /\ IsControl(job[h].a)) \/ job[h].wrongNode

\* A finished control operation, and an entity found elsewhere, end the slot.
SlotErased(h, status) ==
    \/ status = "ok" /\ IsControl(job[h].a)
    \/ job[h].wrongNode /\ slot[h].queue = <<>>

Complete(h, status) ==
    /\ slot' = [slot EXCEPT ![h] = IF SlotErased(h, status) THEN NoSlot ELSE SlotAfter(h, status)]
    /\ job' = [job EXCEPT ![h] = NoJob]
    /\ Answer(job[h].a, status)
-----------------------------------------------------------------------------
(***************************************************************************)
(* acquire(): the worker reads the record, validates the request against   *)
(* it, and reuses or takes the lease.                                      *)
(***************************************************************************)
\* poll(): the front of an idle mailbox becomes the active Job.  (A full
\* executor leaves it in the queue: nothing changes.)
Acquire(h) ==
    /\ up[h] /\ ~Busy(h) /\ slot[h].queue # <<>>
    /\ LET a == Head(slot[h].queue)
       IN job' = [job EXCEPT ![h] = [NoJob EXCEPT !.pc = "read", !.a = a,
                                                  !.preserve = (Kind[a] = "bind")]]
    /\ slot' = [slot EXCEPT ![h].queue = Tail(@)]
    /\ UNCHANGED <<store, clock, up, draining, ticket, reply, hist>>

Misplaced(h, v) == v.placement # None /\ v.placement # NodeOf[h]
StaleTicket(a, v) == Kind[a] = "accept" /\ (v.transfer # ticket[a] \/ v.placement = None)
HeldElsewhereMutant(h, v) == v.owner # h /\ v.expires > clock[h] + 1
HeldElsewhere(h, v) == v.owner # h /\ v.expires > clock[h]
SameRequest(a, v) ==
    {i \in DOMAIN v.receipts : ReqId[a] # None /\ ReqId[v.receipts[i]] = ReqId[a]}
Elsewhere(h, a, v) == Misplaced(h, v) \/ (~StaleTicket(a, v) /\ HeldElsewhere(h, v))

Conflicting(a, v) == \E i \in SameRequest(a, v) : Body[v.receipts[i]] # Body[a]
Admissible(h, a, v) ==
    /\ ~v.destroyed
    /\ Kind[a] = "bind" => v.initialized
    /\ ~Misplaced(h, v) /\ ~StaleTicket(a, v) /\ ~HeldElsewhere(h, v)
    /\ ~Conflicting(a, v)

\* A lease of our own that outlives the request is used as it is.
Reusable(h, v) == v.owner = h /\ v.expires - clock[h] > RequestTimeout
LeaseValueMutant(h, v) == [v EXCEPT !.owner = h, !.expires = clock[h] + Lease]
LeaseValue(h, v) ==
    [v EXCEPT !.owner = h, !.expires = clock[h] + Lease, !.fence = @ + 1]

\* db.get() and the checks on what it returned.  replay is never reset when a
\* later attempt of the loop reads the record again; metaOnly is.
AcquireRead(h) ==
    /\ job[h].pc = "read"
    /\ LET a == job[h].a
           v == store.val
           ok == Admissible(h, a, v)
           reached == ~v.destroyed /\ (Kind[a] = "bind" => v.initialized)
           reuse == ok /\ Reusable(h, v)
           same == ok /\ SameRequest(a, v) # {}
       IN job' = [job EXCEPT ![h] = [@ EXCEPT
              !.pc = IF ok /\ ~reuse THEN "lease" ELSE "acquired",
              !.version = store.version, !.base = v, !.status = IF ok THEN "ok" ELSE "failed",
              !.image = IF ok /\ ~reuse THEN LeaseValue(h, v) ELSE v,
              !.fence = IF reuse THEN v.fence ELSE 0,
              !.expires = IF reuse THEN v.expires ELSE 0,
              !.metaOnly = same \/ Kind[a] = "bind",
              !.replay = job[h].replay \/ same,
              !.ownerLost = reached /\ Elsewhere(h, a, v),
              !.wrongNode = reached /\ Elsewhere(h, a, v),
              !.preserve = job[h].preserve \/ (reached /\ ~Misplaced(h, v) /\ StaleTicket(a, v))]]
    /\ UNCHANGED <<store, clock, up, draining, slot, ticket, reply, hist>>

\* compare_exchange: it succeeds on the version that was read, and every
\* success gives the record a fresh version.
CasSucceeds(h) == store.version = job[h].version
Write(v) == store' = [version |-> store.version + 1, val |-> v]

LeaseCas(h) ==
    /\ job[h].pc = "lease"
    /\ IF CasSucceeds(h)
       THEN Write(job[h].image) /\ job' = [job EXCEPT ![h].pc = "confirm"]
       ELSE /\ job' = [job EXCEPT ![h] =
                  IF @.tries = 3 THEN [@ EXCEPT !.pc = "acquired", !.status = "failed"]
                  ELSE [@ EXCEPT !.pc = "read", !.tries = job[h].tries + 1]]
            /\ UNCHANGED store
    /\ UNCHANGED <<clock, up, draining, slot, ticket, reply, hist>>

\* The second get(): the lease counts only if the record is still what we wrote.
LeaseConfirm(h) ==
    /\ job[h].pc = "confirm"
    /\ job' = [job EXCEPT ![h] =
          IF store.val = @.image
          THEN [@ EXCEPT !.pc = "acquired", !.version = store.version,
                         !.fence = job[h].image.fence, !.expires = job[h].image.expires]
          ELSE [@ EXCEPT !.pc = "acquired", !.status = "failed"]]
    /\ UNCHANGED <<store, clock, up, draining, slot, ticket, reply, hist>>

\* The storage throws; a CAS that throws may have taken effect.
AcquireError(h) ==
    /\ "error" \in Events /\ job[h].pc \in {"read", "lease", "confirm"}
    /\ \/ UNCHANGED store
       \/ job[h].pc = "lease" /\ CasSucceeds(h) /\ Write(job[h].image)
    /\ job' = [job EXCEPT ![h] = [@ EXCEPT !.pc = "acquired", !.status = "unknown"]]
    /\ UNCHANGED <<clock, up, draining, slot, ticket, reply, hist>>
-----------------------------------------------------------------------------
(***************************************************************************)
(* The completion of the acquisition, and the execution of the logic.      *)
(***************************************************************************)
Env == <<store, clock, up, draining, ticket, hist>>

\* The acquisition failed.
AcquireFailed(h) ==
    /\ up[h] /\ job[h].pc = "acquired" /\ job[h].status # "ok"
    /\ Complete(h, job[h].status) /\ UNCHANGED Env

\* The deadline has passed, the caller lost its permission, or a budget is spent.
AcquireRefused(h) ==
    /\ up[h] /\ job[h].pc = "acquired" /\ job[h].status = "ok"
    /\ Complete(h, "failed") /\ UNCHANGED Env

\* A receipt answers the request.
Replay(h) ==
    /\ up[h] /\ job[h].pc = "acquired" /\ job[h].status = "ok" /\ job[h].replay
    /\ Complete(h, "ok") /\ UNCHANGED Env

CacheUsableMutant(h) ==
    slot[h].cache # None /\ slot[h].cacheRevision = job[h].base.revision

\* The cached transient image is used only by the instance that stored it.
CacheUsable(h) ==
    /\ slot[h].cache # None /\ Owned(h)
    /\ slot[h].residentFence = job[h].base.fence
    /\ slot[h].cacheRevision = job[h].base.revision

\* $activate is due: the instance is new, or another owner or fence intervened.
ActivatingMutant(h) == ~slot[h].activated
Activating(h) ==
    ~slot[h].activated \/ ~Owned(h) \/ slot[h].activationFence # job[h].base.fence

\* The logic starts; $create and $activate run before it when they are due.
Execute(h) ==
    /\ up[h] /\ job[h].pc = "acquired" /\ job[h].status = "ok" /\ ~job[h].replay
    /\ job' = [job EXCEPT ![h] = [@ EXCEPT
          !.pc = "run", !.ran = ~job[h].metaOnly,
          !.cache = IF ~job[h].metaOnly /\ CacheUsable(h) THEN slot[h].cache ELSE None,
          !.activating = Activating(h)]]
    /\ UNCHANGED <<store, clock, up, draining, slot, ticket, reply, hist>>

\* The logic rejects or raises, or a limit stops the commit.
LogicFails(h) ==
    /\ up[h] /\ job[h].pc = "run"
    /\ \/ Complete(h, "failed")
       \/ "error" \in Events /\ Complete(h, "unknown")
    /\ UNCHANGED Env

\* poll(): only a Job whose logic still runs is abandoned at its deadline.
ExpireRunning(h) ==
    /\ up[h] /\ job[h].pc = "run"
    /\ Complete(h, "failed") /\ UNCHANGED Env

\* What the limits on the number and the bytes of receipts let the entity keep.
WithinLimits(r) == Len(r) <= ReceiptLimit /\ Range(r) \in Fitting

\* The oldest receipt that stays: with it the limits hold, with an older one they do not.
Oldest(r, m) ==
    /\ WithinLimits(SubSeq(r, m, Len(r)))
    /\ \A k \in 1..(m - 1) : ~WithinLimits(SubSeq(r, k, Len(r)))

\* The receipts r without as many of the oldest as the limits require.
Trimmed(r) ==
    IF \E m \in DOMAIN r : Oldest(r, m)
    THEN SubSeq(r, CHOOSE m \in DOMAIN r : Oldest(r, m), Len(r)) ELSE <<>>

WithReceiptMutant(receipts, a) ==
    IF ReqId[a] = None THEN Trimmed(receipts)
    ELSE LET r == Append(receipts, a)
         IN IF Len(r) >= ReceiptLimit THEN Trimmed(Tail(r)) ELSE Trimmed(r)

\* The receipts after the commit of a, which has one if it has an id.
WithReceipt(receipts, a) ==
    Trimmed(IF ReqId[a] = None THEN receipts ELSE Append(receipts, a))

\* A release leaves an entity that was never created uninitialized.
Initialized(j) == IF IsControl(j.a) THEN j.base.initialized ELSE TRUE

\* The record that the final CAS is to store.
Committed(h) ==
    LET j == job[h]
        v == j.base
        release == IsControl(j.a)
        handoff == Kind[j.a] = "handoff"
        destroy == Kind[j.a] = "destroy"
    IN [owner |-> IF release THEN None ELSE h,
        expires |-> IF release THEN 0 ELSE j.expires,
        fence |-> j.fence,
        log |-> IF destroy THEN <<>> ELSE Append(v.log, j.a),
        revision |-> IF destroy THEN 0 ELSE v.revision + IF IsWrite(j.a) THEN 1 ELSE 0,
        receipts |-> IF destroy THEN <<>> ELSE WithReceipt(v.receipts, j.a),
        initialized |-> Initialized(j),
        placement |-> IF handoff THEN Target[j.a] ELSE v.placement,
        transfer |-> IF handoff THEN j.version ELSE v.transfer,
        destroyed |-> destroy]

\* The logic succeeds: the record is built and the commit goes to the worker. (A receipt
\* that alone is too large is an overload, in LogicFails.)
LogicDone(h) ==
    /\ up[h] /\ job[h].pc = "run"
    /\ ReqId[job[h].a] # None => {job[h].a} \in Fitting
    /\ job' = [job EXCEPT ![h] = [@ EXCEPT
          !.pc = "check", !.image = Committed(h),
          !.cache = IF IsWrite(job[h].a) THEN job[h].a ELSE job[h].cache]]
    /\ UNCHANGED <<store, clock, up, draining, slot, ticket, reply, hist>>
-----------------------------------------------------------------------------
(***************************************************************************)
(* The final commit, by the worker.                                        *)
(***************************************************************************)
CheckLeaseMutant(h) ==
    /\ job[h].pc = "check"
    /\ job' = [job EXCEPT ![h] =
          IF clock[h] >= @.expires THEN [@ EXCEPT !.pc = "answer", !.ownerLost = TRUE]
          ELSE [@ EXCEPT !.pc = "cas"]]
    /\ UNCHANGED <<store, clock, up, draining, slot, ticket, reply, hist>>

\* The lease must not have run out.
CheckLease(h) ==
    /\ job[h].pc = "check"
    /\ job' = [job EXCEPT ![h] =
          IF clock[h] >= @.expires
          THEN [@ EXCEPT !.pc = "answer", !.ownerLost = TRUE, !.status = "failed"]
          ELSE [@ EXCEPT !.pc = "cas"]]
    /\ UNCHANGED <<store, clock, up, draining, slot, ticket, reply, hist>>

\* What the commit of h's Job adds to the history.
Record(h) ==
    LET j == job[h]
        executed == ~j.metaOnly /\ ~IsControl(j.a)
    IN hist' = [applied |-> hist.applied \cup {j.a},
                tickets |-> IF Kind[j.a] = "handoff" THEN hist.tickets \cup {j.version}
                            ELSE hist.tickets,
                creates |-> IF executed /\ ~j.base.initialized THEN hist.creates + 1
                            ELSE hist.creates,
                live |-> IF IsControl(j.a) THEN None
                         ELSE IF executed /\ j.activating THEN h ELSE hist.live,
                image |-> IF IsControl(j.a) THEN None
                          ELSE IF executed THEN j.cache ELSE hist.image]

CommitCas(h) ==
    /\ job[h].pc = "cas"
    /\ IF CasSucceeds(h)
       THEN /\ Write(job[h].image) /\ Record(h)
            /\ job' = [job EXCEPT ![h].pc = "answer"]
       ELSE /\ job' = [job EXCEPT ![h] = [@ EXCEPT !.pc = "answer", !.ownerLost = TRUE,
                                                   !.status = "failed"]]
            /\ UNCHANGED <<store, hist>>
    /\ UNCHANGED <<clock, up, draining, slot, ticket, reply>>

UncertainMutant(j) == [j EXCEPT !.pc = "answer", !.uncertain = TRUE, !.status = "failed"]
Uncertain(j) == [j EXCEPT !.pc = "answer", !.uncertain = TRUE, !.status = "unknown"]

\* The storage throws: whether the commit took effect is not known.
CommitError(h) ==
    /\ "error" \in Events /\ job[h].pc \in {"check", "cas"}
    /\ \/ UNCHANGED <<store, hist>>
       \/ job[h].pc = "cas" /\ CasSucceeds(h) /\ Write(job[h].image) /\ Record(h)
    /\ job' = [job EXCEPT ![h] = Uncertain(@)]
    /\ UNCHANGED <<clock, up, draining, slot, ticket, reply>>

\* The completion of the commit.
Finish(h) ==
    /\ up[h] /\ job[h].pc = "answer"
    /\ Complete(h, job[h].status) /\ UNCHANGED Env
-----------------------------------------------------------------------------
(***************************************************************************)
(* The Release of a type without a $deactivate method.                     *)
(***************************************************************************)
UnloadRead(h) ==
    /\ job[h].pc = "unload"
    /\ job' = [job EXCEPT ![h] =
          IF store.val.owner = h
          THEN [@ EXCEPT !.pc = "unloadcas", !.version = store.version,
                         !.image = [store.val EXCEPT !.owner = None, !.expires = 0]]
          ELSE [@ EXCEPT !.pc = "unloaded"]]
    /\ UNCHANGED <<store, clock, up, draining, slot, ticket, reply, hist>>

Vacate == hist' = [hist EXCEPT !.live = None, !.image = None]

UnloadCas(h) ==
    /\ job[h].pc = "unloadcas"
    /\ IF CasSucceeds(h)
       THEN /\ Write(job[h].image) /\ Vacate
            /\ job' = [job EXCEPT ![h] = [@ EXCEPT !.pc = "unloaded", !.status = "ok"]]
       ELSE job' = [job EXCEPT ![h].pc = "unloaded"] /\ UNCHANGED <<store, hist>>
    /\ UNCHANGED <<clock, up, draining, slot, ticket, reply>>

\* The storage throws, or the executor was full and nothing was submitted.
UnloadError(h) ==
    /\ "error" \in Events /\ job[h].pc \in {"unload", "unloadcas"}
    /\ \/ UNCHANGED <<store, hist>>
       \/ job[h].pc = "unloadcas" /\ CasSucceeds(h) /\ Write(job[h].image) /\ Vacate
    /\ job' = [job EXCEPT ![h] = [@ EXCEPT !.pc = "unloaded", !.status = "unknown"]]
    /\ UNCHANGED <<clock, up, draining, slot, ticket, reply>>

UnloadDone(h) ==
    /\ up[h] /\ job[h].pc = "unloaded"
    /\ slot' = [slot EXCEPT ![h] = IF job[h].status = "ok" THEN NoSlot
                                   ELSE [@ EXCEPT !.releasing = FALSE]]
    /\ job' = [job EXCEPT ![h] = NoJob]
    /\ Answer(job[h].a, job[h].status)
    /\ UNCHANGED Env
-----------------------------------------------------------------------------
(***************************************************************************)
(* Deadlines of queued requests, stop, crash and the clocks.               *)
(***************************************************************************)
\* poll(): a queued request is answered at its deadline, wherever it stands.
ExpireQueued(h) ==
    /\ up[h]
    /\ \E i \in DOMAIN slot[h].queue :
          LET a == slot[h].queue[i]
          IN /\ slot' = [slot EXCEPT ![h].queue = SubSeq(@, 1, i - 1) \o SubSeq(@, i + 1, Len(@)),
                                     ![h].releasing = @ /\ ~IsControl(a)]
             /\ Answer(a, "failed")
    /\ UNCHANGED <<store, clock, up, draining, job, ticket, hist>>

\* Attempts a host still has to answer.
Held(h) == Range(slot[h].queue) \cup IF Busy(h) THEN {job[h].a} ELSE {}

Halt(h) ==
    /\ up' = [up EXCEPT ![h] = FALSE]
    /\ slot' = [slot EXCEPT ![h] = NoSlot]
    /\ job' = [job EXCEPT ![h] = NoJob]
    /\ reply' = [a \in Attempts |-> IF a \in Held(h) THEN "unknown" ELSE reply[a]]
    /\ UNCHANGED <<store, clock, draining, ticket, hist>>

\* stop() joins the worker, which finishes an operation it has begun.
Stop(h) ==
    /\ "stop" \in Events /\ up[h] /\ job[h].pc \notin {"lease", "confirm", "cas", "unloadcas"}
    /\ job[h].pc = "read" => job[h].tries = 0
    /\ Halt(h)

\* The process dies at any moment; its callers see the connection drop.
Crash(h) == "crash" \in Events /\ up[h] /\ Halt(h)

Tick(h) ==
    /\ clock[h] < MaxTime
    /\ clock' = [clock EXCEPT ![h] = @ + 1]
    /\ UNCHANGED <<store, up, draining, slot, job, ticket, reply, hist>>

HostStep(h) ==
    \/ \E a \in Attempts : Call(h, a) \/ ControlEntity(h, a)
    \/ DropIdle(h) \/ Drain(h) \/ Acquire(h) \/ ExpireQueued(h)
    \/ AcquireRead(h) \/ LeaseCas(h) \/ LeaseConfirm(h) \/ AcquireError(h)
    \/ AcquireFailed(h) \/ AcquireRefused(h) \/ Replay(h) \/ Execute(h)
    \/ LogicFails(h) \/ ExpireRunning(h) \/ LogicDone(h)
    \/ CheckLease(h) \/ CommitCas(h) \/ CommitError(h) \/ Finish(h)
    \/ UnloadRead(h) \/ UnloadCas(h) \/ UnloadError(h) \/ UnloadDone(h)
    \/ Stop(h) \/ Crash(h) \/ Tick(h)

Next == \E h \in Hosts : HostStep(h)

\* The host is polled and its worker runs; a running logic ends or expires.
Progress(h) ==
    \/ Acquire(h) \/ AcquireRead(h) \/ LeaseCas(h) \/ LeaseConfirm(h)
    \/ AcquireFailed(h) \/ Replay(h) \/ Execute(h) \/ ExpireRunning(h) \/ LogicDone(h)
    \/ CheckLease(h) \/ CommitCas(h) \/ Finish(h)
    \/ UnloadRead(h) \/ UnloadCas(h) \/ UnloadDone(h)

Spec == Init /\ [][Next]_vars
Fairness == \A h \in Hosts : WF_vars(Progress(h))
FairSpec == Spec /\ Fairness
-----------------------------------------------------------------------------
(***************************************************************************)
(* Properties.                                                             *)
(***************************************************************************)
Value ==
    [owner : Hosts \cup {None}, expires : Nat, fence : Nat, log : Seq(Attempts),
     revision : Nat, receipts : Seq(Attempts), initialized : BOOLEAN, placement : Nodes \cup {None},
     transfer : Nat, destroyed : BOOLEAN]

Pcs == {"none", "read", "lease", "confirm", "acquired", "run", "check", "cas", "answer",
        "unload", "unloadcas", "unloaded"}

JobType ==
    [pc : Pcs, a : Attempts \cup {None}, tries : Nat, version : Nat, base : Value,
     image : Value, fence : Nat, expires : Nat, status : Statuses,
     metaOnly : BOOLEAN, replay : BOOLEAN, preserve : BOOLEAN, ownerLost : BOOLEAN,
     wrongNode : BOOLEAN, activating : BOOLEAN, ran : BOOLEAN,
     cache : Attempts \cup {None}, uncertain : BOOLEAN]

SlotType ==
    [present : BOOLEAN, queue : Seq(Attempts), releasing : BOOLEAN, activated : BOOLEAN,
     activationFence : Nat, residentFence : Nat, cache : Attempts \cup {None},
     cacheRevision : Nat]

HistType ==
    [applied : SUBSET Attempts, tickets : SUBSET Nat, creates : Nat,
     live : Hosts \cup {None}, image : Attempts \cup {None}]

\* Every variable has its type: the record, the slots and Jobs of the hosts, the
\* replies, and an active Job or Release always serves an attempt.
TypeOK ==
    /\ store \in [version : Nat, val : Value]
    /\ clock \in [Hosts -> Nat]
    /\ up \in [Hosts -> BOOLEAN] /\ draining \in [Hosts -> BOOLEAN]
    /\ slot \in [Hosts -> SlotType]
    /\ job \in [Hosts -> JobType]
    /\ ticket \in [Attempts -> Nat]
    /\ reply \in [Attempts -> {"none", "pending"} \cup Statuses]
    /\ hist \in HistType
    /\ \A h \in Hosts : job[h].pc # "none" => job[h].a \in Attempts

\* No committed change is ever lost: whatever hosts crash, lose their lease or
\* commit late, the durable state holds exactly the attempts whose final CAS
\* succeeded, until the entity is destroyed (the fenced CAS of the commit).
NoLostUpdate == ~store.val.destroyed => Range(store.val.log) = hist.applied

\* A request id takes effect again only after later requests with ids have evicted its
\* receipt: as many as the limit on their number, or so large that its receipt and theirs
\* do not fit together (receipts are committed with the state and trimmed oldest first).
AtMostOnce ==
    LET log == store.val.log
    IN \A i, j \in DOMAIN log :
          i < j /\ ReqId[log[i]] # None /\ ReqId[log[i]] = ReqId[log[j]] =>
              LET later == {k \in (i + 1)..(j - 1) : ReqId[log[k]] # None}
              IN \/ Cardinality(later) >= ReceiptLimit
                 \/ {log[k] : k \in {i} \cup later} \notin Fitting

\* A caller is told ok only when its request, or an earlier attempt of the same
\* request, is committed (complete() after the CAS, or the replay of a receipt).
OkMeansApplied ==
    \A a \in Attempts :
        reply[a] = "ok" /\ (Kind[a] = "deactivate" => HasHook) =>
            \E b \in hist.applied :
                a = b \/ (ReqId[a] # None /\ ReqId[b] = ReqId[a] /\ Body[b] = Body[a])

\* A request answered with a definite failure, a timeout included, has not taken
\* effect and never will: poll() abandons a Job only while its logic runs, and a
\* Job that was answered never commits.
FailureMeansNotApplied ==
    \A a \in Attempts : reply[a] = "failed" => a \notin hist.applied

\* What callers were told agrees with the durable state, which has lost nothing.
TruthfulAnswers == NoLostUpdate /\ OkMeansApplied /\ FailureMeansNotApplied

\* A Job that holds the lease is overtaken only after its lease has run out on
\* some host's clock: no host takes an entity from an owner with a live lease.
NoEarlyTakeover ==
    \A h \in Hosts :
        job[h].pc \in {"acquired", "run", "check", "cas"} /\ job[h].fence # 0
            /\ store.version # job[h].version =>
                \E g \in Hosts : clock[g] >= job[h].expires

\* $activate is skipped only when the last $activate that took effect was of the
\* very instance that now runs the logic.
ActivationFresh ==
    \A h \in Hosts :
        job[h].pc \in {"run", "check", "cas"} /\ ~job[h].metaOnly /\ ~IsControl(job[h].a)
            /\ ~job[h].activating /\ store.version = job[h].version =>
                hist.live = h

\* The logic sees cached transient attributes only if they are the ones that the
\* entity's last committed execution left: a residency that ended stays ended.
TransientFresh ==
    \A h \in Hosts :
        job[h].pc = "run" /\ job[h].cache # None /\ store.version = job[h].version =>
            job[h].cache = hist.image

\* The entity is initialized exactly when one $create took effect, whatever
\* metadata-only commits, releases and retries came before.
CreateOnce ==
    ~store.val.destroyed => hist.creates = IF store.val.initialized THEN 1 ELSE 0

\* Once handed off, an entity is only ever owned by an incarnation of the node it
\* was handed to.
PlacedOwner ==
    store.val.owner # None /\ store.val.placement # None =>
        NodeOf[store.val.owner] = store.val.placement

\* Every accepted request is in exactly one mailbox or Job, so erasing a slot,
\* expiring a request or finishing a Job never strands one.
NoOrphan ==
    /\ \A a \in Attempts : reply[a] = "pending" <=> \E h \in Hosts : a \in Held(h)
    /\ \A g, h \in Hosts : g # h => Held(g) \cap Held(h) = {}

\* Through a handoff the entity has one home, one creation and no forgotten request.
HandoffSafe == PlacedOwner /\ CreateOnce /\ NoOrphan

\* A slot refuses requests as releasing only while a control operation is queued
\* or running, and then that operation is alone in the mailbox.
ReleasingMatchesControl ==
    \A h \in Hosts :
        /\ slot[h].releasing => \E a \in Held(h) : IsControl(a)
        /\ \A a \in Held(h) : IsControl(a) => slot[h].releasing /\ Held(h) = {a}

\* The fence never decreases and every change of owner raises it; a destroyed
\* record never changes again.
OwnershipFenced ==
    [][/\ store'.val.fence >= store.val.fence
       /\ store'.val.owner \notin {store.val.owner, None} => store'.val.fence > store.val.fence
       /\ store.val.destroyed => store' = store]_vars

\* Every accepted request is answered: polling, the worker and the deadlines
\* leave no request in a mailbox or a Job for ever.
Answered == \A a \in Attempts : []<>(reply[a] # "pending")

Ledger == INSTANCE EntityLedger WITH
    log <- store.val.log, applied <- hist.applied, gone <- store.val.destroyed, answer <- reply,
    Silent <- {a \in Attempts : Kind[a] = "deactivate" /\ ~HasHook}

\* All the hosts together behave as one ledger: requests take effect one at a
\* time on the newest state, at most while they are pending, and every answer
\* agrees with it.
ImplementsLedger == Ledger!LedgerSpec
=============================================================================
