---------------------------- MODULE EntityTimers ----------------------------
(***************************************************************************)
(* Persistent timers of one entity: the timer state in its record, the     *)
(* discovery index that is written ahead of it (timer_index::arm), and the *)
(* EntityTimers service of each node, which finds due timers through the   *)
(* index and asks its EntityScriptHost to fire them.                       *)
(*                                                                         *)
(* The entity has one timer key.  The other entities of its index shard    *)
(* show only as a moving bucket version (Contend).  A host runs one        *)
(* request of the entity at a time.  The refresh and retry delays of the   *)
(* service may take any time: a watch to be looked at "later" has next 0.  *)
(***************************************************************************)
EXTENDS TimerState, Sequences, FiniteSets

CONSTANTS
    Nodes,
    Services,   \* the nodes whose EntityTimers runs; all of them in a deployment
    Targets,    \* the target_node of the creation: a node or None
    None,
    Gone,       \* the owner id of a process that died
    Specs,      \* the timers a script schedules: delay, interval, count, policies
    MaxTime,    \* bound: the clock
    MaxCalls,   \* bound: requests of scripts, handoffs and destruction
    MaxOps,     \* bound: schedule_timer and cancel_timer calls
    MaxFaults

VARIABLES
    clock,
    record,  \* the entity's record: version, fence, lease, placement, timers
    index,   \* the shard of the discovery index: version and this entity's entry
    job,     \* the request each host executes for the entity
    watch,   \* what each service tracks: the index entry and when to look next
    scan,    \* the scan of each service
    load,    \* the shard read of each service
    budget,
    fired    \* history: the committed firings

vars == <<clock, record, index, job, watch, scan, load, budget, fired>>
service == <<watch, scan, load>>

Never == MaxInt
NoTimers == [sequence |-> 0, token |-> None, timer |-> None]
NoJob == [pc |-> "free", kind |-> "logic", version |-> 0, fence |-> 0, timers |-> NoTimers,
          dirty |-> FALSE, event |-> None, target |-> None, seen |-> 0]
NoScan == [pc |-> "idle", live |-> TRUE, fresh |-> TRUE, time |-> 0, seen |-> None,
           confirmed |-> None, timer |-> None]

Init ==
    /\ clock = 0
    /\ \E node \in Targets :
          record = [version |-> 1, fence |-> 1, owner |-> None, leased |-> FALSE,
                    placement |-> node, destroyed |-> FALSE, timers |-> NoTimers]
    /\ index = [version |-> 0, entry |-> None]
    /\ job = [n \in Nodes |-> NoJob]
    /\ watch = [n \in Nodes |-> None]
    /\ scan = [n \in Nodes |-> NoScan]
    /\ load = [n \in Nodes |-> [pc |-> "idle", entry |-> None]]
    /\ budget = [calls |-> 0, ops |-> 0, faults |-> 0]
    /\ fired = <<>>

Spend(what, max) ==
    /\ budget[what] < max
    /\ budget' = [budget EXCEPT ![what] = @ + 1]
Fault == Spend("faults", MaxFaults)

\* next_entity_timer()
NextDue(timers) == IF timers.timer = None THEN Never ELSE timers.timer.due
-----------------------------------------------------------------------------
(***************************************************************************)
(* The host.                                                               *)
(***************************************************************************)
\* finish(): the watch of a scan is looked at again, at once when its entry changed.
WatchAfter(n, next) ==
    IF scan[n].live /\ watch[n] # None
    THEN [watch EXCEPT ![n].next = IF scan[n].fresh THEN next ELSE 0] ELSE watch
Finish(n, next) ==
    /\ watch' = WatchAfter(n, next)
    /\ scan' = [scan EXCEPT ![n] = NoScan]

\* complete(): the job ends; the service that asked for it looks again.
Complete(n) ==
    /\ job' = [job EXCEPT ![n] = NoJob]
    /\ IF scan[n].pc = "wait" /\ job[n].kind \in {"fire", "wake"}
       THEN Finish(n, 0) ELSE UNCHANGED <<watch, scan>>
    /\ UNCHANGED load

\* acquire() refuses an entity placed on, or leased to, another node.
Refused(n) ==
    \/ record.destroyed
    \/ record.placement \notin {None, n}
    \/ record.leased /\ record.owner # n

Owned(n) == record.leased /\ record.owner = n
Leased(n) == IF Owned(n) THEN record
             ELSE [record EXCEPT !.version = @ + 1, !.fence = @ + 1, !.owner = n, !.leased = TRUE]

Acquired(n, kind, target, event) ==
    /\ record' = Leased(n)
    /\ job' = [job EXCEPT ![n] = [NoJob EXCEPT !.pc = "run", !.kind = kind, !.target = target,
                  !.version = record'.version, !.fence = record'.fence,
                  !.timers = record.timers, !.event = event]]

\* A request of a script, a handoff to another node, its acceptance, a destruction.
Call(n, kind, target) ==
    /\ job[n].pc = "free" /\ ~Refused(n)
    /\ kind = "handoff" <=> target # None
    /\ kind = "handoff" => target # n
    /\ kind = "accept" => record.placement = n
    /\ Acquired(n, kind, target, None)
    /\ Spend("calls", MaxCalls)
    /\ UNCHANGED <<clock, index, service, fired>>

\* A fire request stands for one occurrence: the timer must still have the generation
\* and due time that the scan saw, and must be due.
SameOccurrence(timer, seen) ==
    timer # None /\ timer.generation = seen.generation /\ timer.due = seen.due

\* fire_timer() and read_attributes() of the service reach the host.
Serve(n) ==
    LET seen == scan[n].timer
        wake == scan[n].pc = "wake"
        current == ~wake => SameOccurrence(record.timers.timer, seen) /\ seen.due <= clock
    IN /\ scan[n].pc \in {"fire", "wake"} /\ job[n].pc = "free"
       /\ \/ /\ Refused(n)
             /\ Finish(n, 0)
             /\ UNCHANGED <<record, job>>
          \/ /\ ~Refused(n) /\ current
             /\ Acquired(n, scan[n].pc, None, IF wake THEN None ELSE record.timers.timer)
             /\ scan' = [scan EXCEPT ![n].pc = "wait"]
             /\ UNCHANGED watch
          \/ /\ ~Refused(n) /\ ~current      \* a replay: the occurrence is gone
             /\ record' = Leased(n)
             /\ Finish(n, 0)
             /\ UNCHANGED job
       /\ UNCHANGED <<clock, index, load, budget, fired>>

\* publish_timers(): every change of the timers has a token of its own.
Published(j, timer) ==
    [j EXCEPT !.timers = [sequence |-> j.timers.sequence + 1,
                          token |-> <<j.version, j.timers.sequence + 1>>, timer |-> timer],
              !.dirty = TRUE]

ScheduleTimer(n, spec) ==
    LET j == job[n]
    IN /\ j.pc = "run" /\ j.kind \in {"logic", "fire"}
       /\ job' = [job EXCEPT ![n] = Published(j,
             [generation |-> <<j.version, j.timers.sequence + 1>>, due |-> clock + spec.delay,
              interval |-> spec.interval, remaining |-> spec.count,
              catch_up |-> spec.catch_up, fixed_delay |-> spec.fixed_delay])]
       /\ Spend("ops", MaxOps)
       /\ UNCHANGED <<clock, record, index, service, fired>>

CancelTimer(n) ==
    /\ job[n].pc = "run" /\ job[n].kind \in {"logic", "fire"}
    /\ job[n].timers.timer # None
    /\ job' = [job EXCEPT ![n] = Published(job[n], None)]
    /\ Spend("ops", MaxOps)
    /\ UNCHANGED <<clock, record, index, service, fired>>

\* The callback of a fired timer succeeded: the timer advances, unless the callback
\* cancelled or replaced it.
AdvanceFired(j) ==
    LET at == IF clock > j.event.due THEN clock ELSE j.event.due
    IN IF j.kind = "fire" /\ SameOccurrence(j.timers.timer, j.event)
       THEN Published(j, IF Continues(j.timers.timer, at) THEN Advanced(j.timers.timer, at)
                         ELSE None)
       ELSE j

\* Changes of placement and destruction concern the index too.
MarkDirty(j) ==
    [j EXCEPT !.dirty = @ \/ (j.timers.token # None /\ j.kind \in {"handoff", "accept", "destroy"})]

LogicDone(n) ==
    LET j == MarkDirty(AdvanceFired(job[n]))
    IN /\ job[n].pc = "run"
       /\ job' = [job EXCEPT ![n] = [j EXCEPT !.pc = IF j.dirty THEN "arm" ELSE "commit"]]
       /\ UNCHANGED <<clock, record, index, service, budget, fired>>

\* timer_index::arm(): the producer must still own the entity's version ...
ArmCheck(n) ==
    /\ job[n].pc = "arm"
    /\ IF record.version = job[n].version /\ record.fence = job[n].fence
       THEN job' = [job EXCEPT ![n].pc = "index"] /\ UNCHANGED service
       ELSE Complete(n)
    /\ UNCHANGED <<clock, record, index, budget, fired>>

\* ... no producer with a later fence may have been there ...
ArmRead(n) ==
    /\ job[n].pc = "index"
    /\ IF index.entry # None /\ index.entry.fence > job[n].fence THEN Complete(n)
       ELSE job' = [job EXCEPT ![n].pc = "write", ![n].seen = index.version] /\ UNCHANGED service
    /\ UNCHANGED <<clock, record, index, budget, fired>>

Placement(j) == IF j.target # None THEN j.target ELSE record.placement

\* The entry is armed as pending: its entity's commit is still to come.
PendingEntry(j) ==
    [token |-> j.timers.token, base |-> j.version, fence |-> j.fence,
     due |-> NextDue(j.timers), pending |-> TRUE, placement |-> Placement(j)]

\* ... and the bucket must not have changed, or all of it is tried again.
ArmWrite(n) ==
    /\ job[n].pc = "write"
    /\ IF index.version = job[n].seen
       THEN /\ index' = [version |-> index.version + 1, entry |-> PendingEntry(job[n])]
            /\ job' = [job EXCEPT ![n].pc = "commit"]
       ELSE job' = [job EXCEPT ![n].pc = "arm"] /\ UNCHANGED index
    /\ UNCHANGED <<clock, record, service, budget, fired>>

\* A control request gives the lease up in its commit.
ReleasedMutant(j) == IF j.kind \in {"handoff", "destroy"} THEN [record EXCEPT !.owner = None]
                     ELSE record
Released(j) == IF j.kind \in {"handoff", "destroy"}
               THEN [record EXCEPT !.owner = None, !.leased = FALSE] ELSE record

Committed(n) ==
    LET j == job[n]
    IN /\ record' = [Released(j) EXCEPT !.version = @ + 1, !.placement = Placement(j),
             !.destroyed = j.kind = "destroy",
             !.timers = IF j.kind = "destroy" THEN NoTimers ELSE j.timers]
       /\ fired' = IF j.event = None THEN fired
                   ELSE Append(fired, [generation |-> j.event.generation, due |-> j.event.due,
                                       at |-> clock])

\* The commit: the lease is checked against the clock, then the version by the CAS.
Commit(n) ==
    /\ job[n].pc = "commit"
    /\ \/ record.version = job[n].version /\ Committed(n)
       \/ (record.version # job[n].version \/ ~record.leased) /\ UNCHANGED <<record, fired>>
    /\ Complete(n)
    /\ UNCHANGED <<clock, index, budget>>

\* The commit takes effect but throws.
CommitError(n) ==
    /\ job[n].pc = "commit" /\ record.version = job[n].version
    /\ Fault
    /\ Committed(n)
    /\ Complete(n)
    /\ UNCHANGED <<clock, index>>

\* The callback fails, the request times out, storage throws.
Fail(n) ==
    /\ job[n].pc # "free"
    /\ Fault
    /\ Complete(n)
    /\ UNCHANGED <<clock, record, index, fired>>
-----------------------------------------------------------------------------
(***************************************************************************)
(* The service.                                                            *)
(***************************************************************************)
\* load(): the storage job reads the bucket ...  The service's storage jobs run one after
\* the other.
LoadBucket(n) ==
    /\ n \in Services /\ load[n].pc = "idle"
    /\ scan[n].pc \notin {"record", "erase", "confirm"}
    /\ load' = [load EXCEPT ![n] = [pc |-> "filter", entry |-> index.entry]]
    /\ UNCHANGED <<clock, record, index, job, watch, scan, budget, fired>>

\* ... and leaves out an entity placed elsewhere.  The hint in the index is believed
\* only when it is confirmed; every 16th round (verify) it is not believed at all.
Hinted(entry, verify) ==
    IF entry.pending \/ entry.placement = None \/ verify THEN record.placement
    ELSE entry.placement

Tracked(entry) == [entry |-> entry, next |-> IF entry.pending THEN 0 ELSE entry.due]

\* The completion of load() renews the watch, or removes it.
LoadFilter(n, verify) ==
    LET entry == load[n].entry
        kept == entry # None /\ Hinted(entry, verify) \in {None, n}
        same == kept /\ watch[n] # None /\ watch[n].entry = entry
    IN /\ load[n].pc = "filter"
       /\ load' = [load EXCEPT ![n] = [pc |-> "idle", entry |-> None]]
       /\ watch' = IF same THEN watch
                   ELSE [watch EXCEPT ![n] = IF kept THEN Tracked(entry) ELSE None]
       /\ scan' = [scan EXCEPT ![n].fresh = @ /\ (same \/ scan[n].pc = "idle"),
                               ![n].live = @ /\ (kept \/ scan[n].pc = "idle")]
       /\ UNCHANGED <<clock, record, index, job, budget, fired>>

\* poll(): a watch that is due is scanned; the storage job reads the bucket ...
ScanBucket(n) ==
    /\ watch[n] # None /\ watch[n].next <= clock /\ scan[n].pc = "idle"
    /\ IF index.entry = None
       THEN Finish(n, Never)
       ELSE /\ scan' = [scan EXCEPT ![n] = [NoScan EXCEPT !.pc = "record", !.time = clock,
                                                           !.seen = index]]
            /\ UNCHANGED watch
    /\ UNCHANGED <<clock, record, index, job, load, budget, fired>>

\* A pending entry whose producer may still commit.
Undecided(entry) ==
    entry.pending /\ record.timers.token # entry.token /\ record.version = entry.base

Confirmed ==
    [token |-> record.timers.token, base |-> record.version, fence |-> record.fence,
     due |-> NextDue(record.timers), pending |-> FALSE, placement |-> record.placement]

\* ... then the entity's record, and decides.
ScanRecord(n) ==
    LET s == scan[n]
        To(pc) == /\ scan' = [scan EXCEPT ![n].pc = pc, ![n].confirmed = Confirmed,
                                          ![n].timer = record.timers.timer]
                  /\ UNCHANGED watch
    IN /\ s.pc = "record"
       /\ \/ record.destroyed /\ To("erase")
          \/ ~record.destroyed /\ Refused(n) /\ Finish(n, 0)
          \/ ~Refused(n) /\ Undecided(s.seen.entry) /\ s.live /\ To("wake")
          \/ ~Refused(n) /\ Undecided(s.seen.entry) /\ ~s.live /\ Finish(n, 0)
          \/ ~Refused(n) /\ ~Undecided(s.seen.entry) /\ record.timers.timer = None /\ To("erase")
          \/ /\ ~Refused(n) /\ ~Undecided(s.seen.entry) /\ record.timers.timer # None
             /\ To("confirm")
       /\ UNCHANGED <<clock, record, index, job, load, budget, fired>>

\* timer_index::write() succeeds only if the bucket is the one that was read.
UnchangedSinceMutant(s) == TRUE
UnchangedSince(s) == index.version = s.seen.version

ScanErase(n) ==
    /\ scan[n].pc = "erase"
    /\ IF UnchangedSince(scan[n])
       THEN index' = [version |-> index.version + 1, entry |-> None] /\ Finish(n, Never)
       ELSE UNCHANGED index /\ Finish(n, 0)
    /\ UNCHANGED <<clock, record, job, load, budget, fired>>

ScanConfirm(n) ==
    LET s == scan[n]
    IN /\ s.pc = "confirm"
       /\ index' = IF s.seen.entry # s.confirmed /\ UnchangedSince(s)
                   THEN [version |-> index.version + 1, entry |-> s.confirmed] ELSE index
       /\ IF s.timer.due > s.time \/ ~s.live THEN Finish(n, s.timer.due)
          ELSE scan' = [scan EXCEPT ![n].pc = "fire"] /\ UNCHANGED watch
       /\ UNCHANGED <<clock, record, job, load, budget, fired>>

\* A storage call of the service throws: it looks again after the retry delay.
ScanError(n) ==
    /\ scan[n].pc \in {"record", "erase", "confirm"}
    /\ Fault
    /\ Finish(n, 0)
    /\ UNCHANGED <<clock, record, index, job, load, fired>>
-----------------------------------------------------------------------------
(***************************************************************************)
(* The environment.                                                        *)
(***************************************************************************)
Tick ==
    /\ clock < MaxTime
    /\ clock' = clock + 1
    /\ UNCHANGED <<record, index, job, service, budget, fired>>

\* A lease runs out: under a running owner, or after its owner died.
Lapse ==
    /\ record.leased
    /\ record' = [record EXCEPT !.leased = FALSE]
    /\ IF record.owner = Gone THEN UNCHANGED budget ELSE Fault
    /\ UNCHANGED <<clock, index, job, service, fired>>

\* Another entity of the shard writes the bucket.
Contend ==
    /\ Fault
    /\ index' = [index EXCEPT !.version = @ + 1]
    /\ UNCHANGED <<clock, record, job, service, fired>>

\* A node dies and starts again, under a new owner id.
Crash(n) ==
    /\ Fault
    /\ job' = [job EXCEPT ![n] = NoJob]
    /\ watch' = [watch EXCEPT ![n] = None]
    /\ scan' = [scan EXCEPT ![n] = NoScan]
    /\ load' = [load EXCEPT ![n] = [pc |-> "idle", entry |-> None]]
    /\ record' = [record EXCEPT !.owner = IF @ = n THEN Gone ELSE @]
    /\ UNCHANGED <<clock, index, fired>>

HostStep(n) ==
    LogicDone(n) \/ ArmCheck(n) \/ ArmRead(n) \/ ArmWrite(n) \/ Commit(n)
ScanStep(n) ==
    ScanBucket(n) \/ ScanRecord(n) \/ ScanErase(n) \/ ScanConfirm(n) \/ Serve(n)
LoadStep(n) == LoadBucket(n) \/ \E verify \in BOOLEAN : LoadFilter(n, verify)

Next ==
    \/ \E n \in Nodes :
          \/ HostStep(n)
          \/ ScanStep(n)
          \/ LoadStep(n)
          \/ Call(n, "logic", None)
          \/ Call(n, "accept", None)
          \/ Call(n, "destroy", None)
          \/ \E m \in Nodes : Call(n, "handoff", m)
          \/ \E spec \in Specs : ScheduleTimer(n, spec)
          \/ CancelTimer(n)
          \/ CommitError(n)
          \/ Fail(n)
          \/ ScanError(n)
          \/ Crash(n)
    \/ Tick
    \/ Lapse
    \/ Contend

Spec == Init /\ [][Next]_vars

\* Every node polls its host and its service, every 16th round of loads verifies, and
\* the lease of a dead owner runs out.
Fairness ==
    /\ \A n \in Nodes :
          /\ WF_vars(HostStep(n)) /\ WF_vars(ScanStep(n))
          /\ WF_vars(LoadStep(n)) /\ SF_vars(LoadFilter(n, TRUE))
    /\ WF_vars(record.owner = Gone /\ Lapse)

FairSpec == Spec /\ Fairness
-----------------------------------------------------------------------------
TypeOK ==
    /\ clock \in 0..MaxTime
    /\ record.owner \in Nodes \cup {None, Gone}
    /\ record.placement \in Nodes \cup {None}
    /\ record.timers.timer # None => Valid(record.timers.timer)
    /\ record.leased => record.owner # None
    /\ index.entry # None => index.entry.fence <= record.fence
    /\ \A n \in Nodes : job[n].pc \in {"free", "run", "arm", "index", "write", "commit"}

\* No timer is lost: a committed timer of a live entity is always in the discovery
\* index, so that any service finds it, whoever died when (arm() before the commit,
\* the pending state, and the CAS of every erase).
Discoverable == record.timers.timer # None => index.entry # None

\* A confirmed index entry is not out of date: it shows the committed timers' token
\* and due time, so a service that waits for that time does not wait too long.  (Its
\* placement may be out of date: a handoff arms the entry under an unchanged token,
\* and a scan may confirm it before the handoff commits.)
ConfirmedIsCurrent ==
    index.entry # None /\ ~index.entry.pending /\ ~record.destroyed =>
        /\ index.entry.token = record.timers.token
        /\ index.entry.due = NextDue(record.timers)

\* One occurrence of a timer (generation and due time) is committed at most once and
\* never before it is due.
FiredOnce ==
    /\ \A i \in DOMAIN fired : fired[i].at >= fired[i].due
    /\ \A i, k \in DOMAIN fired :
          fired[i].generation = fired[k].generation /\ fired[i].due = fired[k].due => i = k

\* A timer that is due fires, or is cancelled or replaced: services find it and hosts
\* execute it, once the faults end.
Waiting(d) == record.timers.timer # None /\ record.timers.timer.due = d /\ d <= clock
DueFires == \A d \in 0..MaxTime : []<>~Waiting(d)
=============================================================================
