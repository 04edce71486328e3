----------------------------- MODULE LuaEngine -----------------------------
(***************************************************************************)
(* The task scheduler of the Lua engine (src/src/lua_engine.cpp): RPCs are *)
(* queued by the bound handlers, poll() turns them into coroutines, a      *)
(* coroutine that awaits the host is suspended and its answer is queued    *)
(* until poll() resumes it.  One entity (mailbox) runs one coroutine.      *)
(*                                                                         *)
(* The script itself is the environment: a step of it returns, fails,      *)
(* awaits a call, a watch or a sleep, and may adopt, drop or dispose of a  *)
(* watch.  The host answers when it likes, once, twice or never; it may    *)
(* answer a task that is gone, and it may throw out of the call.  Between  *)
(* two steps a task in `tasks` is always waiting, so "suspended" stands    *)
(* for both.  The state starts where load() returns.                       *)
(***************************************************************************)
EXTENDS Naturals, FiniteSets, FiniteSetsExt, Sequences, SequencesExt

CONSTANTS
    Requests,    \* RPCs the bound handlers may receive
    Starts,      \* the sequence of tasks runtime.start registered
    Critical,    \* those of Starts whose failure fails the startup
    Box,         \* Box[j]: the entity of job j, NoBox for none
    NoBox,
    MaxQueued,   \* limits.queued_requests
    MaxActive,   \* limits.active_coroutines
    MaxBytes,    \* limits.queued_bytes, for queued completions
    WorkLimit,   \* poll's work_limit
    MaxAwaits,   \* MaxAwaits[j], bound: awaits of job j
    MaxFaults    \* bound: revocations, repeated answers and throwing calls

VARIABLE g

vars == g

Loops == Range(Starts) \ Critical
AllJobs == Requests \cup Range(Starts)
NoLease == 0

----------------------------------------------------------------------------
(* Replies and the end of a task *)

\* task.reply of a job, of which the model remembers whether it is ok; the reply of a critical start keeps the startup count.
Reply(h, j, status) ==
    [h EXCEPT !.st[j] = "done",
              !.answers[j] = Append(@, status = "ok"),
              !.late = @ \ {j}, !.revoked = @ \ {j},
              !.pending = IF j \in Critical THEN @ - 1 ELSE @,
              !.failed = @ \/ (j \in Critical /\ status # "ok")]

\* finish: the task leaves `tasks`, the watch nobody adopted is closed, the
\* mailbox is free, the caller is answered.
Finish(h, j, status) ==
    IF h.st[j] # "suspended" THEN h
    ELSE Reply([h EXCEPT !.subs = @ \ {h.lease[j]}, !.lease[j] = NoLease,
                         !.wake = @ \ {j}, !.ready = @ \ {j},
                         !.busy = @ \ {Box[j]}], j, status)

FinishAll(h, set, status) ==
    FoldLeft(LAMBDA x, j : Finish(x, j, status), h, SetToSeq(set))

\* Impl::stop: every queued and suspended job is answered, the queued answers
\* are dropped, and closing the VM collects the objects with their watches.
StopAll(h) ==
    LET queued == FoldLeft(LAMBDA x, j : Reply(x, j, "disconnected"),
                           [h EXCEPT !.stopped = TRUE, !.queue = <<>>], h.queue)
    IN  [FinishAll(queued, AllJobs, "disconnected")
            EXCEPT !.resumes = <<>>, !.bytes = 0,
                   !.kept = {}, !.subs = @ \ h.kept, !.polling = FALSE, !.work = 0]

----------------------------------------------------------------------------
(* Completions *)

CompleteMutant(h, j, generation, size) ==
    IF h.stopped \/ h.st[j] # "suspended" \/ j \in h.ready THEN h
    ELSE LET fits == IF size > MaxBytes - h.bytes THEN 0 ELSE size
         IN  [h EXCEPT !.resumes = Append(@, [job |-> j, gen |-> generation, size |-> fits]),
                       !.bytes = @ + fits, !.ready = @ \cup {j}]

\* The completion of an await: the first one of the task's current generation
\* queues a resume; an answer too large for the budget becomes "overloaded",
\* which has no data.
Complete(h, j, generation, size) ==
    IF h.stopped \/ h.st[j] # "suspended" \/ h.gen[j] # generation \/ j \in h.ready THEN h
    ELSE LET fits == IF size > MaxBytes - h.bytes THEN 0 ELSE size
         IN  [h EXCEPT !.resumes = Append(@, [job |-> j, gen |-> generation, size |-> fits]),
                       !.bytes = @ + fits, !.ready = @ \cup {j}]

\* Watch ids are never reused by the host.
NewSub(h) == h.serial + 1

\* The host granted a watch (1825-1837): a task that is gone or has moved on
\* gives it back at once, otherwise the task leases it until a script object
\* adopts it; the lease it replaces is closed.
Watched(h, c) ==
    IF h.stopped \/ h.st[c.job] # "suspended" \/ h.gen[c.job] # c.gen
    THEN [h EXCEPT !.serial = NewSub(h)]
    ELSE Complete([h EXCEPT !.serial = NewSub(h),
                            !.subs = (@ \ {h.lease[c.job]}) \cup {NewSub(h)},
                            !.lease[c.job] = NewSub(h)], c.job, c.gen, 1)

\* A repeated answer of a watch: its own id changes nothing, another id is
\* given back at once (1821-1824).
WatchedAgain(h, c) == h

----------------------------------------------------------------------------
(* A step of a script *)

\* object_create and object_attach: a script object adopts the leased watch.
Adopt(h, j) == [h EXCEPT !.kept = @ \cup {h.lease[j]}, !.lease[j] = NoLease]

\* unwatch of the leased watch.
Unwatch(h, j) == [h EXCEPT !.subs = @ \ {h.lease[j]}, !.lease[j] = NoLease]

\* What a script does with the watch its task leases before it yields or ends.
Leases(h, j) ==
    {h} \cup IF h.lease[j] = NoLease THEN {} ELSE {Adopt(h, j), Unwatch(h, j)}

\* The yield of an await: the generation names the answer waited for, and a
\* background task that is no initialization gets a new deadline.
Suspend(h, j, kind) ==
    [h EXCEPT !.gen[j] = @ + 1,
              !.late = IF j \in Loops THEN @ \ {j} ELSE @,
              !.reset = IF j \in Loops THEN @ \cup {j} ELSE @,
              !.wake = IF kind = "sleep" THEN @ \cup {j} ELSE @,
              !.calls = IF kind = "sleep" THEN @
                        ELSE @ \cup {[job |-> j, gen |-> h.gen[j] + 1,
                                      watch |-> kind = "watch", said |-> <<>>]}]

\* The host call after the yield; it may throw although it kept the callback,
\* which ends the task as internal.
Await(h, j) ==
    LET waiting == {Suspend(h, j, kind) : kind \in {"call", "watch", "sleep"}}
    IN  waiting
        \cup IF h.faults = MaxFaults THEN {}
             ELSE {[Finish(Suspend(h, j, kind), j, "internal") EXCEPT !.faults = @ + 1]
                      : kind \in {"call", "watch"}}

AdvanceMutant(h, j) ==
    IF j \in h.late THEN {Finish(x, j, "timeout") : x \in Leases(h, j)}
    ELSE UNION {{Finish(x, j, "ok"), Finish(x, j, "internal")}
                    \cup IF x.gen[j] = MaxAwaits[j] THEN {} ELSE Await(x, j) : x \in Leases(h, j)}

\* advance: a task whose transaction is no longer live never runs; one whose
\* deadline passed is over whatever its script did; otherwise the script
\* returns, fails or awaits.
Advance(h, j) ==
    IF j \in h.revoked THEN {Finish(h, j, "rejected")}
    ELSE IF j \in h.late THEN {Finish(x, j, "timeout") : x \in Leases(h, j)}
    ELSE UNION {{Finish(x, j, "ok"), Finish(x, j, "internal")}
                    \cup IF x.gen[j] = MaxAwaits[j] THEN {} ELSE Await(x, j) : x \in Leases(h, j)}

----------------------------------------------------------------------------
Init ==
    g = [queue |-> Starts, arrived |-> Starts,
         st |-> [j \in AllJobs |-> IF j \in Range(Starts) THEN "queued" ELSE "new"],
         answers |-> [j \in AllJobs |-> <<>>],
         gen |-> [j \in AllJobs |-> 0], lease |-> [j \in AllJobs |-> NoLease],
         wake |-> {}, ready |-> {}, late |-> {}, reset |-> {}, revoked |-> {},
         busy |-> {}, resumes |-> <<>>, bytes |-> 0,
         calls |-> {}, subs |-> {}, kept |-> {}, serial |-> 0,
         pending |-> Cardinality(Critical), failed |-> FALSE,
         polling |-> FALSE, work |-> 0, stopping |-> FALSE, stopped |-> FALSE, faults |-> 0]

\* The handler bound to a route, called by the host outside and inside poll.
Enqueue(j) ==
    /\ g.st[j] = "new" /\ j \in Requests
    /\ g' = IF g.stopped THEN Reply(g, j, "disconnected")
            ELSE IF Len(g.queue) >= MaxQueued THEN Reply(g, j, "overloaded")
            ELSE [g EXCEPT !.queue = Append(@, j), !.arrived = Append(@, j), !.st[j] = "queued"]

\* The host answers an await, a call with `size` bytes; `again` keeps the
\* callback for a repetition.
Answer(c, granted, size, again) ==
    /\ c \in g.calls
    /\ again => g.faults < MaxFaults
    /\ LET first == IF ~c.watch THEN Complete(g, c.job, c.gen, size)
                    ELSE IF c.said # <<>> THEN WatchedAgain(g, c)
                    ELSE IF granted THEN Watched(g, c)
                    ELSE Complete(g, c.job, c.gen, 0)
           repeat == IF c.watch /\ c.said = <<>>
                     THEN [c EXCEPT !.said = <<IF granted THEN NewSub(g) ELSE NoLease>>] ELSE c
       IN  g' = [first EXCEPT !.calls = (@ \ {c}) \cup IF again THEN {repeat} ELSE {},
                              !.faults = IF again THEN @ + 1 ELSE @]

\* The deadline of a job passes; deadlines are set in the order of arrival,
\* until a background task renews its own.
Expire(j) ==
    /\ g.st[j] \in {"queued", "suspended"} /\ j \notin g.late
    /\ j \in g.reset \/ \A a, b \in DOMAIN g.arrived :
          (a < b /\ g.arrived[b] = j) =>
              \/ g.st[g.arrived[a]] = "done"
              \/ g.arrived[a] \in g.late \cup g.reset
    /\ g' = [g EXCEPT !.late = @ \cup {j}]

\* The host ends the transaction a request runs in (identity.live).
Revoke(j) ==
    /\ j \in Requests \ g.revoked /\ Box[j] # NoBox
    /\ g.st[j] \in {"queued", "suspended"} /\ g.faults < MaxFaults
    /\ g' = [g EXCEPT !.revoked = @ \cup {j}, !.faults = @ + 1]

\* The script disposes of an object, or the collector does.
Dispose(s) ==
    /\ s \in g.kept
    /\ g' = [g EXCEPT !.kept = @ \ {s}, !.subs = @ \ {s}]

Suspended == {j \in AllJobs : g.st[j] = "suspended"}

ExpireTasksMutant(h) == h

\* Suspended tasks past their deadline end (1981-1983).
ExpireTasks(h) == FinishAll(h, h.late, "timeout")

\* Queued jobs at the front past their deadline are answered (1976-1980).
ExpireQueue(h) ==
    LET fresh == {i \in DOMAIN h.queue : h.queue[i] \notin h.late}
        n == IF fresh = {} THEN Len(h.queue) ELSE Min(fresh) - 1
    IN  FoldLeft(LAMBDA x, j : Reply(x, j, "timeout"),
                 [h EXCEPT !.queue = SubSeq(@, n + 1, Len(@))], SubSeq(h.queue, 1, n))

\* The sleepers whose time has come are queued, in the order of the task map.
Wake(h, order) ==
    [h EXCEPT !.wake = @ \ Range(order), !.ready = @ \cup Range(order),
              !.resumes = @ \o [i \in DOMAIN order |->
                              [job |-> order[i], gen |-> h.gen[order[i]], size |-> 0]]]

\* poll up to its loop: revoked tasks end, sleepers wake, deadlines apply.
BeginPoll ==
    /\ ~g.stopped /\ ~g.polling
    /\ LET clean == FinishAll(g, g.revoked, "rejected")
       IN  \E woken \in SUBSET clean.wake : \E order \in SetToSeqs(woken) :
              g' = [ExpireTasks(ExpireQueue(Wake(clean, order)))
                       EXCEPT !.polling = TRUE, !.work = 0]

Working == g.polling /\ ~g.stopping /\ g.work < WorkLimit

\* One resume of poll's loop; the completion of a task that ended is dropped
\* without counting as work; the values may not fit in the VM.
ResumeTask ==
    /\ Working /\ g.resumes # <<>>
    /\ LET r == Head(g.resumes)
           popped == [g EXCEPT !.resumes = Tail(@), !.bytes = @ - r.size]
           running == [popped EXCEPT !.ready = @ \ {r.job}, !.work = @ + 1]
       IN  IF g.st[r.job] # "suspended" THEN g' = popped
           ELSE g' \in Advance(running, r.job) \cup {Finish(running, r.job, "overloaded")}

\* A queued job may start when its mailbox is free.
Eligible(i) == Box[g.queue[i]] \notin g.busy

\* The index poll picks: the first eligible job.
FirstEligible == Min({i \in DOMAIN g.queue : Eligible(i)})

CanStart ==
    /\ g.resumes = <<>> /\ Cardinality(Suspended) < MaxActive
    /\ \E i \in DOMAIN g.queue : Eligible(i)

\* One start of poll's loop: the first eligible job becomes a coroutine and
\* runs to its first await, unless the VM has no room for it.
StartTask ==
    /\ Working /\ CanStart
    /\ LET j == g.queue[FirstEligible]
           taken == [g EXCEPT !.queue = RemoveAt(@, FirstEligible), !.work = @ + 1]
           running == [taken EXCEPT !.st[j] = "suspended",
                                    !.busy = @ \cup ({Box[j]} \ {NoBox})]
       IN  g' \in Advance(running, j) \cup {Reply(taken, j, "overloaded")}

\* The end of poll; a stop requested meanwhile happens now.
EndPoll ==
    /\ g.polling
    /\ ~(Working /\ (g.resumes # <<>> \/ CanStart))
    /\ g' = IF g.stopping THEN StopAll(g) ELSE [g EXCEPT !.polling = FALSE, !.work = 0]

\* LuaEngine::stop, deferred while poll runs.
Stop ==
    /\ ~g.stopped /\ ~g.stopping
    /\ g' = IF g.polling THEN [g EXCEPT !.stopping = TRUE] ELSE StopAll(g)

Next ==
    \/ \E j \in Requests : Enqueue(j) \/ Revoke(j)
    \/ \E j \in AllJobs : Expire(j)
    \/ \E c \in g.calls, granted, again \in BOOLEAN, size \in 0..MaxBytes :
          Answer(c, granted, size, again)
    \/ \E s \in g.kept : Dispose(s)
    \/ BeginPoll \/ ResumeTask \/ StartTask \/ EndPoll \/ Stop

Spec == Init /\ [][Next]_vars

\* The owner polls for ever, a poll's loop runs on, and time passes.
Fairness ==
    /\ WF_vars(BeginPoll) /\ WF_vars(ResumeTask)
    /\ WF_vars(StartTask) /\ WF_vars(EndPoll)
    /\ \A j \in AllJobs : WF_vars(Expire(j))

FairSpec == Spec /\ Fairness

----------------------------------------------------------------------------
\* Every job is answered once, when it ends, and the limits of the queue and
\* of the coroutines hold (handler 1917, poll 1998).
TypeOK ==
    /\ g.st \in [AllJobs -> {"new", "queued", "suspended", "done"}]
    /\ \A j \in AllJobs : Len(g.answers[j]) = IF g.st[j] = "done" THEN 1 ELSE 0
    /\ Range(g.queue) = {j \in AllJobs : g.st[j] = "queued"}
    /\ Len(g.queue) <= MaxQueued /\ Cardinality(Suspended) <= MaxActive
    /\ g.wake \cup g.ready \subseteq Suspended /\ g.wake \cap g.ready = {}
    /\ g.pending \in Nat /\ g.bytes \in Nat

\* An entity is served in the order of arrival, one job at a time: while one
\* of its jobs is under way, every earlier one has been answered, and the
\* mailbox is marked busy for exactly that long (busy, poll's find_if).
MailboxInOrder ==
    /\ g.busy = {Box[j] : j \in Suspended} \ {NoBox}
    /\ \A a, b \in DOMAIN g.arrived :
          (a < b /\ Box[g.arrived[a]] = Box[g.arrived[b]] /\ Box[g.arrived[b]] # NoBox
             /\ g.arrived[b] \in Suspended) => g.st[g.arrived[a]] = "done"

\* A coroutine is resumed with the answer it waits for: the resumes of the
\* tasks still there carry their current generation, one each, and the bytes
\* charged for queued answers are theirs and within the limit (1802-1814).
ResumesMatch ==
    LET waiting == SelectSeq(g.resumes, LAMBDA r : g.st[r.job] = "suspended")
    IN  /\ \A i \in DOMAIN waiting : waiting[i].gen = g.gen[waiting[i].job]
        /\ IsInjective([i \in DOMAIN waiting |-> waiting[i].job])
        /\ {waiting[i].job : i \in DOMAIN waiting} = g.ready
        /\ g.bytes = FoldLeft(LAMBDA x, r : x + r.size, 0, g.resumes)
        /\ g.bytes <= MaxBytes

\* Every watch the host holds for the engine is leased by one running task or
\* owned by a script object, and what a task or an object holds is alive:
\* none is leaked by a task that ends, and none is closed under its object.
NoLeakedWatch ==
    /\ g.subs = g.kept \cup ({g.lease[j] : j \in Suspended} \ {NoLease})
    /\ \A j \in AllJobs : g.lease[j] \notin g.kept
    /\ g.stopped => g.subs = {}

\* startup_complete (2032) says true only when every critical start task
\* returned ok.
StartupTruth ==
    (~g.stopped /\ ~g.failed /\ g.pending = 0) =>
        \A j \in Critical : g.answers[j] = <<TRUE>>

\* A request whose transaction the host has ended takes no further step of
\* its script: it neither awaits anything new nor answers ok (1777, 1971).
RevokedIsSilent ==
    [][\A j \in g.revoked : /\ g'.gen[j] = g.gen[j]
                            /\ g.st[j] # "done" => g'.answers[j] # <<TRUE>>]_vars

\* Every job that is queued or under way is answered, whatever the host does,
\* as long as poll is called and time passes.
Answered ==
    \A j \in AllJobs : []<>(g.st[j] \in {"new", "done"})
=============================================================================
