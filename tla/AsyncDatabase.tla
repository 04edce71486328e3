--------------------------- MODULE AsyncDatabase ---------------------------
(***************************************************************************)
(* The storage executor: one worker thread runs the operations that the    *)
(* owning thread submits, and the owning thread receives the completions   *)
(* when it polls.  The jobs move from queued through active to completed;  *)
(* stop() ends the worker after the queue is drained, or cancels the queue *)
(* and appends the cancelled jobs behind the one that still ran.           *)
(*                                                                         *)
(* A step of the owning thread or the worker is what it does under one     *)
(* lock of the mutex.  submit(), poll() and stop() are called on the       *)
(* owning thread, the last two also from a completion that poll() runs.    *)
(* A submit() that returns false changes nothing and is left out.          *)
(***************************************************************************)
EXTENDS Integers, Sequences, FiniteSets, Functions

CONSTANTS
    Jobs,       \* what may be submitted, each at most once
    Bytes,      \* the bytes a job is charged with
    JobLimit,   \* limits.jobs
    ByteLimit,  \* limits.bytes
    Budget      \* the argument of poll()

ASSUME LimitAssumption ==
    /\ JobLimit \in Nat \ {0} /\ ByteLimit \in Nat \ {0} /\ Budget \in Nat
    /\ Bytes \in [Jobs -> Nat] /\ IsFiniteSet(Jobs)

VARIABLES
    queued, active, completed, abandoned,  \* the lists of Jobs
    count, bytes,    \* the capacity in use
    stopped,
    worker,          \* where the worker thread is
    joined,          \* worker.join() has returned
    closing,         \* where the owning thread is in stop(), or "no"
    polling, work,   \* the owning thread is in poll(), after work completions
    error,           \* Job::error
    admitted,        \* history: the accepted jobs, in order
    executed,        \* history: the operations that ran, in order
    delivered        \* history: the completions that ran, in order

queues == <<queued, active, completed, abandoned>>
capacity == <<count, bytes>>
owner == <<closing, polling, work, joined>>
history == <<admitted, executed, delivered>>
vars == <<queues, capacity, stopped, worker, owner, error, history>>

Init ==
    /\ queued = <<>> /\ active = <<>> /\ completed = <<>> /\ abandoned = <<>>
    /\ count = 0 /\ bytes = 0
    /\ stopped = FALSE /\ worker = "check" /\ joined = FALSE
    /\ closing = "no" /\ polling = FALSE /\ work = 0
    /\ error = [j \in Jobs |-> "none"]
    /\ admitted = <<>> /\ executed = <<>> /\ delivered = <<>>
-----------------------------------------------------------------------------
\* ready.notify_one(): it wakes the worker only if it waits already.
NotifiedMutant == worker
Notified == IF worker = "wait" THEN "check" ELSE worker

\* The owning thread runs code of the application: outside of the executor, or
\* in a completion.
Free == closing = "no" /\ (polling => work > 0)

Fits(j) == ~stopped /\ count < JobLimit /\ Bytes[j] <= ByteLimit - bytes

\* submit() accepts the job.
Submit(j) ==
    /\ Free /\ j \notin Range(admitted)
    /\ Fits(j)
    /\ queued' = Append(queued, j)
    /\ count' = count + 1 /\ bytes' = bytes + Bytes[j]
    /\ worker' = Notified
    /\ admitted' = Append(admitted, j)
    /\ UNCHANGED <<active, completed, abandoned, stopped, owner, error, executed, delivered>>

\* poll() from the top; a recursive poll() throws and changes nothing.
PollBegin ==
    /\ closing = "no" /\ ~polling
    /\ polling' = TRUE /\ work' = 0
    /\ UNCHANGED <<queues, capacity, stopped, worker, closing, joined, error, history>>

\* The first completion leaves the list with its capacity, and runs.
PollOne ==
    /\ closing = "no" /\ polling /\ work < Budget /\ completed # <<>>
    /\ completed' = Tail(completed)
    /\ count' = count - 1 /\ bytes' = bytes - Bytes[Head(completed)]
    /\ work' = work + 1
    /\ delivered' = Append(delivered, Head(completed))
    /\ UNCHANGED <<queued, active, abandoned, stopped, worker, closing, polling, joined,
                   error, admitted, executed>>

\* poll() returns, or a completion throws; Reset clears the flag either way.
PollEnd ==
    /\ closing = "no" /\ polling
    /\ work > 0 \/ work >= Budget \/ completed = <<>>
    /\ polling' = FALSE /\ work' = 0
    /\ UNCHANGED <<queues, capacity, stopped, worker, closing, joined, error, history>>

Poll == PollBegin \/ PollOne \/ PollEnd

Modes == {"drain", "cancel_queued"}
Kept(mode) == IF mode = "cancel_queued" THEN <<>> ELSE queued

\* stop(), its first critical section.
Stop(mode) ==
    /\ Free
    /\ stopped' = TRUE
    /\ abandoned' = IF mode = "cancel_queued" THEN queued ELSE <<>>
    /\ queued' = Kept(mode)
    /\ closing' = "notify"
    /\ UNCHANGED <<active, completed, capacity, worker, polling, work, joined, error, history>>

CancelledMutant == Range(abandoned) \cup Range(active)
Cancelled == Range(abandoned)

StopNotify ==
    /\ closing = "notify"
    /\ error' = [j \in Jobs |-> IF j \in Cancelled THEN "cancelled" ELSE error[j]]
    /\ worker' = Notified
    /\ closing' = "join"
    /\ UNCHANGED <<queues, capacity, stopped, polling, work, joined, history>>

\* if (worker.joinable()) worker.join();
JoinedMutant == TRUE
Joined == joined \/ worker = "exited"

\* After the join the cancelled jobs follow the one that was active.
StopJoin ==
    /\ closing = "join" /\ Joined
    /\ joined' = TRUE
    /\ completed' = completed \o abandoned /\ abandoned' = <<>>
    /\ closing' = "no"
    /\ UNCHANGED <<queued, active, capacity, stopped, worker, polling, work, error, history>>
-----------------------------------------------------------------------------
\* The predicate of ready.wait().
Ready == stopped \/ queued # <<>>

WorkerWait ==
    /\ worker = "check" /\ ~Ready
    /\ worker' = "wait"
    /\ UNCHANGED <<queues, capacity, stopped, owner, error, history>>

\* A condition variable may wake without a notification.
WorkerWake ==
    /\ worker = "wait"
    /\ worker' = "check"
    /\ UNCHANGED <<queues, capacity, stopped, owner, error, history>>

WorkerExit ==
    /\ worker = "check" /\ Ready /\ queued = <<>>
    /\ worker' = "exited"
    /\ UNCHANGED <<queues, capacity, stopped, owner, error, history>>

WorkerTake ==
    /\ worker = "check" /\ Ready /\ queued # <<>>
    /\ active' = <<Head(queued)>> /\ queued' = Tail(queued)
    /\ worker' = "run"
    /\ UNCHANGED <<completed, abandoned, capacity, stopped, owner, error, history>>

\* The operation runs, outside of the mutex, and returns or throws.
WorkerRun ==
    /\ worker = "run"
    /\ \E e \in {"ok", "failed"} : error' = [error EXCEPT ![active[1]] = e]
    /\ executed' = executed \o active
    /\ worker' = "ran"
    /\ UNCHANGED <<queues, capacity, stopped, owner, admitted, delivered>>

WorkerHandOver ==
    /\ worker = "ran"
    /\ completed' = completed \o active /\ active' = <<>>
    /\ worker' = "check"
    /\ UNCHANGED <<queued, abandoned, capacity, stopped, owner, error, history>>

Worker == WorkerWait \/ WorkerExit \/ WorkerTake \/ WorkerRun \/ WorkerHandOver

Next ==
    \/ \E j \in Jobs : Submit(j)
    \/ Poll
    \/ \E mode \in Modes : Stop(mode)
    \/ StopNotify \/ StopJoin
    \/ Worker \/ WorkerWake

Spec == Init /\ [][Next]_vars

\* The worker thread runs and its operations return, stop() runs on, and the
\* owning thread polls again and again, between whatever else it does; no wakeup
\* without a notification is counted on.
Fairness ==
    /\ WF_vars(Worker) /\ WF_vars(StopNotify) /\ WF_vars(StopJoin)
    /\ SF_vars(Poll)

FairSpec == Spec /\ Fairness
-----------------------------------------------------------------------------
\* Every variable has its type, and the worker owns one job exactly while it runs
\* or hands it over.
TypeOK ==
    /\ {queued, active, completed, abandoned, admitted, executed, delivered} \subseteq Seq(Jobs)
    /\ count \in Int /\ bytes \in Int /\ work \in Nat
    /\ {stopped, joined, polling} \subseteq BOOLEAN
    /\ worker \in {"check", "wait", "run", "ran", "exited"}
    /\ closing \in {"no", "notify", "join"}
    /\ error \in [Jobs -> {"none", "ok", "failed", "cancelled"}]
    /\ Len(active) = IF worker \in {"run", "ran"} THEN 1 ELSE 0

\* No accepted job is lost, duplicated or overtaken, whatever stop() meets: the
\* completions that ran, the finished jobs, the active one, the cancelled ones and
\* the queue are, in this order, what submit() accepted.
AdmissionOrder ==
    delivered \o (completed \o (active \o (abandoned \o queued))) = admitted

\* The jobs that hold capacity.
Retained == Range(queued) \cup Range(active) \cup Range(completed) \cup Range(abandoned)

\* The bytes of a set of jobs, as the number of pairs of a job and one of its bytes.
Charge(S) == Cardinality({p \in S \X (1..ByteLimit) : p[2] <= Bytes[p[1]]})

\* Capacity is held by exactly the jobs whose completion has not run, never more
\* than the limits allow, so that the unsigned subtractions of submit() and poll()
\* cannot wrap.
CapacityExact ==
    /\ count = Cardinality(Retained) /\ count <= JobLimit
    /\ bytes = Charge(Retained) /\ bytes <= ByteLimit

\* A completion is told the truth: "cancelled before execution" only of an operation
\* that did not run and never will, success or its own failure of one that ran once.
TruthfulCompletion ==
    /\ \A i, k \in DOMAIN executed : executed[i] = executed[k] => i = k
    /\ \A j \in Range(delivered) \cup Range(completed) :
        IF j \in Range(executed) THEN error[j] \in {"ok", "failed"} ELSE error[j] = "cancelled"

\* Capacity is held by exactly the jobs whose completion has not run, and a completion is
\* told the truth about its operation.
ExecutorSafe == TypeOK /\ CapacityExact /\ TruthfulCompletion

\* After stop() has returned no operation runs and none is accepted: what the
\* operations refer to may be destroyed.
QuietAfterStop ==
    [][joined => executed' = executed /\ admitted' = admitted]_vars

\* Every accepted job is completed on the owning thread: no notification is lost, and
\* cancellation keeps the completions.
Delivered ==
    \A j \in Jobs : []<>(j \in Range(admitted) => j \in Range(delivered))

\* stop() returns: the worker that it joins sees stopped and leaves.
StopReturns == []<>(closing = "no")
=============================================================================
