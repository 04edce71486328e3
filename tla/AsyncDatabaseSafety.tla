------------------------ MODULE AsyncDatabaseSafety ------------------------
(***************************************************************************)
(* Proofs about AsyncDatabase: for any jobs and limits, no accepted job is *)
(* lost, duplicated or overtaken, nothing runs after stop() returned, the  *)
(* counters count what is unfinished, and a completion is told the truth.  *)
(***************************************************************************)
EXTENDS AsyncDatabase, SequenceTheorems, FiniteSetTheorems, TLAPS

\* The lists are lists of jobs, and the worker holds a job exactly while it runs.
Lists ==
    /\ queued \in Seq(Jobs) /\ active \in Seq(Jobs) /\ completed \in Seq(Jobs)
    /\ abandoned \in Seq(Jobs) /\ admitted \in Seq(Jobs) /\ delivered \in Seq(Jobs)
    /\ worker \in {"check", "wait", "run", "ran", "exited"}
    /\ worker \notin {"run", "ran"} => active = <<>>

\* The worker leaves only after a stop that left nothing queued, and is joined
\* only then; cancelled jobs are set aside only during stop(), with an empty queue.
Closed ==
    /\ worker = "exited" => stopped /\ queued = <<>>
    /\ joined => worker = "exited"
    /\ closing # "no" => stopped
    /\ abandoned # <<>> => queued = <<>> /\ closing # "no"

AInv == Lists /\ Closed /\ AdmissionOrder

\* The executor starts with empty lists.
LEMMA AInvInit == Init => AInv
<1> SUFFICES ASSUME Init PROVE AInv
    OBVIOUS
<1>1. Lists
    BY EmptySeq DEF Init, Lists
<1>2. Closed
    BY DEF Init, Closed
<1>3. <<>> \o <<>> = <<>>
    BY ConcatEmptySeq, EmptySeq
<1>4. AdmissionOrder
    BY <1>3 DEF Init, AdmissionOrder
<1> QED BY <1>1, <1>2, <1>4 DEF AInv

\* The lists in order, as one.
All(d, c, a, b, q) == d \o (c \o (a \o (b \o q)))

\* Two lists in a row are a list.
LEMMA Joins ==
    ASSUME NEW s \in Seq(Jobs), NEW t \in Seq(Jobs)
    PROVE  s \o t \in Seq(Jobs)
    BY ConcatProperties, Zenon

\* A list is its first job and the others.
LEMMA Singles ==
    ASSUME NEW s \in Seq(Jobs), s # <<>>
    PROVE  /\ Head(s) \in Jobs /\ Tail(s) \in Seq(Jobs) /\ <<Head(s)>> \in Seq(Jobs)
           /\ <<Head(s)>> \o Tail(s) = s
<1>1. Head(s) \in Jobs /\ Tail(s) \in Seq(Jobs)
    BY HeadTailProperties
<1>2. <<Head(s)>> \o Tail(s) = s
    OBVIOUS
<1> QED BY <1>1, <1>2

\* A job that enters the queue follows all the others.
LEMMA MoveIn ==
    \A h \in Seq(Jobs) : \A d, c, a, b, q \in Seq(Jobs) :
        All(d, c, a, b, q \o h) = All(d, c, a, b, q) \o h
<1> TAKE h \in Seq(Jobs)
<1> TAKE d, c, a, b, q \in Seq(Jobs)
<1> DEFINE x == b \o q
           y == a \o x
           z == c \o y
<1>x. x \in Seq(Jobs)
    BY Joins, Zenon
<1>y. y \in Seq(Jobs)
    BY <1>x, Joins, Zenon
<1>z. z \in Seq(Jobs)
    BY <1>y, Joins, Zenon
<1>1. x \o h = b \o (q \o h)
    BY SMTT(30)
<1>2. y \o h = a \o (x \o h)
    <2> HIDE DEF x
    <2> QED BY <1>x, SMTT(30)
<1>3. z \o h = c \o (y \o h)
    <2> HIDE DEF y
    <2> QED BY <1>y, SMTT(30)
<1>4. (d \o z) \o h = d \o (z \o h)
    <2> HIDE DEF z
    <2> QED BY <1>z, SMTT(30)
<1>5. d \o (c \o (a \o (b \o (q \o h)))) = (d \o z) \o h
    BY <1>1, <1>2, <1>3, <1>4, Zenon
<1> QED BY <1>5, Zenon DEF All

\* The first finished job becomes the last delivered one.
LEMMA MoveOut ==
    ASSUME NEW d \in Seq(Jobs), NEW c \in Seq(Jobs), NEW a \in Seq(Jobs), NEW b \in Seq(Jobs),
           NEW q \in Seq(Jobs), c # <<>>
    PROVE  All(Append(d, Head(c)), Tail(c), a, b, q) = All(d, c, a, b, q)
<1> DEFINE r == a \o (b \o q)
           h == <<Head(c)>>
<1>1. b \o q \in Seq(Jobs)
    BY Joins, Zenon
<1>2. r \in Seq(Jobs)
    BY <1>1, Joins, Zenon
<1>3. Head(c) \in Jobs /\ h \in Seq(Jobs) /\ Tail(c) \in Seq(Jobs) /\ h \o Tail(c) = c
    BY Singles, Zenon
<1>4. Append(d, Head(c)) = d \o h
    BY <1>3, AppendIsConcat, Zenon
<1> HIDE DEF r, h
<1>t. Tail(c) \o r \in Seq(Jobs)
    BY <1>2, <1>3, Joins, Zenon
<1>5. (d \o h) \o (Tail(c) \o r) = d \o (h \o (Tail(c) \o r))
    BY <1>t, <1>3, SMTT(30)
<1>6. (h \o Tail(c)) \o r = h \o (Tail(c) \o r)
    BY <1>2, <1>3, SMTT(30)
<1>7. Append(d, Head(c)) \o (Tail(c) \o r) = d \o (c \o r)
    BY <1>3, <1>4, <1>5, <1>6, Zenon
<1> QED BY <1>7, Zenon DEF All, r

\* The first queued job becomes the active one.
LEMMA MoveTake ==
    ASSUME NEW d, NEW c, NEW q \in Seq(Jobs), q # <<>>
    PROVE  All(d, c, <<Head(q)>>, <<>>, Tail(q)) = All(d, c, <<>>, <<>>, q)
<1>1. Tail(q) \in Seq(Jobs) /\ <<Head(q)>> \o Tail(q) = q
    BY Singles, Zenon
<1>2. <<>> \o q = q /\ <<>> \o Tail(q) = Tail(q)
    BY <1>1, ConcatEmptySeq, Zenon
<1> QED BY <1>1, <1>2, Zenon DEF All

\* The cancelled jobs follow the finished ones when there is no active one.
LEMMA MoveCancelled ==
    ASSUME NEW d, NEW c \in Seq(Jobs), NEW b \in Seq(Jobs), NEW q \in Seq(Jobs)
    PROVE  All(d, c \o b, <<>>, <<>>, q) = All(d, c, <<>>, b, q)
<1>1. (c \o b) \o q = c \o (b \o q)
    BY SMTT(30)
<1>2. b \o q \in Seq(Jobs)
    BY Joins, Zenon
<1>3. <<>> \o q = q
    BY ConcatEmptySeq, Zenon
<1>4. <<>> \o (b \o q) = b \o q
    BY <1>2, ConcatEmptySeq, Zenon
<1> QED BY <1>1, <1>3, <1>4, Zenon DEF All

\* The active job becomes the last finished one.
LEMMA MoveDone ==
    ASSUME NEW d, NEW c \in Seq(Jobs), NEW a \in Seq(Jobs), NEW b \in Seq(Jobs), NEW q \in Seq(Jobs)
    PROVE  All(d, c \o a, <<>>, b, q) = All(d, c, a, b, q)
<1>1. b \o q \in Seq(Jobs)
    BY Joins, Zenon
<1>2. (c \o a) \o (b \o q) = c \o (a \o (b \o q))
    BY <1>1, SMTT(30)
<1>3. <<>> \o (b \o q) = b \o q
    BY <1>1, ConcatEmptySeq, Zenon
<1> QED BY <1>2, <1>3, Zenon DEF All

\* Every step of the owning thread and the worker moves jobs between lists of jobs.
LEMMA ListsNext == Lists /\ Closed /\ [Next]_vars => Lists'
<1> SUFFICES ASSUME Lists, Closed, [Next]_vars PROVE Lists'
    OBVIOUS
<1> USE DEF Lists
<1>0. \A s, t \in Seq(Jobs) : s \o t \in Seq(Jobs)
    BY ConcatProperties
<1>1. ASSUME NEW j \in Jobs, Submit(j) PROVE Lists'
    BY <1>1 DEF Submit, Notified, owner
<1>2. CASE PollOne
    <2>1. Head(completed) \in Jobs /\ Tail(completed) \in Seq(Jobs)
        BY <1>2, HeadTailProperties DEF PollOne
    <2> QED BY <1>2, <2>1 DEF PollOne
<1>3. CASE PollBegin \/ PollEnd \/ WorkerWait \/ WorkerWake \/ WorkerExit \/ UNCHANGED vars
    BY <1>3 DEF PollBegin, PollEnd, WorkerWait, WorkerWake, WorkerExit, vars, queues, history
<1>4. ASSUME NEW mode \in Modes, Stop(mode) PROVE Lists'
    BY <1>4, EmptySeq DEF Stop, Kept, history
<1>5. CASE StopNotify
    BY <1>5 DEF StopNotify, Notified, queues, history
<1>6. CASE StopJoin
    BY <1>0, <1>6, EmptySeq DEF StopJoin, history
<1>7. CASE WorkerTake
    <2>1. Head(queued) \in Jobs /\ Tail(queued) \in Seq(Jobs)
        BY <1>7, HeadTailProperties DEF WorkerTake
    <2> QED BY <1>7, <2>1 DEF WorkerTake, history
<1>8. CASE WorkerRun
    BY <1>8 DEF WorkerRun, queues
<1>9. CASE WorkerHandOver
    BY <1>0, <1>9, EmptySeq DEF WorkerHandOver, history
<1> QED BY <1>1, <1>2, <1>3, <1>4, <1>5, <1>6, <1>7, <1>8, <1>9 DEF Next, Poll, Worker

\* Every step keeps what stop() relies on: a worker that was joined has left for good.
LEMMA ClosedNext == Lists /\ Closed /\ [Next]_vars => Closed'
<1> SUFFICES ASSUME Lists, Closed, [Next]_vars PROVE Closed'
    OBVIOUS
<1> USE DEF Closed
<1>1. ASSUME NEW j \in Jobs, Submit(j) PROVE Closed'
    BY <1>1 DEF Submit, Fits, Notified, owner, Free
<1>2. CASE PollBegin \/ PollOne \/ PollEnd
    BY <1>2 DEF PollBegin, PollOne, PollEnd, queues
<1>3. ASSUME NEW mode \in Modes, Stop(mode) PROVE Closed'
    BY <1>3 DEF Stop, Kept, Modes
<1>4. CASE StopNotify \/ StopJoin
    BY <1>4 DEF StopNotify, StopJoin, Notified, Joined, queues
<1>5. CASE WorkerWait \/ WorkerWake \/ WorkerExit \/ WorkerRun \/ WorkerHandOver
    BY <1>5 DEF WorkerWait, WorkerWake, WorkerExit, WorkerRun, WorkerHandOver, Ready, queues, owner
<1>6. CASE WorkerTake
    BY <1>6 DEF WorkerTake, owner
<1>7. CASE UNCHANGED vars
    BY <1>7 DEF vars, queues, owner
<1> QED BY <1>1, <1>2, <1>3, <1>4, <1>5, <1>6, <1>7 DEF Next, Poll, Worker

\* Every step keeps the order of admission: jobs move only between neighbouring lists.
LEMMA OrderNext == AInv /\ [Next]_vars => AdmissionOrder'
<1> SUFFICES ASSUME AInv, [Next]_vars PROVE AdmissionOrder'
    OBVIOUS
<1>0. /\ queued \in Seq(Jobs) /\ active \in Seq(Jobs) /\ completed \in Seq(Jobs)
      /\ abandoned \in Seq(Jobs) /\ delivered \in Seq(Jobs) /\ admitted \in Seq(Jobs)
    BY DEF AInv, Lists
<1>b. All(delivered, completed, active, abandoned, queued) = admitted
    BY DEF AInv, AdmissionOrder, All
<1>a. SUFFICES All(delivered', completed', active', abandoned', queued') = admitted'
    BY DEF AdmissionOrder, All
<1>1. ASSUME NEW j \in Jobs, Submit(j)
      PROVE All(delivered', completed', active', abandoned', queued') = admitted'
    <2>1. /\ queued' = Append(queued, j) /\ admitted' = Append(admitted, j)
          /\ active' = active /\ completed' = completed /\ abandoned' = abandoned
          /\ delivered' = delivered
        BY <1>1 DEF Submit
    <2>2. All(delivered, completed, active, abandoned, Append(queued, j))
            = Append(All(delivered, completed, active, abandoned, queued), j)
        <3>0. <<j>> \in Seq(Jobs)
            OBVIOUS
        <3>1. All(delivered, completed, active, abandoned, queued \o <<j>>)
                = All(delivered, completed, active, abandoned, queued) \o <<j>>
            <4> DEFINE h == <<j>>
            <4> HIDE DEF h
            <4>1. h \in Seq(Jobs)
                BY <3>0 DEF h
            <4>2. \A d, c, a, b, q \in Seq(Jobs) : All(d, c, a, b, q \o h) = All(d, c, a, b, q) \o h
                BY <4>1, MoveIn, Zenon
            <4>3. \A a, b, q \in Seq(Jobs) :
                    All(delivered, completed, a, b, q \o h) = All(delivered, completed, a, b, q) \o h
                BY <1>0, <4>2, Zenon
            <4>4. All(delivered, completed, active, abandoned, queued \o h)
                    = All(delivered, completed, active, abandoned, queued) \o h
                BY <1>0, <4>3, Zenon
            <4> QED BY <4>4, Zenon DEF h
        <3>2. Append(queued, j) = queued \o <<j>>
            BY <1>0, AppendIsConcat, Zenon
        <3>3. Append(admitted, j) = admitted \o <<j>>
            BY <1>0, AppendIsConcat, Zenon
        <3> QED BY <1>0, <1>b, <3>1, <3>2, <3>3, Zenon
    <2> QED BY <1>0, <1>b, <2>1, <2>2
<1>2. CASE PollOne
    <2>1. /\ completed # <<>> /\ completed' = Tail(completed)
          /\ delivered' = Append(delivered, Head(completed))
          /\ active' = active /\ queued' = queued /\ abandoned' = abandoned /\ admitted' = admitted
        BY <1>2 DEF PollOne
    <2>2. All(Append(delivered, Head(completed)), Tail(completed), active, abandoned, queued)
            = All(delivered, completed, active, abandoned, queued)
        BY <1>0, <2>1, MoveOut, SMTT(30)
    <2> QED BY <1>0, <1>b, <2>1, <2>2
<1>3. ASSUME NEW mode \in Modes, Stop(mode)
      PROVE All(delivered', completed', active', abandoned', queued') = admitted'
    <2>1. abandoned = <<>>
        BY <1>3 DEF Stop, Free, AInv, Closed
    <2>2. /\ active' = active /\ completed' = completed /\ delivered' = delivered /\ admitted' = admitted
          /\ \/ abandoned' = <<>> /\ queued' = queued
             \/ abandoned' = queued /\ queued' = <<>>
        BY <1>3 DEF Stop, Kept, history
    <2>3. <<>> \o queued = queued \o <<>>
        BY <1>0, ConcatEmptySeq
    <2>4. <<>> \o queued = queued
        BY <1>0, ConcatEmptySeq
    <2> QED BY <1>0, <1>b, <2>1, <2>2, <2>3, <2>4, Zenon DEF All
<1>4. CASE StopJoin
    <2>1. active = <<>>
        BY <1>4 DEF StopJoin, Joined, AInv, Lists, Closed
    <2>2. /\ completed' = completed \o abandoned /\ abandoned' = <<>> /\ active' = active
          /\ queued' = queued /\ delivered' = delivered /\ admitted' = admitted
        BY <1>4 DEF StopJoin, history
    <2>3. All(delivered, completed \o abandoned, <<>>, <<>>, queued)
            = All(delivered, completed, <<>>, abandoned, queued)
        <3>1. \A c, b, q \in Seq(Jobs) :
                All(delivered, c \o b, <<>>, <<>>, q) = All(delivered, c, <<>>, b, q)
            BY MoveCancelled
        <3> QED BY <1>0, <3>1, Zenon
    <2> QED BY <1>0, <1>b, <2>1, <2>2, <2>3
<1>5. CASE WorkerTake
    <2>1. active = <<>> /\ abandoned = <<>> /\ queued # <<>>
        BY <1>5 DEF WorkerTake, AInv, Lists, Closed
    <2>2. /\ active' = <<Head(queued)>> /\ queued' = Tail(queued) /\ completed' = completed
          /\ abandoned' = abandoned /\ delivered' = delivered /\ admitted' = admitted
        BY <1>5 DEF WorkerTake, history
    <2>3. All(delivered, completed, <<Head(queued)>>, <<>>, Tail(queued))
            = All(delivered, completed, <<>>, <<>>, queued)
        <3>1. queued \in Seq(Jobs) /\ queued # <<>>
            BY <1>0, <2>1
        <3> QED BY <3>1, MoveTake, Zenon
    <2> QED BY <1>0, <1>b, <2>1, <2>2, <2>3
<1>6. CASE WorkerHandOver
    <2>1. /\ completed' = completed \o active /\ active' = <<>> /\ queued' = queued
          /\ abandoned' = abandoned /\ delivered' = delivered /\ admitted' = admitted
        BY <1>6 DEF WorkerHandOver, history
    <2>2. All(delivered, completed \o active, <<>>, abandoned, queued)
            = All(delivered, completed, active, abandoned, queued)
        BY <1>0, MoveDone, SMTT(30)
    <2> QED BY <1>0, <1>b, <2>1, <2>2
<1>7. CASE UNCHANGED <<queues, admitted, delivered>>
    <2>1. /\ queued' = queued /\ active' = active /\ completed' = completed /\ abandoned' = abandoned
          /\ admitted' = admitted /\ delivered' = delivered
        BY <1>7 DEF queues
    <2> QED BY <1>0, <1>b, <2>1, Zenon
<1> QED
    BY <1>1, <1>2, <1>3, <1>4, <1>5, <1>6, <1>7
    DEF Next, Poll, Worker, PollBegin, PollEnd, StopNotify, WorkerWait, WorkerWake, WorkerExit,
        WorkerRun, vars, history

\* No accepted job is lost, duplicated or overtaken on its way through the
\* executor, whatever order submit, poll, stop and the worker run in.
THEOREM KeepsOrder == Spec => []AdmissionOrder
<1>1. AInv /\ [Next]_vars => AInv'
    BY ListsNext, ClosedNext, OrderNext DEF AInv
<1>2. AInv => AdmissionOrder
    BY DEF AInv
<1> QED BY <1>1, <1>2, AInvInit, PTL DEF Spec

\* Once stop() has joined the worker no operation runs and no job is accepted.
THEOREM QuietOnceStopped == Spec => QuietAfterStop
<1>1. AInv /\ [Next]_vars => AInv'
    BY ListsNext, ClosedNext, OrderNext DEF AInv
<1>2. AInv /\ [Next]_vars => [joined => executed' = executed /\ admitted' = admitted]_vars
    <2> SUFFICES ASSUME Closed, Next, joined PROVE executed' = executed /\ admitted' = admitted
        BY DEF AInv
    <2>1. worker = "exited" /\ stopped
        BY DEF Closed
    <2>2. \A j \in Jobs : ~Submit(j)
        BY <2>1 DEF Submit, Fits
    <2>3. ~WorkerTake /\ ~WorkerRun
        BY <2>1 DEF WorkerTake, WorkerRun
    <2> QED
        BY <2>2, <2>3 DEF Next, Poll, PollBegin, PollOne, PollEnd, Stop, StopNotify, StopJoin, Worker,
            WorkerWait, WorkerWake, WorkerExit, WorkerHandOver, history
<1> QED BY <1>1, <1>2, AInvInit, PTL DEF Spec, QuietAfterStop
-----------------------------------------------------------------------------
\* The time each prover gets for one obligation, in seconds.
USE SMTT(30), ZenonT(30)

(***************************************************************************)
(* Capacity and completions: the counters count exactly the jobs whose     *)
(* completion has not run, and a completion is told the truth.             *)
(***************************************************************************)
\* The accepted jobs whose completion has not run.
Unfinished == Range(admitted) \ Range(delivered)

\* The counters are those of the unfinished jobs, and each of them fits on its own.
CapInv ==
    /\ count = Cardinality(Unfinished) /\ count <= JobLimit
    /\ bytes = Charge(Unfinished) /\ bytes <= ByteLimit
    /\ \A j \in Range(admitted) : Bytes[j] <= ByteLimit

\* An operation that ran is the active one or has a completion, and its error is its own;
\* what is completed without having run was cancelled, and what stop() sets aside is
\* marked as cancelled before it is completed.
ToldInv ==
    /\ IsInjective(executed)
    /\ Range(executed) \subseteq Range(delivered) \cup Range(completed) \cup Range(active)
    /\ worker = "run" => Range(active) \cap Range(executed) = {}
    /\ worker = "ran" => Range(active) \subseteq Range(executed)
    /\ \A j \in Range(executed) : error[j] \in {"ok", "failed"}
    /\ \A j \in Range(delivered) \cup Range(completed) :
          j \notin Range(executed) => error[j] = "cancelled"
    /\ closing = "join" => \A j \in Range(abandoned) : error[j] = "cancelled"

EInv == AInv /\ TypeOK /\ IsInjective(admitted) /\ CapInv /\ ToldInv

\* The elements of two lists in a row; without repetition, the two share none.
LEMMA ConcatRange ==
    ASSUME NEW s \in Seq(Jobs), NEW t \in Seq(Jobs)
    PROVE  /\ Range(s \o t) = Range(s) \cup Range(t)
           /\ IsInjective(s \o t) =>
                 IsInjective(s) /\ IsInjective(t) /\ Range(s) \cap Range(t) = {}
           /\ IsInjective(s) /\ IsInjective(t) /\ Range(s) \cap Range(t) = {} =>
                 IsInjective(s \o t)
<1> DEFINE u == s \o t
           m == Len(s)
           n == Len(t)
<1>1. /\ m \in Nat /\ n \in Nat /\ DOMAIN s = 1..m /\ DOMAIN t = 1..n
      /\ DOMAIN u = 1..(m + n)
      /\ \A i \in 1..m : u[i] = s[i]
      /\ \A i \in 1..n : u[m + i] = t[i]
  OBVIOUS
<1> HIDE DEF u, m, n
<1>2. \A i \in 1..(m + n) : i \in 1..m \/ \E k \in 1..n : i = m + k
  <2> TAKE i \in 1..(m + n)
  <2>1. CASE i > m
    <3>1. i - m \in 1..n /\ i = m + (i - m)
      BY <1>1, <2>1
    <3> QED BY <3>1
  <2> QED BY <1>1, <2>1
<1>3. (\A i \in 1..m : i \in 1..(m + n)) /\ (\A k \in 1..n : m + k \in 1..(m + n))
  BY <1>1
<1>4. Range(u) = Range(s) \cup Range(t)
  <2>1. ASSUME NEW i \in 1..(m + n) PROVE u[i] \in Range(s) \cup Range(t)
    BY <1>1, <1>2, Zenon DEF Range
  <2>2. ASSUME NEW i \in 1..m PROVE s[i] \in Range(u)
    BY <1>1, <1>3 DEF Range
  <2>3. ASSUME NEW i \in 1..n PROVE t[i] \in Range(u)
    BY <1>1, <1>3 DEF Range
  <2>4. Range(u) \subseteq Range(s) \cup Range(t)
    BY <1>1, <2>1, Zenon DEF Range
  <2>5. Range(s) \subseteq Range(u) /\ Range(t) \subseteq Range(u)
    BY <1>1, <2>2, <2>3, Zenon DEF Range
  <2> QED BY <2>4, <2>5
<1>5. ASSUME IsInjective(u)
      PROVE  IsInjective(s) /\ IsInjective(t) /\ Range(s) \cap Range(t) = {}
  <2>0. \A i, k \in 1..(m + n) : u[i] = u[k] => i = k
    BY <1>1, <1>5, Zenon DEF IsInjective
  <2>1. IsInjective(s)
    BY <1>1, <1>3, <2>0, Zenon DEF IsInjective
  <2>2. \A i, k \in 1..n : t[i] = t[k] => i = k
    <3> TAKE i, k \in 1..n
    <3>1. t[i] = t[k] => m + i = m + k
      BY <1>1, <1>3, <2>0, Zenon
    <3> QED BY <1>1, <3>1
  <2>3. IsInjective(t)
    BY <1>1, <2>2, Zenon DEF IsInjective
  <2>4. \A i \in 1..m : \A k \in 1..n : s[i] # t[k]
    <3> TAKE i \in 1..m
    <3> TAKE k \in 1..n
    <3>1. s[i] = t[k] => i = m + k
      BY <1>1, <1>3, <2>0, Zenon
    <3>2. i # m + k
      BY <1>1
    <3> QED BY <3>1, <3>2
  <2>5. ASSUME NEW x \in Range(s), x \in Range(t) PROVE FALSE
    <3>1. PICK i \in 1..m : x = s[i]
      BY <1>1, Zenon DEF Range
    <3>2. PICK k \in 1..n : x = t[k]
      BY <1>1, <2>5, Zenon DEF Range
    <3> QED BY <2>4, <3>1, <3>2, Zenon
  <2> QED BY <2>1, <2>3, <2>5
<1>6. ASSUME IsInjective(s), IsInjective(t), Range(s) \cap Range(t) = {}
      PROVE  IsInjective(u)
  <2>0. /\ \A i, k \in 1..m : s[i] = s[k] => i = k
        /\ \A i, k \in 1..n : t[i] = t[k] => i = k
    BY <1>1, <1>6, Zenon DEF IsInjective
  <2>1. \A i, k \in 1..m : u[i] = u[k] => i = k
    BY <1>1, <2>0, Zenon
  <2>2. ASSUME NEW i \in 1..n, NEW k \in 1..n, u[m + i] = u[m + k] PROVE m + i = m + k
    <3>1. t[i] = t[k]
      BY <1>1, <2>2, Zenon
    <3> QED BY <2>0, <3>1, Zenon
  <2>3. \A i \in 1..m : \A k \in 1..n : u[i] # u[m + k]
    <3> TAKE i \in 1..m
    <3> TAKE k \in 1..n
    <3>1. s[i] \in Range(s) /\ t[k] \in Range(t)
      BY <1>1, Zenon DEF Range
    <3>2. s[i] # t[k]
      BY <1>6, <3>1
    <3> QED BY <1>1, <3>2, Zenon
  <2>4. \A i, k \in 1..(m + n) : u[i] = u[k] => i = k
    <3> TAKE i, k \in 1..(m + n)
    <3> SUFFICES ASSUME u[i] = u[k] PROVE i = k
      OBVIOUS
    <3>1. CASE i \in 1..m /\ k \in 1..m
      BY <2>1, <3>1, Zenon
    <3>2. CASE i \notin 1..m
      <4>1. PICK p \in 1..n : i = m + p
        BY <1>2, <3>2, Zenon
      <4>2. CASE k \in 1..m
        BY <2>3, <4>1, <4>2, Zenon
      <4>3. CASE k \notin 1..m
        <5>1. PICK q \in 1..n : k = m + q
          BY <1>2, <4>3, Zenon
        <5> QED BY <2>2, <4>1, <5>1, Zenon
      <4> QED BY <4>2, <4>3
    <3>3. CASE i \in 1..m /\ k \notin 1..m
      <4>1. PICK q \in 1..n : k = m + q
        BY <1>2, <3>3, Zenon
      <4> QED BY <2>3, <3>3, <4>1, Zenon
    <3> QED BY <3>1, <3>2, <3>3
  <2> QED BY <1>1, <2>4, Zenon DEF IsInjective
<1> QED BY <1>4, <1>5, <1>6 DEF u

\* The elements of the lists with none and with one.
LEMMA OneRange ==
    /\ Range(<<>>) = {}
    /\ \A j : Range(<<j>>) = {j} /\ IsInjective(<<j>>)
<1>1. Range(<<>>) = {}
  BY DEF Range
<1>2. ASSUME NEW j PROVE Range(<<j>>) = {j} /\ IsInjective(<<j>>)
  <2>1. DOMAIN <<j>> = {1} /\ <<j>>[1] = j
    OBVIOUS
  <2> QED BY <2>1, Zenon DEF Range, IsInjective
<1> QED BY <1>1, <1>2

\* The elements of a list that one more job joins.
LEMMA AppendRange ==
    ASSUME NEW s \in Seq(Jobs), NEW j \in Jobs
    PROVE  /\ Range(Append(s, j)) = Range(s) \cup {j}
           /\ IsInjective(s) /\ j \notin Range(s) => IsInjective(Append(s, j))
<1>1. Append(s, j) = s \o <<j>> /\ <<j>> \in Seq(Jobs)
  BY AppendIsConcat
<1>2. Range(<<j>>) = {j} /\ IsInjective(<<j>>)
  BY OneRange
<1> HIDE DEF Range
<1>3. Range(s \o <<j>>) = Range(s) \cup Range(<<j>>)
  BY <1>1, ConcatRange, Zenon
<1>4. IsInjective(s) /\ j \notin Range(s) => IsInjective(s \o <<j>>)
  <2> SUFFICES ASSUME IsInjective(s), j \notin Range(s) PROVE IsInjective(s \o <<j>>)
    OBVIOUS
  <2>1. Range(s) \cap Range(<<j>>) = {}
    BY <1>2
  <2> QED BY <1>1, <1>2, <2>1, ConcatRange, Zenon
<1> QED BY <1>1, <1>2, <1>3, <1>4, Zenon

\* The elements of a list that its first job leaves.
LEMMA HeadRange ==
    ASSUME NEW s \in Seq(Jobs), s # <<>>
    PROVE  /\ Range(s) = {Head(s)} \cup Range(Tail(s))
           /\ IsInjective(s) => Head(s) \notin Range(Tail(s))
<1>1. /\ Head(s) \in Jobs /\ Tail(s) \in Seq(Jobs) /\ <<Head(s)>> \in Seq(Jobs)
      /\ <<Head(s)>> \o Tail(s) = s
  BY Singles
<1>2. Range(<<Head(s)>>) = {Head(s)}
  BY OneRange
<1> DEFINE u == <<Head(s)>>
           v == Tail(s)
<1>3. u \in Seq(Jobs) /\ v \in Seq(Jobs) /\ u \o v = s /\ Range(u) = {Head(s)}
  BY <1>1, <1>2
<1> HIDE DEF u, v
<1>4. /\ Range(u \o v) = Range(u) \cup Range(v)
      /\ IsInjective(u \o v) => Range(u) \cap Range(v) = {}
  BY <1>3, ConcatRange, Zenon
<1>5. Range(s) = {Head(s)} \cup Range(v) /\ (IsInjective(s) => Head(s) \notin Range(v))
  BY <1>3, <1>4
<1> QED BY <1>5 DEF v

\* The lists through which the jobs pass share none, and hold the unfinished ones.
LEMMA Apart ==
    ASSUME Lists, AdmissionOrder, IsInjective(admitted)
    PROVE  /\ Range(admitted) = Range(delivered) \cup Retained
           /\ Range(delivered) \cap Retained = {}
           /\ IsInjective(completed) /\ IsInjective(queued)
           /\ Range(completed) \cap (Range(active) \cup Range(abandoned) \cup Range(queued)) = {}
           /\ Range(active) \cap (Range(abandoned) \cup Range(queued)) = {}
           /\ Range(abandoned) \cap Range(queued) = {}
<1> DEFINE x == abandoned \o queued
           y == active \o x
           z == completed \o y
<1>1. /\ queued \in Seq(Jobs) /\ active \in Seq(Jobs) /\ completed \in Seq(Jobs)
      /\ abandoned \in Seq(Jobs) /\ delivered \in Seq(Jobs)
  BY DEF Lists
<1>2. x \in Seq(Jobs)
  BY <1>1, Joins, Zenon
<1>3. y \in Seq(Jobs)
  BY <1>1, <1>2, Joins, Zenon
<1>4. z \in Seq(Jobs)
  BY <1>1, <1>3, Joins, Zenon
<1>5. delivered \o z = admitted
  BY DEF AdmissionOrder
<1>6. /\ Range(x) = Range(abandoned) \cup Range(queued)
      /\ IsInjective(x) => IsInjective(queued) /\ Range(abandoned) \cap Range(queued) = {}
  BY <1>1, ConcatRange, Zenon
<1> HIDE DEF x
<1>7. /\ Range(y) = Range(active) \cup Range(x)
      /\ IsInjective(y) => IsInjective(x) /\ Range(active) \cap Range(x) = {}
  BY <1>1, <1>2, ConcatRange, Zenon
<1> HIDE DEF y
<1>8. /\ Range(z) = Range(completed) \cup Range(y)
      /\ IsInjective(z) =>
            IsInjective(completed) /\ IsInjective(y) /\ Range(completed) \cap Range(y) = {}
  BY <1>1, <1>3, ConcatRange, Zenon
<1> HIDE DEF z
<1>9. /\ Range(admitted) = Range(delivered) \cup Range(z)
      /\ IsInjective(z) /\ Range(delivered) \cap Range(z) = {}
  BY <1>1, <1>4, <1>5, ConcatRange, Zenon
<1>10. Range(z) = Retained
  BY <1>6, <1>7, <1>8 DEF Retained
<1> QED BY <1>6, <1>7, <1>8, <1>9, <1>10

\* One more job adds its bytes to the charge.
LEMMA ChargeOne ==
    ASSUME NEW S \in SUBSET Jobs, NEW j \in Jobs \ S, Bytes[j] <= ByteLimit
    PROVE  Charge(S) \in Nat /\ Charge(S \cup {j}) = Charge(S) + Bytes[j]
<1> DEFINE A == {p \in S \X (1..ByteLimit) : p[2] <= Bytes[p[1]]}
           B == {p \in (S \cup {j}) \X (1..ByteLimit) : p[2] <= Bytes[p[1]]}
           T == {j} \X (1..Bytes[j])
<1>0. Bytes[j] \in Nat /\ ByteLimit \in Nat /\ IsFiniteSet(Jobs)
  BY LimitAssumption
<1>1. IsFiniteSet(S) /\ IsFiniteSet(1..ByteLimit)
  BY <1>0, FS_Subset, FS_Interval
<1>2. IsFiniteSet(S \X (1..ByteLimit))
  BY Zenon, <1>1, FS_Product
<1>3. A \in SUBSET (S \X (1..ByteLimit))
  OBVIOUS
<1>4. IsFiniteSet(A)
  BY <1>2, <1>3, FS_Subset, Zenon
<1>5. IsFiniteSet(T) /\ Cardinality(T) = Bytes[j]
  <2>1. IsFiniteSet({j}) /\ Cardinality({j}) = 1
    BY FS_Singleton
  <2>2. IsFiniteSet(1..Bytes[j]) /\ Cardinality(1..Bytes[j]) = Bytes[j]
    <3> DEFINE n == Bytes[j]
    <3>1. n \in Nat
      BY <1>0
    <3> HIDE DEF n
    <3>2. n \in Int /\ 1 \in Int
      BY <3>1
    <3>3. /\ IsFiniteSet(1..n)
          /\ Cardinality(1..n) = IF 1 > n THEN 0 ELSE n - 1 + 1
      BY <3>2, FS_Interval, Zenon
    <3>4. Cardinality(1..n) = n
      BY <3>1, <3>3
    <3> QED BY <3>3, <3>4 DEF n
  <2>3. IsFiniteSet(T) /\ Cardinality(T) = Cardinality({j}) * Cardinality(1..Bytes[j])
    BY <2>1, <2>2, FS_Product, Zenon
  <2> QED BY <1>0, <2>1, <2>2, <2>3
<1>6. B = A \cup T
  <2>1. ASSUME NEW i \in S \cup {j}, NEW n \in 1..ByteLimit, n <= Bytes[i]
        PROVE  <<i, n>> \in A \cup T
    <3>1. CASE i = j
      BY <1>0, <2>1, <3>1
    <3>2. CASE i \in S
      BY <2>1, <3>2
    <3> QED BY <3>1, <3>2
  <2>2. ASSUME NEW n \in 1..Bytes[j] PROVE <<j, n>> \in B
    <3>1. n \in 1..ByteLimit /\ n <= Bytes[j]
      BY <1>0
    <3> QED BY <3>1
  <2>3. A \subseteq B
    OBVIOUS
  <2>4. T \subseteq B
    BY <2>2
  <2>5. B \subseteq A \cup T
    BY <2>1
  <2> QED BY <2>3, <2>4, <2>5
<1>7. A \cap T = {}
  OBVIOUS
<1>8. Charge(S) = Cardinality(A) /\ Charge(S \cup {j}) = Cardinality(B)
  BY DEF Charge
<1> HIDE DEF A, B, T
<1>9. Cardinality(A) \in Nat
  BY <1>4, FS_CardinalityType
<1>10. Cardinality(A \cup T) = Cardinality(A) + Cardinality(T) - Cardinality(A \cap T)
  BY <1>4, <1>5, FS_Union
<1>11. Cardinality(A \cap T) = 0
  BY <1>7, FS_EmptySet
<1> QED BY <1>0, <1>5, <1>6, <1>8, <1>9, <1>10, <1>11

\* A charge is a number.
LEMMA ChargeNat == ASSUME NEW S \in SUBSET Jobs PROVE IsFiniteSet(S) /\ Charge(S) \in Nat
<1> DEFINE A == {p \in S \X (1..ByteLimit) : p[2] <= Bytes[p[1]]}
<1>1. IsFiniteSet(S) /\ IsFiniteSet(1..ByteLimit)
  BY LimitAssumption, FS_Subset, FS_Interval
<1>2. IsFiniteSet(S \X (1..ByteLimit))
  BY Zenon, <1>1, FS_Product
<1>3. A \in SUBSET (S \X (1..ByteLimit))
  OBVIOUS
<1>4. IsFiniteSet(A)
  BY <1>2, <1>3, FS_Subset, Zenon
<1> QED BY <1>1, <1>4, FS_CardinalityType DEF Charge

\* Nothing is charged for no jobs.
LEMMA ChargeNone == Charge({}) = 0
<1>1. {p \in {} \X (1..ByteLimit) : p[2] <= Bytes[p[1]]} = {}
  OBVIOUS
<1> QED BY <1>1, FS_EmptySet DEF Charge

\* Every step keeps the types.
LEMMA ExecutorType == Lists /\ Closed /\ TypeOK /\ [Next]_vars => TypeOK'
<1> SUFFICES ASSUME Lists, Closed, TypeOK, [Next]_vars PROVE TypeOK'
  OBVIOUS
<1>l. Lists'
  BY ListsNext
<1>0. /\ executed \in Seq(Jobs) /\ count \in Int /\ bytes \in Int /\ work \in Nat
      /\ stopped \in BOOLEAN /\ joined \in BOOLEAN /\ polling \in BOOLEAN
      /\ closing \in {"no", "notify", "join"}
      /\ error \in [Jobs -> {"none", "ok", "failed", "cancelled"}]
      /\ Len(active) = IF worker \in {"run", "ran"} THEN 1 ELSE 0
  BY DEF TypeOK
<1> DEFINE Fields == /\ executed' \in Seq(Jobs) /\ count' \in Int /\ bytes' \in Int
                     /\ work' \in Nat /\ closing' \in {"no", "notify", "join"}
                     /\ stopped' \in BOOLEAN /\ joined' \in BOOLEAN /\ polling' \in BOOLEAN
                     /\ error' \in [Jobs -> {"none", "ok", "failed", "cancelled"}]
                     /\ Len(active') = IF worker' \in {"run", "ran"} THEN 1 ELSE 0
<1>1. SUFFICES Fields
  BY <1>l DEF TypeOK, Lists
<1>2. \A j \in Jobs : Bytes[j] \in Nat
  BY LimitAssumption
<1>3. ASSUME NEW j \in Jobs, Submit(j) PROVE Fields
  BY <1>0, <1>2, <1>3 DEF Submit, Notified, owner
<1>4. CASE PollOne
  <2>1. Head(completed) \in Jobs
    BY <1>4, HeadTailProperties DEF PollOne, Lists
  <2> QED BY <1>0, <1>2, <1>4, <2>1 DEF PollOne
<1>5. CASE PollBegin \/ PollEnd \/ UNCHANGED vars
  <2>1. UNCHANGED <<executed, count, bytes, stopped, joined, closing, error, active, worker>>
    BY <1>5 DEF PollBegin, PollEnd, vars, queues, capacity, owner, history
  <2>2. work' = 0 \/ work' = work
    BY <1>5 DEF PollBegin, PollEnd, vars, owner
  <2>3. polling' \in BOOLEAN
    BY <1>0, <1>5, Zenon DEF PollBegin, PollEnd, vars, owner
  <2> QED BY <1>0, <2>1, <2>2, <2>3
<1>6. ASSUME NEW mode \in Modes, Stop(mode) PROVE Fields
  BY <1>0, <1>6 DEF Stop, capacity, history
<1>7. CASE StopNotify
  BY <1>0, <1>7 DEF StopNotify, Notified, queues, capacity, history
<1>8. CASE StopJoin
  BY <1>0, <1>8 DEF StopJoin, capacity, history
<1>9. CASE WorkerWait \/ WorkerWake \/ WorkerExit
  BY <1>0, <1>9 DEF WorkerWait, WorkerWake, WorkerExit, queues, capacity, owner, history
<1>10. CASE WorkerTake
  <2>1. Len(<<Head(queued)>>) = 1
    OBVIOUS
  <2> QED BY <1>0, <1>10, <2>1 DEF WorkerTake, capacity, owner, history
<1>11. CASE WorkerRun
  <2>1. executed' = executed \o active /\ executed \o active \in Seq(Jobs)
    BY <1>0, <1>11, Joins DEF WorkerRun, Lists
  <2> QED BY Zenon, <1>0, <1>11, <2>1 DEF WorkerRun, queues, capacity, owner
<1>12. CASE WorkerHandOver
  <2>1. Len(<<>>) = 0
    OBVIOUS
  <2> QED BY <1>0, <1>12, <2>1 DEF WorkerHandOver, capacity, owner, history
<1> QED BY <1>3, <1>4, <1>5, <1>6, <1>7, <1>8, <1>9, <1>10, <1>11, <1>12 DEF Next, Poll, Worker

\* Only submit() and the delivery of a completion change the counters.
LEMMA CapStep ==
    ASSUME AInv, TypeOK, IsInjective(admitted), CapInv, [Next]_vars
    PROVE  CapInv' /\ IsInjective(admitted)'
<1>0. /\ admitted \in Seq(Jobs) /\ delivered \in Seq(Jobs) /\ completed \in Seq(Jobs)
      /\ \A j \in Jobs : Bytes[j] \in Nat
      /\ JobLimit \in Nat /\ ByteLimit \in Nat
  BY LimitAssumption DEF AInv, Lists
<1>1. /\ Range(admitted) = Range(delivered) \cup Retained /\ Range(delivered) \cap Retained = {}
      /\ IsInjective(completed)
  BY Apart, Zenon DEF AInv
<1>2. Unfinished = Retained /\ Unfinished \in SUBSET Jobs
  <2>1. Range(admitted) \subseteq Jobs
    BY <1>0 DEF Range
  <2> QED BY <1>1, <2>1 DEF Unfinished
<1>3. IsFiniteSet(Unfinished) /\ Charge(Unfinished) \in Nat /\ Cardinality(Unfinished) \in Nat
  BY <1>2, ChargeNat, FS_CardinalityType
<1>4. /\ count = Cardinality(Unfinished) /\ count <= JobLimit
      /\ bytes = Charge(Unfinished) /\ bytes <= ByteLimit
      /\ \A j \in Range(admitted) : Bytes[j] <= ByteLimit
  BY DEF CapInv
<1>5. ASSUME NEW j \in Jobs, Submit(j) PROVE CapInv' /\ IsInjective(admitted)'
  <2>1. /\ admitted' = Append(admitted, j) /\ delivered' = delivered /\ j \notin Range(admitted)
        /\ count' = count + 1 /\ bytes' = bytes + Bytes[j]
        /\ count < JobLimit /\ Bytes[j] <= ByteLimit - bytes
    BY <1>5 DEF Submit, Fits
  <2>2. Range(admitted') = Range(admitted) \cup {j} /\ IsInjective(admitted')
    BY <1>0, <2>1, AppendRange
  <2>3. Unfinished' = Unfinished \cup {j} /\ j \in Jobs \ Unfinished
    BY <1>1, <2>1, <2>2 DEF Unfinished
  <2>4. Bytes[j] <= ByteLimit
    BY <1>0, <1>3, <1>4, <2>1
  <2>5. Cardinality(Unfinished \cup {j}) = Cardinality(Unfinished) + 1
    BY <1>3, <2>3, FS_AddElement
  <2>6. Charge(Unfinished \cup {j}) = Charge(Unfinished) + Bytes[j]
    BY <1>2, <2>3, <2>4, ChargeOne
  <2>7. \A k \in Range(admitted') : Bytes[k] <= ByteLimit
    BY <1>4, <2>2, <2>4
  <2>8. /\ count' = Cardinality(Unfinished') /\ count' <= JobLimit
        /\ bytes' = Charge(Unfinished') /\ bytes' <= ByteLimit
    BY <1>0, <1>3, <1>4, <2>1, <2>3, <2>5, <2>6
  <2>9. Charge(Unfinished)' = Charge(Unfinished')
    BY DEF Charge
  <2> QED BY <2>2, <2>7, <2>8, <2>9 DEF CapInv
<1>6. CASE PollOne
  <2> DEFINE h == Head(completed)
             S == Unfinished \ {h}
  <2>1. /\ completed # <<>> /\ admitted' = admitted /\ delivered' = Append(delivered, h)
        /\ count' = count - 1 /\ bytes' = bytes - Bytes[h]
    BY <1>6 DEF PollOne
  <2>2. h \in Jobs /\ h \in Range(completed)
    BY <1>0, <2>1, HeadRange, Singles
  <2>3. h \in Unfinished /\ h \in Range(admitted)
    BY <1>1, <1>2, <2>2 DEF Retained
  <2>4. Range(delivered') = Range(delivered) \cup {h}
    BY <1>0, <2>1, <2>2, AppendRange
  <2>5. Unfinished' = S
    BY <2>1, <2>4 DEF Unfinished
  <2>6. Cardinality(S) = Cardinality(Unfinished) - 1
    BY <1>3, <2>3, FS_RemoveElement
  <2>7. S \in SUBSET Jobs /\ h \in Jobs \ S /\ S \cup {h} = Unfinished /\ Bytes[h] <= ByteLimit
    BY <1>2, <1>4, <2>2, <2>3
  <2> HIDE DEF S, h
  <2>8. Charge(S) \in Nat /\ Charge(Unfinished) = Charge(S) + Bytes[h]
    BY <2>7, ChargeOne
  <2>9. /\ count' = Cardinality(Unfinished') /\ count' <= JobLimit
        /\ bytes' = Charge(Unfinished') /\ bytes' <= ByteLimit
    BY <1>0, <1>3, <1>4, <2>1, <2>2, <2>5, <2>6, <2>8
  <2>10. Charge(Unfinished)' = Charge(Unfinished')
    BY DEF Charge
  <2> QED BY <1>4, <2>1, <2>9, <2>10 DEF CapInv
<1>7. CASE UNCHANGED <<count, bytes, admitted, delivered>>
  <2>1. Unfinished' = Unfinished
    BY <1>7 DEF Unfinished
  <2>2. Charge(Unfinished)' = Charge(Unfinished)
    BY <2>1 DEF Charge
  <2> QED BY <1>4, <1>7, <2>1, <2>2 DEF CapInv
<1> QED
  BY <1>5, <1>6, <1>7 DEF Next, Poll, PollBegin, PollEnd, Stop, StopNotify, StopJoin, Worker,
     WorkerWait, WorkerWake, WorkerExit, WorkerTake, WorkerRun, WorkerHandOver, vars, capacity,
     history

\* What the operations leave behind, and what stop() marks, is what completions are told.
LEMMA ToldStep ==
    ASSUME AInv, TypeOK, IsInjective(admitted), ToldInv, [Next]_vars
    PROVE  ToldInv'
<1>0. /\ queued \in Seq(Jobs) /\ active \in Seq(Jobs) /\ completed \in Seq(Jobs)
      /\ abandoned \in Seq(Jobs) /\ delivered \in Seq(Jobs) /\ executed \in Seq(Jobs)
      /\ error \in [Jobs -> {"none", "ok", "failed", "cancelled"}]
  BY DEF AInv, Lists, TypeOK
<1>1. /\ Range(delivered) \cap Retained = {}
      /\ IsInjective(completed) /\ IsInjective(queued)
      /\ Range(completed) \cap (Range(active) \cup Range(abandoned) \cup Range(queued)) = {}
      /\ Range(active) \cap (Range(abandoned) \cup Range(queued)) = {}
      /\ Range(abandoned) \cap Range(queued) = {}
  BY Apart, Zenon DEF AInv
<1>2. /\ IsInjective(executed)
      /\ Range(executed) \subseteq Range(delivered) \cup Range(completed) \cup Range(active)
      /\ worker = "run" => Range(active) \cap Range(executed) = {}
      /\ worker = "ran" => Range(active) \subseteq Range(executed)
      /\ \A j \in Range(executed) : error[j] \in {"ok", "failed"}
      /\ \A j \in Range(delivered) \cup Range(completed) :
            j \notin Range(executed) => error[j] = "cancelled"
      /\ closing = "join" => \A j \in Range(abandoned) : error[j] = "cancelled"
  BY DEF ToldInv
<1>3. Range(executed) \cap (Range(abandoned) \cup Range(queued)) = {}
  BY <1>1, <1>2 DEF Retained
<1>4. Range(<<>>) = {} /\ Range(executed) \subseteq Jobs /\ Range(abandoned) \subseteq Jobs
      /\ Range(delivered) \cup Range(completed) \subseteq Jobs
  BY <1>0, OneRange DEF Range
<1>5. ASSUME UNCHANGED <<active, completed, delivered, executed, error>>,
             worker' = worker \/ (worker' \notin {"run", "ran"}),
             closing' = "join" => closing = "join" /\ abandoned' = abandoned
      PROVE  ToldInv'
  BY <1>2, <1>5 DEF ToldInv
<1>6. ASSUME NEW j \in Jobs, Submit(j) PROVE ToldInv'
  <2>1. worker' = worker \/ worker' = "check"
    BY <1>6 DEF Submit, Notified
  <2> QED BY <1>5, <1>6, <2>1 DEF Submit, owner
<1>7. CASE PollOne
  <2> DEFINE h == Head(completed)
  <2>1. /\ completed # <<>> /\ completed' = Tail(completed) /\ delivered' = Append(delivered, h)
        /\ UNCHANGED <<active, abandoned, worker, closing, error, executed>>
    BY <1>7 DEF PollOne
  <2>2. h \in Jobs /\ Range(completed) = {h} \cup Range(Tail(completed))
    BY <1>0, <2>1, HeadRange, Singles
  <2>3. Range(delivered') = Range(delivered) \cup {h}
    BY <1>0, <2>1, <2>2, AppendRange
  <2>4. Range(delivered') \cup Range(completed') = Range(delivered) \cup Range(completed)
    BY <2>1, <2>2, <2>3
  <2> QED BY <1>2, <2>1, <2>4 DEF ToldInv
<1>8. CASE PollBegin \/ PollEnd \/ WorkerWait \/ WorkerWake \/ WorkerExit \/ UNCHANGED vars
  BY <1>5, <1>8 DEF PollBegin, PollEnd, WorkerWait, WorkerWake, WorkerExit, vars, queues, owner,
     history
<1>9. ASSUME NEW mode \in Modes, Stop(mode) PROVE ToldInv'
  BY <1>5, <1>9 DEF Stop, history
<1>10. CASE StopNotify
  <2>1. /\ UNCHANGED <<active, completed, abandoned, delivered, executed>>
        /\ worker' = worker \/ worker' = "check"
        /\ \A j \in Jobs : error'[j] = IF j \in Range(abandoned) THEN "cancelled" ELSE error[j]
    BY <1>10 DEF StopNotify, Notified, Cancelled, queues, history
  <2>2. \A j \in Range(executed) : error'[j] = error[j]
    BY <1>3, <1>4, <2>1
  <2>3. (Range(delivered) \cup Range(completed)) \cap Range(abandoned) = {}
    BY <1>1 DEF Retained
  <2>4. \A j \in Range(delivered) \cup Range(completed) : error'[j] = error[j]
    BY <1>4, <2>1, <2>3
  <2>5. \A j \in Range(abandoned) : error'[j] = "cancelled"
    BY <1>4, <2>1
  <2> QED BY <1>2, <2>1, <2>2, <2>4, <2>5 DEF ToldInv
<1>11. CASE StopJoin
  <2>1. /\ completed' = completed \o abandoned /\ abandoned' = <<>> /\ closing = "join"
        /\ closing' = "no" /\ UNCHANGED <<active, worker, delivered, executed, error>>
    BY <1>11 DEF StopJoin, history
  <2>2. Range(completed') = Range(completed) \cup Range(abandoned)
    BY <1>0, <2>1, ConcatRange
  <2> QED BY <1>2, <2>1, <2>2 DEF ToldInv
<1>12. CASE WorkerTake
  <2>1. /\ active' = <<Head(queued)>> /\ queued # <<>> /\ worker' = "run" /\ active = <<>>
        /\ UNCHANGED <<completed, abandoned, closing, delivered, executed, error>>
    BY <1>12 DEF WorkerTake, owner, history, AInv, Lists
  <2>2. Range(active') = {Head(queued)} /\ Head(queued) \in Range(queued)
    BY <1>0, <2>1, HeadRange, OneRange
  <2>3. Range(active') \cap Range(executed) = {}
    BY <1>3, <2>2
  <2>4. Range(executed) \subseteq Range(delivered) \cup Range(completed)
    BY <1>2, <1>4, <2>1
  <2> QED BY <1>2, <2>1, <2>3, <2>4 DEF ToldInv
<1>13. CASE WorkerRun
  <2>1. /\ executed' = executed \o active /\ worker = "run" /\ worker' = "ran"
        /\ UNCHANGED <<active, completed, abandoned, closing, delivered>>
    BY <1>13 DEF WorkerRun, queues, owner
  <2>2. PICK e \in {"ok", "failed"} : error' = [error EXCEPT ![active[1]] = e]
    BY Zenon, <1>13 DEF WorkerRun
  <2>3. Len(active) = 1
    BY <2>1 DEF TypeOK
  <2>4. active[1] \in Jobs /\ Range(active) = {active[1]} /\ IsInjective(active)
    <3>1. DOMAIN active = {1} /\ active[1] \in Jobs
      <4>1. DOMAIN active = 1..1 /\ \A i \in 1..1 : active[i] \in Jobs
        <5>1. Len(active) = 1 /\ active \in Seq(Jobs)
          BY <1>0, <2>3
        <5>2. /\ DOMAIN active = 1..Len(active) /\ active \in [1..Len(active) -> Jobs]
          BY <5>1, LenProperties, Zenon
        <5> QED BY <5>1, <5>2, Zenon
      <4>2. 1..1 = {1}
        OBVIOUS
      <4> QED BY <4>1, <4>2, Zenon
    <3> QED BY <3>1 DEF Range, IsInjective
  <2>5. \A j \in Jobs : error'[j] = IF j = active[1] THEN e ELSE error[j]
    BY <1>0, <2>2
  <2>6. Range(executed') = Range(executed) \cup Range(active) /\ IsInjective(executed')
    <3>1. Range(executed) \cap Range(active) = {}
      BY <1>2, <2>1
    <3> QED BY <1>0, <1>2, <2>1, <2>4, <3>1, ConcatRange
  <2>7. active[1] \notin Range(delivered) \cup Range(completed) \cup Range(abandoned)
    BY <1>1, <2>4 DEF Retained
  <2>8. \A j \in Range(executed') : error'[j] \in {"ok", "failed"}
    BY <1>2, <1>4, <2>2, <2>4, <2>5, <2>6
  <2>9. \A j \in Range(delivered) \cup Range(completed) \cup Range(abandoned) : error'[j] = error[j]
    BY <1>4, <2>5, <2>7
  <2> QED BY <1>2, <2>1, <2>6, <2>8, <2>9 DEF ToldInv
<1>14. CASE WorkerHandOver
  <2>1. /\ completed' = completed \o active /\ active' = <<>> /\ worker = "ran"
        /\ worker' = "check" /\ UNCHANGED <<abandoned, closing, delivered, executed, error>>
    BY <1>14 DEF WorkerHandOver, owner, history
  <2>2. Range(completed') = Range(completed) \cup Range(active) /\ Range(active') = {}
    BY <1>0, <1>4, <2>1, ConcatRange
  <2> QED BY <1>2, <2>1, <2>2 DEF ToldInv
<1> QED
  BY <1>6, <1>7, <1>8, <1>9, <1>10, <1>11, <1>12, <1>13, <1>14 DEF Next, Poll, Worker

\* The capacity in use is that of the jobs whose completion has not run, never more than
\* the limits allow, and every completion is told the truth (see ExecutorSafe).
THEOREM CountsAndTells == Spec => []ExecutorSafe
<1>1. Init => EInv
  <2> SUFFICES ASSUME Init PROVE EInv
    OBVIOUS
  <2>1. AInv
    BY AInvInit
  <2>2. TypeOK
    <3>1. <<>> \in Seq(Jobs) /\ Len(<<>>) = 0
      OBVIOUS
    <3>2. error \in [Jobs -> {"none", "ok", "failed", "cancelled"}]
      BY DEF Init
    <3>3. {queued, active, completed, abandoned, admitted, executed, delivered} \subseteq Seq(Jobs)
      BY <3>1 DEF Init
    <3>4. {stopped, joined, polling} \subseteq BOOLEAN
      BY Zenon DEF Init
    <3>5. /\ count \in Int /\ bytes \in Int /\ work \in Nat
          /\ worker \in {"check", "wait", "run", "ran", "exited"}
          /\ closing \in {"no", "notify", "join"}
          /\ Len(active) = IF worker \in {"run", "ran"} THEN 1 ELSE 0
      BY <3>1 DEF Init
    <3> QED BY <3>2, <3>3, <3>4, <3>5, Zenon DEF TypeOK
  <2>3. Range(<<>>) = {} /\ IsInjective(<<>>)
    BY OneRange DEF IsInjective
  <2>4. Unfinished = {}
    BY <2>3 DEF Init, Unfinished
  <2>5. CapInv
    BY <2>3, <2>4, ChargeNone, FS_EmptySet, LimitAssumption DEF Init, CapInv
  <2>6. ToldInv
    BY <2>3 DEF Init, ToldInv
  <2> QED BY <2>1, <2>2, <2>3, <2>5, <2>6 DEF EInv, Init
<1>2. EInv /\ [Next]_vars => EInv'
  <2> SUFFICES ASSUME EInv, [Next]_vars PROVE EInv'
    OBVIOUS
  <2>1. AInv'
    BY ListsNext, ClosedNext, OrderNext DEF AInv, EInv
  <2>2. TypeOK'
    BY ExecutorType DEF AInv, EInv
  <2>3. CapInv' /\ IsInjective(admitted)' /\ ToldInv'
    BY CapStep, ToldStep DEF EInv
  <2> QED BY <2>1, <2>2, <2>3 DEF EInv
<1>3. EInv => ExecutorSafe
  <2> SUFFICES ASSUME EInv PROVE ExecutorSafe
    OBVIOUS
  <2>1. Unfinished = Retained
    BY Apart DEF EInv, AInv, Unfinished
  <2>2. CapacityExact
    BY <2>1 DEF EInv, CapInv, CapacityExact
  <2>3. TruthfulCompletion
    BY DEF EInv, ToldInv, TruthfulCompletion, IsInjective
  <2> QED BY <2>2, <2>3 DEF EInv, ExecutorSafe
<1> QED BY <1>1, <1>2, <1>3, PTL DEF Spec
=============================================================================
