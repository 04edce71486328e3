--------------------------- MODULE EntityHostLease ---------------------------
(***************************************************************************)
(* EntityHost is type correct, for any hosts, attempts and limits; and its *)
(* lease protocol: what a Job knows of the record while it holds the       *)
(* lease, that ownership is fenced and respects placement, and that no     *)
(* lease is taken from its holder before it has run out.                   *)
(***************************************************************************)
EXTENDS EntityHost, TLAPS

\* The time each prover gets for one obligation, in seconds.
USE SMTT(30), ZenonT(30)

Removed(q, i) == SubSeq(q, 1, i - 1) \o SubSeq(q, i + 1, Len(q))

\* What is left of a mailbox when the request at i is removed.
LEMMA RemovedElements ==
    ASSUME NEW S, NEW q \in Seq(S), NEW i \in 1..Len(q)
    PROVE  /\ Removed(q, i) \in Seq(S)
           /\ Len(Removed(q, i)) = Len(q) - 1
           /\ \A k \in 1..(Len(q) - 1) :
                 Removed(q, i)[k] = IF k < i THEN q[k] ELSE q[k + 1]
<1> DEFINE f == SubSeq(q, 1, i - 1)
           g == SubSeq(q, i + 1, Len(q))
<1>0. Len(q) \in Nat /\ \A k \in 1..Len(q) : q[k] \in S
  OBVIOUS
<1>1. /\ f \in Seq(S) /\ Len(f) = i - 1
      /\ \A k \in 1..(i - 1) : f[k] = q[k]
  <2>1. \A k \in 1..(i - 1) : q[k] \in S
    BY <1>0
  <2> HIDE DEF f
  <2> QED BY <2>1, <1>0 DEF f
<1>2. /\ g \in Seq(S) /\ Len(g) = Len(q) - i
      /\ \A k \in 1..(Len(q) - i) : g[k] = q[i + k]
  <2>1. \A k \in (i + 1)..Len(q) : q[k] \in S
    BY <1>0
  <2> QED BY <2>1, <1>0
<1>3. Removed(q, i) = f \o g
  BY DEF Removed
<1> HIDE DEF f, g
<1>4. f \in Seq(S) /\ g \in Seq(S)
  BY <1>1, <1>2
<1>5. f \o g \in Seq(S) /\ Len(f \o g) = Len(f) + Len(g)
  BY <1>4
<1>6. \A k \in 1..(Len(f) + Len(g)) :
         (f \o g)[k] = IF k <= Len(f) THEN f[k] ELSE g[k - Len(f)]
  BY <1>4
<1> QED BY <1>0, <1>1, <1>2, <1>3, <1>5, <1>6

-----------------------------------------------------------------------------
(***************************************************************************)
(* Type correctness.                                                       *)
(***************************************************************************)
LEMMA EmptyTypes ==
    /\ EmptyValue \in Value
    /\ NoSlot \in SlotType
    /\ NoJob \in JobType
<1>1. <<>> \in Seq(Attempts)
  OBVIOUS
<1>2. EmptyValue \in Value
  BY <1>1 DEF EmptyValue, Value
<1>3. NoSlot \in SlotType
  BY <1>1 DEF NoSlot, SlotType
<1>4. NoJob \in JobType
  BY <1>2 DEF NoJob, JobType, Pcs, Statuses
<1> QED BY <1>2, <1>3, <1>4

\* The initial state is well typed.
LEMMA InitType == Init => TypeOK
BY EmptyTypes, HostAssumption DEF Init, TypeOK, HistType, Statuses, NoJob

\* complete() leaves every slot, Job and reply well formed.
LEMMA CompleteType ==
    ASSUME TypeOK, NEW h \in Hosts, job[h].a \in Attempts,
           NEW status \in Statuses, Complete(h, status)
    PROVE  /\ slot' \in [Hosts -> SlotType]
           /\ job' \in [Hosts -> JobType]
           /\ reply' \in [Attempts -> {"none", "pending"} \cup Statuses]
           /\ \A g \in Hosts : job'[g].pc # "none" => job'[g].a \in Attempts
<1>1. job[h] \in JobType /\ slot[h] \in SlotType
  BY DEF TypeOK
<1>2. job[h].image.revision \in Nat
  <2>1. job[h].image \in Value
    BY <1>1 DEF JobType
  <2> QED BY <2>1 DEF Value
<1>3. SlotAfter(h, status) \in SlotType
  <2> DEFINE j == job[h]
             s == slot[h]
             executed == status = "ok" /\ ~j.metaOnly
             carried == status = "ok" /\ j.metaOnly /\ Owned(h) /\ s.activated
                        /\ s.activationFence = j.base.fence
             dropped == (j.fence = 0 /\ ~j.preserve) \/ j.ownerLost
             act == ~j.uncertain /\ (executed \/ (s.activated /\ ~dropped))
             af == IF executed \/ carried THEN j.fence ELSE s.activationFence
             rf == IF j.ownerLost \/ j.uncertain THEN 0
                   ELSE IF status = "ok" THEN j.fence ELSE s.residentFence
             ca == IF j.uncertain THEN None ELSE IF executed /\ j.ran THEN j.cache ELSE s.cache
             cr == IF j.uncertain THEN 0
                   ELSE IF executed /\ j.ran THEN j.image.revision ELSE s.cacheRevision
  <2>1. act \in BOOLEAN
    OBVIOUS
  <2>2. af \in Nat /\ rf \in Nat /\ cr \in Nat /\ ca \in Attempts \cup {None}
    <3> HIDE DEF executed, carried
    <3> QED BY <1>1, <1>2 DEF JobType, SlotType
  <2>3. SlotAfter(h, status) =
          [s EXCEPT !.releasing = FALSE, !.activated = act, !.activationFence = af,
                    !.residentFence = rf, !.cache = ca, !.cacheRevision = cr]
    BY DEF SlotAfter
  <2> HIDE DEF act, af, rf, ca, cr
  <2> QED BY <1>1, <2>1, <2>2, <2>3, ZenonT(30) DEF SlotType
<1>4. slot' \in [Hosts -> SlotType]
  BY <1>3, EmptyTypes DEF Complete, TypeOK
<1>5. job' \in [Hosts -> JobType]
  BY EmptyTypes DEF Complete, TypeOK
<1>6. \A g \in Hosts : job'[g].pc # "none" => job'[g].a \in Attempts
  BY DEF Complete, TypeOK, NoJob
<1>7. reply' \in [Attempts -> {"none", "pending"} \cup Statuses]
  BY DEF Complete, Answer, TypeOK
<1> QED BY <1>4, <1>5, <1>6, <1>7

\* Trimming keeps receipts that were there.
LEMMA TrimmedElements ==
    ASSUME NEW S, NEW r \in Seq(S)
    PROVE  Trimmed(r) \in Seq(S)
<1>1. Len(r) \in Nat /\ DOMAIN r = 1..Len(r) /\ \A k \in 1..Len(r) : r[k] \in S
  OBVIOUS
<1>2. CASE \E m \in DOMAIN r : Oldest(r, m)
  <2> DEFINE first == CHOOSE m \in DOMAIN r : Oldest(r, m)
  <2>1. first \in DOMAIN r /\ Trimmed(r) = SubSeq(r, first, Len(r))
    BY <1>2, Zenon DEF Trimmed
  <2> HIDE DEF first
  <2>2. \A k \in first..Len(r) : r[k] \in S
    BY <1>1, <2>1
  <2> QED BY <1>1, <2>1, <2>2
<1>3. CASE ~\E m \in DOMAIN r : Oldest(r, m)
  BY <1>3 DEF Trimmed
<1> QED BY <1>2, <1>3

\* The record that a Job commits is well formed.
LEMMA CommittedType ==
    ASSUME TypeOK, NEW h \in Hosts, job[h].a \in Attempts
    PROVE  Committed(h) \in Value
<1> DEFINE a == job[h].a
           v == job[h].base
           r == IF ReqId[a] = None THEN v.receipts ELSE Append(v.receipts, a)
<1>1. job[h] \in JobType /\ v \in Value
  BY DEF TypeOK, JobType
<1>2. v.log \in Seq(Attempts) /\ v.receipts \in Seq(Attempts)
  BY <1>1 DEF Value
<1>3. Append(v.log, a) \in Seq(Attempts)
  BY <1>2
<1>4. r \in Seq(Attempts)
  BY <1>2
<1>6. WithReceipt(v.receipts, a) \in Seq(Attempts)
  <2>1. WithReceipt(v.receipts, a) = Trimmed(r)
    BY Zenon DEF WithReceipt
  <2> HIDE DEF r
  <2> QED BY <1>4, <2>1, TrimmedElements
<1>7. Initialized(job[h]) \in BOOLEAN
  BY <1>1, Zenon DEF Initialized, Value
<1>8. Target[a] \in Nodes
  BY HostAssumption
<1> DEFINE release == IsControl(a)
           handoff == Kind[a] = "handoff"
           destroy == Kind[a] = "destroy"
           own == IF release THEN None ELSE h
           expires == IF release THEN 0 ELSE job[h].expires
           log == IF destroy THEN <<>> ELSE Append(v.log, a)
           rev == IF destroy THEN 0 ELSE v.revision + IF IsWrite(a) THEN 1 ELSE 0
           receipts == IF destroy THEN <<>> ELSE WithReceipt(v.receipts, a)
           placement == IF handoff THEN Target[a] ELSE v.placement
           transfer == IF handoff THEN job[h].version ELSE v.transfer
<1>9. /\ own \in Hosts \cup {None} /\ expires \in Nat /\ job[h].fence \in Nat
      /\ placement \in Nodes \cup {None} /\ transfer \in Nat /\ rev \in Nat /\ destroy \in BOOLEAN
  <2>1. job[h].expires \in Nat /\ job[h].fence \in Nat /\ job[h].version \in Nat
    BY <1>1 DEF JobType
  <2>2. v.revision \in Nat /\ v.transfer \in Nat /\ v.placement \in Nodes \cup {None}
    BY <1>1 DEF Value
  <2>3. own \in Hosts \cup {None} /\ placement \in Nodes \cup {None} /\ destroy \in BOOLEAN
    BY <1>8, <2>2
  <2> HIDE DEF own, placement, destroy, release, r, v
  <2> QED BY <2>1, <2>2, <2>3
<1>10. log \in Seq(Attempts) /\ receipts \in Seq(Attempts)
  <2> HIDE DEF r
  <2> QED BY <1>3, <1>6
<1>11. Committed(h) =
         [owner |-> own, expires |-> expires, fence |-> job[h].fence, log |-> log,
          revision |-> rev, receipts |-> receipts, initialized |-> Initialized(job[h]),
          placement |-> placement, transfer |-> transfer, destroyed |-> destroy]
  BY DEF Committed
<1> HIDE DEF r, release, handoff, destroy, own, expires, log, rev, receipts, placement, transfer
<1> QED BY <1>7, <1>9, <1>10, <1>11 DEF Value

\* A Job of h that is replaced by a well-formed one.
LEMMA JobType1 ==
    ASSUME TypeOK, NEW h \in Hosts, NEW j \in JobType, j.pc # "none" => j.a \in Attempts,
           job' = [job EXCEPT ![h] = j]
    PROVE  /\ job' \in [Hosts -> JobType]
           /\ \A g \in Hosts : job'[g].pc # "none" => job'[g].a \in Attempts
BY DEF TypeOK

\* enqueue() leaves the slots and the replies well formed.
LEMMA EnqueueType ==
    ASSUME TypeOK, NEW h \in Hosts, NEW a \in Attempts, Enqueue(h, a)
    PROVE  /\ slot' \in [Hosts -> SlotType]
           /\ reply' \in [Attempts -> {"none", "pending"} \cup Statuses]
<1>1. slot[h] \in SlotType
  BY DEF TypeOK
<1>2. Append(slot[h].queue, a) \in Seq(Attempts)
  BY <1>1 DEF SlotType
<1>3. IsControl(a) \in BOOLEAN
  BY DEF IsControl
<1>4. [slot[h] EXCEPT !.present = TRUE, !.queue = Append(slot[h].queue, a),
                      !.releasing = IsControl(a)] \in SlotType
  BY <1>1, <1>2, <1>3, Zenon DEF SlotType
<1>5. slot' = [slot EXCEPT ![h] = [slot[h] EXCEPT
          !.present = TRUE, !.queue = Append(slot[h].queue, a), !.releasing = IsControl(a)]]
  BY Zenon DEF Enqueue, TypeOK
<1>6. slot' \in [Hosts -> SlotType]
  BY <1>4, <1>5 DEF TypeOK
<1>7. reply' \in [Attempts -> {"none", "pending"} \cup Statuses]
  BY DEF Enqueue, Answer, TypeOK
<1> QED BY <1>6, <1>7

\* A lease is a well-formed record.
LEMMA LeaseValueType ==
    ASSUME NEW h \in Hosts, NEW v \in Value, clock[h] \in Nat
    PROVE  LeaseValue(h, v) \in Value
<1>1. clock[h] + Lease \in Nat /\ v.fence + 1 \in Nat
  BY LimitAssumption DEF Value
<1> QED BY <1>1, Zenon DEF LeaseValue, Value

\* Control operations keep the types.
LEMMA DeactivateType ==
    ASSUME TypeOK, NEW h \in Hosts, NEW a \in Attempts, Deactivate(h, a)
    PROVE  /\ slot' \in [Hosts -> SlotType]
           /\ job' \in [Hosts -> JobType]
           /\ reply' \in [Attempts -> {"none", "pending"} \cup Statuses]
           /\ \A g \in Hosts : job'[g].pc # "none" => job'[g].a \in Attempts
<1>1. CASE HasHook
  BY <1>1, EnqueueType DEF Deactivate, TypeOK
<1>2. CASE ~HasHook
  <2>1. Unload(h, a)
    BY <1>2 DEF Deactivate
  <2> DEFINE j == [NoJob EXCEPT !.pc = "unload", !.a = a, !.status = "failed"]
  <2>2. j \in JobType /\ j.a = a
    BY EmptyTypes, Zenon DEF JobType, Pcs, Statuses
  <2>3. job' = [job EXCEPT ![h] = j]
    BY <2>1 DEF Unload
  <2> HIDE DEF j
  <2>4. [slot[h] EXCEPT !.releasing = TRUE] \in SlotType
    BY ZenonT(30) DEF TypeOK, SlotType
  <2>5. slot' = [slot EXCEPT ![h] = [slot[h] EXCEPT !.releasing = TRUE]]
    BY <2>1 DEF Unload
  <2>6. slot' \in [Hosts -> SlotType]
    BY <2>4, <2>5 DEF TypeOK
  <2>7. reply' \in [Attempts -> {"none", "pending"} \cup Statuses]
    BY <2>1 DEF Unload, Answer, TypeOK
  <2> QED BY <2>2, <2>3, <2>6, <2>7, JobType1, Zenon
<1> QED BY <1>1, <1>2

\* What a commit adds to the history is well formed.
LEMMA RecordType ==
    ASSUME TypeOK, NEW h \in Hosts, job[h].a \in Attempts, Record(h)
    PROVE  hist' \in HistType
<1> DEFINE j == job[h]
           executed == ~j.metaOnly /\ ~IsControl(j.a)
           ap == hist.applied \cup {j.a}
           ti == IF Kind[j.a] = "handoff" THEN hist.tickets \cup {j.version} ELSE hist.tickets
           cr == IF executed /\ ~j.base.initialized THEN hist.creates + 1 ELSE hist.creates
           li == IF IsControl(j.a) THEN None ELSE IF executed /\ j.activating THEN h ELSE hist.live
           im == IF IsControl(j.a) THEN None ELSE IF executed THEN j.cache ELSE hist.image
<1>1. job[h] \in JobType /\ hist \in HistType
  BY DEF TypeOK
<1>2. /\ ap \in SUBSET Attempts /\ ti \in SUBSET Nat /\ cr \in Nat
      /\ li \in Hosts \cup {None} /\ im \in Attempts \cup {None}
  <2> HIDE DEF executed
  <2> QED BY <1>1 DEF JobType, HistType
<1>3. hist' = [applied |-> ap, tickets |-> ti, creates |-> cr, live |-> li, image |-> im]
  BY DEF Record
<1> HIDE DEF ap, ti, cr, li, im
<1> QED BY <1>2, <1>3, Zenon DEF HistType

\* Every step keeps the types.
LEMMA TypeStep == ASSUME TypeOK, [Next]_vars PROVE TypeOK'
<1>1. CASE UNCHANGED vars
  BY <1>1 DEF vars, TypeOK
<1>2. ASSUME NEW h \in Hosts, HostStep(h) PROVE TypeOK'
  <2>0. /\ job[h] \in JobType /\ slot[h] \in SlotType
        /\ store.val \in Value /\ store.version \in Nat /\ clock[h] \in Nat
        /\ job[h].pc # "none" => job[h].a \in Attempts
    BY DEF TypeOK
  <2>1. ASSUME NEW a \in Attempts, Call(h, a) PROVE TypeOK'
    <3>1. CASE Enqueue(h, a) /\ UNCHANGED <<store, clock, up, draining, job, hist>>
      <4>1. ticket' \in [Attempts -> Nat]
        BY <2>1 DEF Call, TypeOK, HistType, Refuse
      <4> QED BY <3>1, <4>1, EnqueueType DEF TypeOK
    <3>2. CASE Refuse(h, a)
      BY <3>2 DEF TypeOK, Refuse, Answer, Statuses
    <3> QED BY <2>1, <3>1, <3>2 DEF Call
  <2>2. ASSUME NEW a \in Attempts, ControlEntity(h, a) PROVE TypeOK'
    <3>1. CASE Deactivate(h, a) /\ UNCHANGED <<store, clock, up, draining, ticket, hist>>
      BY <3>1, DeactivateType DEF TypeOK
    <3>2. CASE Enqueue(h, a) /\ UNCHANGED <<store, clock, up, draining, job, ticket, hist>>
      BY <3>2, EnqueueType DEF TypeOK
    <3>3. CASE Refuse(h, a)
      BY <3>3 DEF TypeOK, Refuse, Answer, Statuses
    <3> QED BY <2>2, <3>1, <3>2, <3>3 DEF ControlEntity
  <2>3. CASE DropIdle(h)
    BY <2>3, EmptyTypes DEF DropIdle, TypeOK
  <2>4. CASE Drain(h)
    <3>1. draining' \in [Hosts -> BOOLEAN] /\ UNCHANGED <<store, clock, up, ticket, hist>>
      BY <2>4 DEF Drain, TypeOK
    <3>2. CASE UNCHANGED <<slot, job, reply>>
      BY <3>1, <3>2 DEF TypeOK
    <3>3. CASE \E a \in Attempts : Deactivate(h, a)
      BY <3>1, <3>3, DeactivateType DEF TypeOK
    <3> QED BY <2>4, <3>2, <3>3 DEF Drain
  <2>5. CASE Acquire(h)
    <3> DEFINE a == Head(slot[h].queue)
               j == [NoJob EXCEPT !.pc = "read", !.a = a, !.preserve = (Kind[a] = "bind")]
    <3>1. slot[h].queue \in Seq(Attempts) /\ slot[h].queue # <<>>
      BY <2>0, <2>5 DEF Acquire, SlotType
    <3>2. a \in Attempts /\ Tail(slot[h].queue) \in Seq(Attempts)
      BY <3>1
    <3>3. job' = [job EXCEPT ![h] = j]
      BY <2>5 DEF Acquire
    <3>4. j \in JobType /\ j.a = a
      <4> HIDE DEF a
      <4> QED BY <3>2, EmptyTypes, ZenonT(30) DEF JobType, Pcs
    <3>5. [slot[h] EXCEPT !.queue = Tail(slot[h].queue)] \in SlotType
      BY <2>0, <3>2, Zenon DEF SlotType
    <3>6. slot' = [slot EXCEPT ![h] = [slot[h] EXCEPT !.queue = Tail(slot[h].queue)]]
      BY <2>5 DEF Acquire
    <3>7. slot' \in [Hosts -> SlotType]
      BY <3>5, <3>6 DEF TypeOK
    <3> HIDE DEF j
    <3>8. /\ job' \in [Hosts -> JobType]
          /\ \A g \in Hosts : job'[g].pc # "none" => job'[g].a \in Attempts
      BY <3>2, <3>3, <3>4, JobType1, Zenon
    <3> QED BY <2>5, <3>7, <3>8 DEF Acquire, TypeOK
  <2>6. CASE ExpireQueued(h)
    <3>1. PICK i \in DOMAIN slot[h].queue :
            /\ slot' = [slot EXCEPT ![h].queue = Removed(@, i),
                                    ![h].releasing = @ /\ ~IsControl(slot[h].queue[i])]
            /\ Answer(slot[h].queue[i], "failed")
      BY <2>6, Zenon DEF ExpireQueued, Removed
    <3>2. slot[h].queue \in Seq(Attempts) /\ i \in 1..Len(slot[h].queue)
      BY <2>0 DEF SlotType
    <3>3. Removed(slot[h].queue, i) \in Seq(Attempts) /\ slot[h].queue[i] \in Attempts
      BY <3>2, RemovedElements
    <3> DEFINE b == slot[h].releasing /\ ~IsControl(slot[h].queue[i])
    <3>4. b \in BOOLEAN
      OBVIOUS
    <3>5. slot' = [slot EXCEPT ![h] = [slot[h] EXCEPT !.queue = Removed(slot[h].queue, i),
                                                     !.releasing = b]]
      BY <3>1, Zenon
    <3> HIDE DEF b
    <3>6. [slot[h] EXCEPT !.queue = Removed(slot[h].queue, i), !.releasing = b] \in SlotType
      BY <2>0, <3>3, <3>4, Zenon DEF SlotType
    <3>7. slot' \in [Hosts -> SlotType]
      BY <3>5, <3>6 DEF TypeOK
    <3>8. reply' \in [Attempts -> {"none", "pending"} \cup Statuses]
      BY <3>1, <3>3 DEF Answer, TypeOK, Statuses
    <3> QED BY <2>6, <3>7, <3>8 DEF ExpireQueued, TypeOK
  <2>7. CASE AcquireFailed(h) \/ Finish(h)
    <3>1. Complete(h, job[h].status) /\ UNCHANGED Env /\ job[h].pc # "none"
      BY <2>7 DEF AcquireFailed, Finish
    <3> QED BY <2>0, <3>1, CompleteType DEF TypeOK, Env, JobType
  <2>8. CASE AcquireRefused(h) \/ ExpireRunning(h) \/ LogicFails(h) \/ Replay(h)
    <3>1. PICK status \in Statuses : Complete(h, status)
      BY <2>8 DEF AcquireRefused, ExpireRunning, LogicFails, Replay, Statuses
    <3>2. UNCHANGED Env /\ job[h].pc # "none"
      BY <2>8 DEF AcquireRefused, ExpireRunning, LogicFails, Replay
    <3> QED BY <2>0, <3>1, <3>2, CompleteType DEF TypeOK, Env
  <2>9. CASE Stop(h) \/ Crash(h)
    <3>1. Halt(h)
      BY <2>9 DEF Stop, Crash
    <3>2. slot' \in [Hosts -> SlotType]
      BY <3>1, EmptyTypes DEF Halt, TypeOK
    <3>3. job' \in [Hosts -> JobType] /\ \A g \in Hosts : job'[g].pc # "none" => job'[g].a \in Attempts
      BY <3>1, EmptyTypes DEF Halt, TypeOK, NoJob
    <3>4. reply' \in [Attempts -> {"none", "pending"} \cup Statuses]
      BY <3>1 DEF Halt, TypeOK, Statuses
    <3> QED BY <3>1, <3>2, <3>3, <3>4 DEF Halt, TypeOK
  <2>10. CASE Tick(h)
    BY <2>10 DEF Tick, TypeOK
  <2>11. CASE UnloadDone(h)
    <3>1. [slot[h] EXCEPT !.releasing = FALSE] \in SlotType
      BY <2>0, Zenon DEF SlotType
    <3>2. slot' \in [Hosts -> SlotType]
      BY <2>11, <3>1, EmptyTypes DEF UnloadDone, TypeOK
    <3>3. job' \in [Hosts -> JobType] /\ \A g \in Hosts : job'[g].pc # "none" => job'[g].a \in Attempts
      BY <2>11, EmptyTypes DEF UnloadDone, TypeOK, NoJob
    <3>4. reply' \in [Attempts -> {"none", "pending"} \cup Statuses]
      BY <2>0, <2>11 DEF UnloadDone, Answer, TypeOK, JobType
    <3> QED BY <2>11, <3>2, <3>3, <3>4 DEF UnloadDone, Env, TypeOK
  <2>12. ASSUME NEW j \in JobType, j.a = job[h].a, job[h].pc # "none",
               job' = [job EXCEPT ![h] = j],
               store' \in [version : Nat, val : Value], hist' \in HistType,
               UNCHANGED <<clock, up, draining, slot, ticket, reply>>
         PROVE  TypeOK'
    <3>1. /\ job' \in [Hosts -> JobType]
          /\ \A g \in Hosts : job'[g].pc # "none" => job'[g].a \in Attempts
      BY <2>0, <2>12, JobType1, Zenon
    <3> QED BY <2>12, <3>1 DEF TypeOK
  <2>13. CASE AcquireRead(h)
    <3> DEFINE a == job[h].a
               v == store.val
               ok == Admissible(h, a, v)
               reached == ~v.destroyed /\ (Kind[a] = "bind" => v.initialized)
               reuse == ok /\ Reusable(h, v)
               same == ok /\ SameRequest(a, v) # {}
               pc == IF ok /\ ~reuse THEN "lease" ELSE "acquired"
               st == IF ok THEN "ok" ELSE "failed"
               im == IF ok /\ ~reuse THEN LeaseValue(h, v) ELSE v
               fe == IF reuse THEN v.fence ELSE 0
               ex == IF reuse THEN v.expires ELSE 0
               mo == same \/ Kind[a] = "bind"
               re == job[h].replay \/ same
               ol == reached /\ Elsewhere(h, a, v)
               pr == job[h].preserve \/ (reached /\ ~Misplaced(h, v) /\ StaleTicket(a, v))
               j == [job[h] EXCEPT !.pc = pc, !.version = store.version, !.base = v,
                        !.status = st, !.image = im, !.fence = fe, !.expires = ex,
                        !.metaOnly = mo, !.replay = re, !.ownerLost = ol,
                        !.wrongNode = ol, !.preserve = pr]
    <3>1. job' = [job EXCEPT ![h] = j]
      BY <2>13 DEF AcquireRead
    <3>2. LeaseValue(h, v) \in Value
      BY <2>0, LeaseValueType
    <3>3. pc \in Pcs /\ st \in Statuses /\ im \in Value /\ fe \in Nat /\ ex \in Nat
      <4> HIDE DEF ok, reuse
      <4>1. pc \in Pcs /\ st \in Statuses
        BY DEF Pcs, Statuses
      <4>2. im \in Value
        BY <2>0, <3>2
      <4>3. fe \in Nat /\ ex \in Nat
        BY <2>0, <3>2 DEF Value
      <4> QED BY <4>1, <4>2, <4>3
    <3>4. mo \in BOOLEAN /\ re \in BOOLEAN /\ ol \in BOOLEAN /\ pr \in BOOLEAN
      BY Zenon
    <3>5. j \in JobType /\ j.a = job[h].a
      <4> DEFINE ve == store.version
                 k == [job[h] EXCEPT !.pc = pc, !.version = ve, !.base = v,
                          !.status = st, !.image = im, !.fence = fe]
      <4>1. ve \in Nat /\ v \in Value
        BY <2>0
      <4> DEFINE m == [k EXCEPT !.expires = ex, !.metaOnly = mo, !.replay = re]
      <4>2. j = [m EXCEPT !.ownerLost = ol, !.wrongNode = ol, !.preserve = pr]
        BY Zenon
      <4> HIDE DEF pc, st, im, fe, ex, mo, re, ol, pr, v, ve
      <4>3. k \in JobType /\ k.a = job[h].a
        BY <2>0, <3>3, <4>1, Zenon DEF JobType
      <4> HIDE DEF k
      <4>4. m \in JobType /\ m.a = job[h].a
        BY <3>3, <3>4, <4>3, ZenonT(30) DEF JobType
      <4> HIDE DEF m, j
      <4> QED BY <3>4, <4>2, <4>4, ZenonT(30) DEF JobType
    <3> HIDE DEF j
    <3> QED BY <2>12, <2>13, <3>1, <3>5, Zenon DEF AcquireRead, TypeOK
  <2>14. CASE LeaseCas(h)
    <3>1. job[h].image \in Value /\ job[h].pc = "lease"
      BY <2>0, <2>14 DEF JobType, LeaseCas
    <3>2. store' \in [version : Nat, val : Value] /\ hist' \in HistType
      BY <2>0, <2>14, <3>1 DEF LeaseCas, Write, TypeOK
    <3>3. CASE CasSucceeds(h)
      <4> DEFINE j == [job[h] EXCEPT !.pc = "confirm"]
      <4>1. j \in JobType /\ j.a = job[h].a
        BY <2>0 DEF JobType, Pcs
      <4>2. job' = [job EXCEPT ![h] = j]
        BY <2>14, <3>3 DEF LeaseCas
      <4> HIDE DEF j
      <4> QED BY <2>12, <2>14, <3>1, <3>2, <4>1, <4>2, Zenon DEF LeaseCas
    <3>4. CASE ~CasSucceeds(h)
      <4> DEFINE n == job[h].tries + 1
                 j == IF job[h].tries = 3
                      THEN [job[h] EXCEPT !.pc = "acquired", !.status = "failed"]
                      ELSE [job[h] EXCEPT !.pc = "read", !.tries = n]
      <4>1. n \in Nat
        BY <2>0 DEF JobType
      <4>2. job' = [job EXCEPT ![h] = j]
        BY <2>14, <3>4 DEF LeaseCas
      <4> HIDE DEF n
      <4>3. j \in JobType /\ j.a = job[h].a
        BY <2>0, <4>1, ZenonT(30) DEF JobType, Pcs, Statuses
      <4> HIDE DEF j
      <4> QED BY <2>12, <2>14, <3>1, <3>2, <4>2, <4>3, Zenon DEF LeaseCas
    <3> QED BY <3>3, <3>4
  <2>15. CASE LeaseConfirm(h)
    <3>1. job[h].image \in Value
      BY <2>0 DEF JobType
    <3> DEFINE j == IF store.val = job[h].image
                    THEN [job[h] EXCEPT !.pc = "acquired", !.version = store.version,
                                        !.fence = job[h].image.fence,
                                        !.expires = job[h].image.expires]
                    ELSE [job[h] EXCEPT !.pc = "acquired", !.status = "failed"]
    <3>2. job[h].image.fence \in Nat /\ job[h].image.expires \in Nat
      BY <3>1 DEF Value
    <3>3. j \in JobType /\ j.a = job[h].a
      BY <2>0, <3>2, ZenonT(30) DEF JobType, Pcs, Statuses
    <3>4. job' = [job EXCEPT ![h] = j]
      BY <2>15 DEF LeaseConfirm
    <3> HIDE DEF j
    <3> QED BY <2>12, <2>15, <3>3, <3>4 DEF LeaseConfirm, TypeOK
  <2>16. CASE AcquireError(h)
    <3>1. job[h].image \in Value /\ job[h].pc # "none"
      BY <2>0, <2>16 DEF JobType, AcquireError
    <3>2. store' \in [version : Nat, val : Value] /\ hist' \in HistType
      BY <2>0, <2>16, <3>1 DEF AcquireError, Write, TypeOK
    <3> DEFINE j == [job[h] EXCEPT !.pc = "acquired", !.status = "unknown"]
    <3>3. j \in JobType /\ j.a = job[h].a
      BY <2>0, Zenon DEF JobType, Pcs, Statuses
    <3>4. job' = [job EXCEPT ![h] = j]
      BY <2>16 DEF AcquireError
    <3> HIDE DEF j
    <3> QED BY <2>12, <2>16, <3>1, <3>2, <3>3, <3>4, Zenon DEF AcquireError
  <2>17. CASE Execute(h)
    <3> DEFINE c == IF ~job[h].metaOnly /\ CacheUsable(h) THEN slot[h].cache ELSE None
               r == ~job[h].metaOnly
               j == [job[h] EXCEPT !.pc = "run", !.ran = r, !.cache = c,
                                   !.activating = Activating(h)]
    <3>1. job' = [job EXCEPT ![h] = j] /\ job[h].pc # "none"
      BY <2>17 DEF Execute
    <3>2. c \in Attempts \cup {None} /\ r \in BOOLEAN
      BY <2>0 DEF SlotType
    <3>3. Activating(h) \in BOOLEAN
      BY DEF Activating
    <3>4. j \in JobType /\ j.a = job[h].a
      <4> HIDE DEF c, r
      <4> QED BY <2>0, <3>2, <3>3, ZenonT(30) DEF JobType, Pcs
    <3> HIDE DEF j
    <3> QED BY <2>12, <2>17, <3>1, <3>4 DEF Execute, TypeOK
  <2>18. CASE LogicDone(h)
    <3> DEFINE c == IF IsWrite(job[h].a) THEN job[h].a ELSE job[h].cache
               j == [job[h] EXCEPT !.pc = "check", !.image = Committed(h), !.cache = c]
    <3>1. job' = [job EXCEPT ![h] = j] /\ job[h].pc # "none"
      BY <2>18 DEF LogicDone
    <3>2. c \in Attempts \cup {None} /\ Committed(h) \in Value
      BY <2>0, <3>1, CommittedType DEF JobType
    <3>3. j \in JobType /\ j.a = job[h].a
      <4> HIDE DEF c
      <4> QED BY <2>0, <3>2, Zenon DEF JobType, Pcs
    <3> HIDE DEF j
    <3> QED BY <2>12, <2>18, <3>1, <3>3 DEF LogicDone, TypeOK
  <2>19. CASE CheckLease(h)
    <3> DEFINE j == IF clock[h] >= job[h].expires
                    THEN [job[h] EXCEPT !.pc = "answer", !.ownerLost = TRUE, !.status = "failed"]
                    ELSE [job[h] EXCEPT !.pc = "cas"]
    <3>1. job' = [job EXCEPT ![h] = j] /\ job[h].pc # "none"
      BY <2>19 DEF CheckLease
    <3>2. /\ [job[h] EXCEPT !.pc = "cas"] \in JobType
          /\ [job[h] EXCEPT !.pc = "cas"].a = job[h].a
      BY <2>0, Zenon DEF JobType, Pcs
    <3>3. /\ [job[h] EXCEPT !.pc = "answer", !.ownerLost = TRUE, !.status = "failed"] \in JobType
          /\ [job[h] EXCEPT !.pc = "answer", !.ownerLost = TRUE, !.status = "failed"].a = job[h].a
      BY <2>0, Zenon DEF JobType, Pcs, Statuses
    <3>4. j \in JobType /\ j.a = job[h].a
      BY <3>2, <3>3, Zenon
    <3> HIDE DEF j
    <3> QED BY <2>12, <2>19, <3>1, <3>4 DEF CheckLease, TypeOK
  <2>20. CASE CommitCas(h)
    <3>1. job[h].image \in Value /\ job[h].pc # "none"
      BY <2>0, <2>20 DEF JobType, CommitCas
    <3>2. store' \in [version : Nat, val : Value] /\ hist' \in HistType
      <4>1. CASE CasSucceeds(h)
        BY <2>0, <2>20, <3>1, <4>1, RecordType DEF CommitCas, Write
      <4>2. CASE ~CasSucceeds(h)
        BY <2>20, <4>2 DEF CommitCas, TypeOK
      <4> QED BY <4>1, <4>2
    <3> DEFINE j == IF CasSucceeds(h) THEN [job[h] EXCEPT !.pc = "answer"]
                    ELSE [job[h] EXCEPT !.pc = "answer", !.ownerLost = TRUE, !.status = "failed"]
    <3>3. job' = [job EXCEPT ![h] = j]
      BY <2>20 DEF CommitCas
    <3>4. /\ [job[h] EXCEPT !.pc = "answer"] \in JobType
          /\ [job[h] EXCEPT !.pc = "answer"].a = job[h].a
      BY <2>0, Zenon DEF JobType, Pcs
    <3>5. /\ [job[h] EXCEPT !.pc = "answer", !.ownerLost = TRUE, !.status = "failed"] \in JobType
          /\ [job[h] EXCEPT !.pc = "answer", !.ownerLost = TRUE, !.status = "failed"].a = job[h].a
      BY <2>0, Zenon DEF JobType, Pcs, Statuses
    <3>6. j \in JobType /\ j.a = job[h].a
      BY <3>4, <3>5, Zenon
    <3> HIDE DEF j
    <3> QED BY <2>12, <2>20, <3>1, <3>2, <3>3, <3>6, Zenon DEF CommitCas
  <2>21. CASE CommitError(h)
    <3>1. job[h].image \in Value /\ job[h].pc # "none"
      BY <2>0, <2>21 DEF JobType, CommitError
    <3>2. store' \in [version : Nat, val : Value] /\ hist' \in HistType
      <4>1. CASE UNCHANGED <<store, hist>>
        BY <4>1 DEF TypeOK
      <4>2. CASE Write(job[h].image) /\ Record(h)
        BY <2>0, <3>1, <4>2, RecordType DEF Write
      <4> QED BY <2>21, <4>1, <4>2 DEF CommitError
    <3> DEFINE j == Uncertain(job[h])
    <3>3. j \in JobType /\ j.a = job[h].a
      BY <2>0, Zenon DEF Uncertain, JobType, Pcs, Statuses
    <3>4. job' = [job EXCEPT ![h] = j]
      BY <2>21 DEF CommitError
    <3> HIDE DEF j
    <3> QED BY <2>12, <2>21, <3>1, <3>2, <3>3, <3>4, Zenon DEF CommitError
  <2>22. CASE UnloadRead(h)
    <3> DEFINE im == [store.val EXCEPT !.owner = None, !.expires = 0]
               ve == store.version
               j == IF store.val.owner = h
                    THEN [job[h] EXCEPT !.pc = "unloadcas", !.version = ve, !.image = im]
                    ELSE [job[h] EXCEPT !.pc = "unloaded"]
    <3>1. job' = [job EXCEPT ![h] = j] /\ job[h].pc # "none"
      BY <2>22 DEF UnloadRead
    <3>2. im \in Value /\ ve \in Nat
      <4>1. 0 \in Nat
        OBVIOUS
      <4> QED BY <2>0, <4>1, Zenon DEF Value
    <3>3. j \in JobType /\ j.a = job[h].a
      <4> HIDE DEF im, ve
      <4> QED BY <2>0, <3>2, ZenonT(30) DEF JobType, Pcs
    <3> HIDE DEF j
    <3> QED BY <2>12, <2>22, <3>1, <3>3, Zenon DEF UnloadRead, TypeOK
  <2>23. ASSUME Vacate PROVE hist' \in HistType
    BY <2>23, Zenon DEF Vacate, TypeOK, HistType
  <2>24. CASE UnloadCas(h)
    <3>1. job[h].image \in Value /\ job[h].pc # "none"
      BY <2>0, <2>24 DEF JobType, UnloadCas
    <3>2. store' \in [version : Nat, val : Value] /\ hist' \in HistType
      BY <2>0, <2>23, <2>24, <3>1 DEF UnloadCas, Write, TypeOK
    <3> DEFINE j == IF CasSucceeds(h) THEN [job[h] EXCEPT !.pc = "unloaded", !.status = "ok"]
                    ELSE [job[h] EXCEPT !.pc = "unloaded"]
    <3>3. job' = [job EXCEPT ![h] = j]
      BY <2>24 DEF UnloadCas
    <3>4. j \in JobType /\ j.a = job[h].a
      BY <2>0, ZenonT(30) DEF JobType, Pcs, Statuses
    <3> HIDE DEF j
    <3> QED BY <2>12, <2>24, <3>1, <3>2, <3>3, <3>4, Zenon DEF UnloadCas
  <2>25. CASE UnloadError(h)
    <3>1. job[h].image \in Value /\ job[h].pc # "none"
      BY <2>0, <2>25 DEF JobType, UnloadError
    <3>2. store' \in [version : Nat, val : Value] /\ hist' \in HistType
      <4>1. CASE UNCHANGED <<store, hist>>
        BY <4>1 DEF TypeOK
      <4>2. CASE Write(job[h].image) /\ Vacate
        BY <2>0, <2>23, <3>1, <4>2 DEF Write
      <4> QED BY <2>25, <4>1, <4>2 DEF UnloadError
    <3> DEFINE j == [job[h] EXCEPT !.pc = "unloaded", !.status = "unknown"]
    <3>3. j \in JobType /\ j.a = job[h].a
      BY <2>0, Zenon DEF JobType, Pcs, Statuses
    <3>4. job' = [job EXCEPT ![h] = j]
      BY <2>25 DEF UnloadError
    <3> HIDE DEF j
    <3> QED BY <2>12, <2>25, <3>1, <3>2, <3>3, <3>4, Zenon DEF UnloadError
  <2> QED
    BY <1>2, <2>1, <2>2, <2>3, <2>4, <2>5, <2>6, <2>7, <2>8, <2>9, <2>10, <2>11, <2>13, <2>14,
       <2>15, <2>16, <2>17, <2>18, <2>19, <2>20, <2>21, <2>22, <2>24, <2>25 DEF HostStep
<1> QED BY <1>1, <1>2 DEF Next

\* Every variable keeps its type in every behaviour (see TypeOK).
THEOREM TypeCorrect == Spec => []TypeOK
<1>1. TypeOK /\ [Next]_vars => TypeOK'
  BY TypeStep
<1> QED BY InitType, <1>1, PTL DEF Spec
-----------------------------------------------------------------------------
\* Two records that differ in the lease only.
SameEntity(v, w) ==
    /\ v.log = w.log /\ v.revision = w.revision /\ v.receipts = w.receipts
    /\ v.initialized = w.initialized /\ v.placement = w.placement /\ v.transfer = w.transfer
    /\ v.destroyed = w.destroyed

Usable(h, v) == ~v.destroyed /\ ~Misplaced(h, v)

\* The Job has confirmed its lease and may still commit under it.
Granted(h) ==
    \/ job[h].pc \in {"run", "check", "cas"}
    \/ job[h].pc = "acquired" /\ job[h].status = "ok"

\* image is a lease for h on the record the Job read.
Taking(h) ==
    /\ Usable(h, job[h].base) /\ job[h].image.owner = h
    /\ job[h].image.fence = job[h].base.fence + 1
    /\ SameEntity(job[h].image, job[h].base)

\* As long as nobody has written since, the record is what the Job expects.
JobInv(h) ==
    LET unmoved == job[h].version = store.version
    IN /\ job[h].version <= store.version
       /\ job[h].pc \in {"lease", "confirm"} => Taking(h)
       /\ job[h].pc = "lease" /\ unmoved => store.val = job[h].base
       /\ Granted(h) => Usable(h, job[h].base)
       /\ Granted(h) /\ unmoved =>
             store.val.owner = h /\ store.val.fence = job[h].fence
             /\ SameEntity(store.val, job[h].base)
       /\ job[h].pc \in {"check", "cas"} => job[h].image = Committed(h)
       /\ job[h].pc = "unloadcas" /\ unmoved =>
             store.val.owner = h /\ job[h].image = [store.val EXCEPT !.owner = None, !.expires = 0]

DestroyedUnowned == store.val.destroyed => store.val.owner = None

LeaseInv == DestroyedUnowned /\ PlacedOwner /\ \A h \in Hosts : JobInv(h)

\* What OwnershipFenced says of one step.
FencedStep ==
    /\ store'.val.fence >= store.val.fence
    /\ store'.val.owner \notin {store.val.owner, None} => store'.val.fence > store.val.fence
    /\ store.val.destroyed => store' = store
-----------------------------------------------------------------------------
\* Nobody owns a new record and no Job runs.
LEMMA InitLease == Init => LeaseInv
BY DEF Init, LeaseInv, DestroyedUnowned, PlacedOwner, JobInv, Granted, NoJob, EmptyValue

\* A Job is not disturbed by what other hosts do: if they write, its CAS fails.
LEMMA Undisturbed ==
    ASSUME TypeOK, LeaseInv, NEW g \in Hosts, job'[g] = job[g],
           store' = store \/ store'.version = store.version + 1
    PROVE  JobInv(g)'
<1>1. job[g].version \in Nat /\ store.version \in Nat
  BY DEF TypeOK, JobType
<1>2. JobInv(g)
  BY DEF LeaseInv
<1>3. Granted(g)' = Granted(g) /\ Taking(g)' = Taking(g) /\ Committed(g)' = Committed(g)
  BY DEF Granted, Taking, Committed
<1>4. CASE store' = store
  BY <1>2, <1>3, <1>4 DEF JobInv
<1>5. CASE store'.version = store.version + 1
  <2>1. job[g].version <= store.version
    BY <1>2 DEF JobInv
  <2>2. job[g].version # store'.version /\ job[g].version <= store'.version
    BY <1>1, <1>5, <2>1
  <2> QED BY <1>2, <1>3, <2>2 DEF JobInv
<1> QED BY <1>4, <1>5

\* Taking the lease raises the fence, for a host the entity may be placed on.
LEMMA LeaseWrite ==
    ASSUME TypeOK, LeaseInv, NEW h \in Hosts, job[h].pc = "lease", CasSucceeds(h),
           Write(job[h].image)
    PROVE  FencedStep /\ DestroyedUnowned' /\ PlacedOwner' /\ store'.version = store.version + 1
<1>1. Taking(h) /\ store.val = job[h].base
  BY DEF LeaseInv, JobInv, CasSucceeds
<1>2. store'.val = job[h].image /\ store'.version = store.version + 1
  BY DEF Write
<1>3. store.val.fence \in Nat /\ h # None
  BY HostAssumption DEF TypeOK, Value
<1>4. store'.val.fence = store.val.fence + 1 /\ store'.val.owner = h
  BY <1>1, <1>2 DEF Taking
<1>5. ~store.val.destroyed /\ ~store'.val.destroyed
  BY <1>1, <1>2 DEF Taking, Usable, SameEntity
<1>6. FencedStep
  BY <1>3, <1>4, <1>5 DEF FencedStep
<1>7. store'.val.placement # None => NodeOf[h] = store'.val.placement
  BY <1>1, <1>2 DEF Taking, Usable, SameEntity, Misplaced
<1> QED BY <1>2, <1>4, <1>5, <1>6, <1>7 DEF DestroyedUnowned, PlacedOwner

\* A commit keeps the fence of the lease, and keeps or gives up the ownership.
LEMMA CommitWrite ==
    ASSUME TypeOK, LeaseInv, NEW h \in Hosts, job[h].pc = "cas", CasSucceeds(h),
           Write(job[h].image)
    PROVE  FencedStep /\ DestroyedUnowned' /\ PlacedOwner' /\ store'.version = store.version + 1
<1>1. /\ Usable(h, job[h].base) /\ store.val.owner = h /\ store.val.fence = job[h].fence
      /\ SameEntity(store.val, job[h].base) /\ job[h].image = Committed(h)
  BY DEF LeaseInv, JobInv, CasSucceeds, Granted
<1>2. store'.val = Committed(h) /\ store'.version = store.version + 1
  BY <1>1 DEF Write
<1>3. store.val.fence \in Nat
  BY DEF TypeOK, Value
<1>4. /\ store'.val.fence = store.val.fence
      /\ store'.val.owner = IF IsControl(job[h].a) THEN None ELSE h
      /\ store'.val.destroyed = (Kind[job[h].a] = "destroy")
      /\ ~IsControl(job[h].a) => store'.val.placement = job[h].base.placement
  <2>1. /\ Committed(h).fence = job[h].fence
        /\ Committed(h).owner = IF IsControl(job[h].a) THEN None ELSE h
        /\ Committed(h).destroyed = (Kind[job[h].a] = "destroy")
        /\ Committed(h).placement = IF Kind[job[h].a] = "handoff" THEN Target[job[h].a]
                                    ELSE job[h].base.placement
    BY DEF Committed
  <2>2. Kind[job[h].a] = "handoff" => IsControl(job[h].a)
    BY DEF IsControl, Control
  <2> QED BY <1>1, <1>2, <2>1, <2>2, ZenonT(30)
<1>5. ~store.val.destroyed
  BY <1>1 DEF Usable, SameEntity
<1>6. FencedStep
  BY <1>1, <1>3, <1>4, <1>5 DEF FencedStep
<1>7. DestroyedUnowned'
  BY <1>4, Zenon DEF DestroyedUnowned, IsControl, Control
<1>8. PlacedOwner'
  BY <1>1, <1>4 DEF PlacedOwner, Usable, Misplaced
<1> QED BY <1>2, <1>6, <1>7, <1>8

\* A Release gives up the ownership and changes nothing else.
LEMMA UnloadWrite ==
    ASSUME TypeOK, LeaseInv, NEW h \in Hosts, job[h].pc = "unloadcas", CasSucceeds(h),
           Write(job[h].image)
    PROVE  FencedStep /\ DestroyedUnowned' /\ PlacedOwner' /\ store'.version = store.version + 1
<1>1. store.val.owner = h /\ job[h].image = [store.val EXCEPT !.owner = None, !.expires = 0]
  BY DEF LeaseInv, JobInv, CasSucceeds
<1>2. store'.val = [store.val EXCEPT !.owner = None, !.expires = 0] /\ store'.version = store.version + 1
  BY <1>1 DEF Write
<1>3. store.val \in Value /\ h # None
  BY HostAssumption DEF TypeOK
<1>4. store'.val.fence = store.val.fence /\ store'.val.owner = None
  BY <1>2, <1>3, Zenon DEF Value
<1>5. ~store.val.destroyed /\ store.val.fence \in Nat
  BY <1>1, <1>3 DEF LeaseInv, DestroyedUnowned, Value
<1> QED BY <1>2, <1>4, <1>5 DEF FencedStep, DestroyedUnowned, PlacedOwner

\* The record a Job commits depends on its lease and on what it read only.
LEMMA CommittedStable ==
    ASSUME NEW h \in Hosts, job'[h].a = job[h].a, job'[h].base = job[h].base,
           job'[h].fence = job[h].fence, job'[h].expires = job[h].expires,
           job'[h].version = job[h].version
    PROVE  Committed(h)' = Committed(h)
BY DEF Committed, Initialized

\* A host without a Job that touched the record has nothing to keep.
LEMMA FreshJob ==
    ASSUME NEW h \in Hosts, store.version \in Nat, store' = store, job'[h].version = 0,
           job'[h].pc \in {"none", "read", "unload"}
    PROVE  JobInv(h)'
BY DEF JobInv, Granted

\* The invariant and the fencing hold after a step of h that leaves h's Job as
\* it should be.
LEMMA LeaseFrame ==
    ASSUME TypeOK, LeaseInv, NEW h \in Hosts, JobInv(h)',
           \A g \in Hosts \ {h} : job'[g] = job[g],
           \/ store' = store
           \/ /\ FencedStep /\ DestroyedUnowned' /\ PlacedOwner'
              /\ store'.version = store.version + 1
    PROVE  LeaseInv' /\ FencedStep
<1>1. \A g \in Hosts \ {h} : JobInv(g)'
  BY Undisturbed
<1>2. \A g \in Hosts : JobInv(g)'
  BY <1>1
<1>3. CASE store' = store
  <2>1. store.val.fence \in Nat
    BY DEF TypeOK, Value
  <2>2. DestroyedUnowned' /\ PlacedOwner' /\ FencedStep
    BY <1>3, <2>1 DEF LeaseInv, DestroyedUnowned, PlacedOwner, FencedStep
  <2> QED BY <1>2, <2>2 DEF LeaseInv
<1> QED BY <1>2, <1>3 DEF LeaseInv

\* Every step keeps the lease invariant and is a fenced step: only the lease CAS
\* raises the fence, and only a commit or a release gives the ownership up.
LEMMA LeaseStep ==
    ASSUME TypeOK, LeaseInv, [Next]_vars
    PROVE  LeaseInv' /\ FencedStep
<1>0. store.version \in Nat /\ store.val \in Value /\ job \in [Hosts -> JobType]
  BY DEF TypeOK
<1>1. ASSUME UNCHANGED <<store, job>> PROVE LeaseInv' /\ FencedStep
  <2>1. \A g \in Hosts : JobInv(g)'
    BY <1>1, Undisturbed
  <2>2. store.val.fence \in Nat
    BY <1>0 DEF Value
  <2> QED BY <1>1, <2>1, <2>2 DEF LeaseInv, DestroyedUnowned, PlacedOwner, FencedStep
<1>2. ASSUME NEW h \in Hosts, HostStep(h) PROVE LeaseInv' /\ FencedStep
  <2>0. job[h] \in JobType /\ JobInv(h)
    BY <1>0 DEF LeaseInv
  <2>1. ASSUME NEW a \in Attempts, Call(h, a) PROVE UNCHANGED <<store, job>>
    BY <2>1 DEF Call, Refuse
  <2>2. ASSUME NEW a \in Attempts, Deactivate(h, a), UNCHANGED store
        PROVE  LeaseInv' /\ FencedStep
    <3>1. CASE HasHook
      BY <1>1, <2>2, <3>1 DEF Deactivate
    <3>2. CASE ~HasHook
      <4>1. Unload(h, a)
        BY <2>2, <3>2 DEF Deactivate
      <4>2. /\ job'[h].version = 0 /\ job'[h].pc = "unload"
            /\ \A g \in Hosts \ {h} : job'[g] = job[g]
        BY <1>0, <4>1 DEF Unload, NoJob
      <4> QED BY <1>0, <2>2, <4>2, FreshJob, LeaseFrame
    <3> QED BY <3>1, <3>2
  <2>3. ASSUME NEW a \in Attempts, ControlEntity(h, a) PROVE LeaseInv' /\ FencedStep
    BY <1>1, <2>2, <2>3 DEF ControlEntity, Refuse
  <2>4. CASE Drain(h)
    BY <1>1, <2>2, <2>4 DEF Drain
  <2>5. CASE DropIdle(h) \/ ExpireQueued(h) \/ Tick(h)
    BY <1>1, <2>5 DEF DropIdle, ExpireQueued, Tick
  <2>6. ASSUME job' = [job EXCEPT ![h] = NoJob], UNCHANGED store PROVE LeaseInv' /\ FencedStep
    <3>1. /\ job'[h].version = 0 /\ job'[h].pc = "none"
          /\ \A g \in Hosts \ {h} : job'[g] = job[g]
      BY <1>0, <2>6 DEF NoJob
    <3> QED BY <1>0, <2>6, <3>1, FreshJob, LeaseFrame
  <2>7. CASE AcquireFailed(h) \/ AcquireRefused(h) \/ Replay(h) \/ LogicFails(h)
             \/ ExpireRunning(h) \/ Finish(h) \/ UnloadDone(h) \/ Stop(h) \/ Crash(h)
    BY <2>6, <2>7 DEF AcquireFailed, AcquireRefused, Replay, LogicFails, ExpireRunning, Finish,
                      UnloadDone, Stop, Crash, Halt, Complete, Env
  <2>8. CASE Acquire(h)
    <3>1. /\ job'[h].version = 0 /\ job'[h].pc = "read" /\ UNCHANGED store
          /\ \A g \in Hosts \ {h} : job'[g] = job[g]
      BY <1>0, <2>8 DEF Acquire, NoJob
    <3> QED BY <1>0, <3>1, FreshJob, LeaseFrame
  <2>9. CASE AcquireRead(h)
    <3> DEFINE v == store.val
               ok == Admissible(h, job[h].a, v)
               reuse == ok /\ Reusable(h, v)
    <3>1. UNCHANGED store /\ \A g \in Hosts \ {h} : job'[g] = job[g]
      BY <1>0, <2>9 DEF AcquireRead
    <3>2. /\ job'[h].pc = IF ok /\ ~reuse THEN "lease" ELSE "acquired"
          /\ job'[h].status = IF ok THEN "ok" ELSE "failed"
          /\ job'[h].version = store.version /\ job'[h].base = v
          /\ job'[h].image = IF ok /\ ~reuse THEN LeaseValue(h, v) ELSE v
          /\ job'[h].fence = IF reuse THEN v.fence ELSE 0
      BY <1>0, <2>0, <2>9 DEF AcquireRead, JobType
    <3>3. ok => Usable(h, v)
      BY DEF Admissible, Usable
    <3>4. /\ LeaseValue(h, v).owner = h /\ LeaseValue(h, v).fence = v.fence + 1
          /\ SameEntity(LeaseValue(h, v), v)
      BY <1>0 DEF LeaseValue, SameEntity, Value
    <3>5. reuse => v.owner = h
      BY DEF Reusable
    <3> HIDE DEF ok, reuse
    <3>6. store' = store /\ store.version <= store.version
      BY <1>0, <3>1
    <3>7. JobInv(h)'
      <4>1. CASE ok /\ ~reuse
        <5>1. /\ job'[h].pc = "lease" /\ job'[h].base = v /\ job'[h].image = LeaseValue(h, v)
              /\ job'[h].version = store.version
          BY <3>2, <4>1
        <5>2. Taking(h)'
          BY <3>3, <3>4, <4>1, <5>1 DEF Taking
        <5> QED BY <3>6, <5>1, <5>2 DEF JobInv, Granted
      <4>2. CASE ok /\ reuse
        <5>1. /\ job'[h].pc = "acquired" /\ job'[h].base = v /\ job'[h].fence = v.fence
              /\ job'[h].version = store.version /\ job'[h].status = "ok"
          BY <3>2, <4>2
        <5>2. SameEntity(v, v)
          BY DEF SameEntity
        <5> QED BY <3>3, <3>5, <3>6, <4>2, <5>1, <5>2 DEF JobInv, Granted
      <4>3. CASE ~ok
        <5>1. /\ job'[h].pc = "acquired" /\ job'[h].status = "failed"
              /\ job'[h].version = store.version
          BY <3>2, <4>3
        <5> QED BY <3>6, <5>1 DEF JobInv, Granted
      <4> QED BY <4>1, <4>2, <4>3
    <3> QED BY <3>1, <3>7, LeaseFrame
  <2>10. CASE LeaseCas(h)
    <3>1. /\ \A g \in Hosts \ {h} : job'[g] = job[g]
          /\ job[h].pc = "lease"
      BY <1>0, <2>10 DEF LeaseCas
    <3>2. CASE CasSucceeds(h)
      <4>1. Write(job[h].image) /\ job' = [job EXCEPT ![h].pc = "confirm"]
        BY <2>10, <3>2 DEF LeaseCas
      <4>2. /\ job'[h].pc = "confirm" /\ job'[h].version = job[h].version
            /\ job'[h].base = job[h].base /\ job'[h].image = job[h].image
        BY <1>0, <2>0, <4>1 DEF JobType
      <4>3. FencedStep /\ DestroyedUnowned' /\ PlacedOwner' /\ store'.version = store.version + 1
        BY <3>1, <3>2, <4>1, LeaseWrite
      <4>4. Taking(h)'
        BY <2>0, <3>1, <4>2 DEF JobInv, Taking
      <4>5. job[h].version <= store.version /\ job[h].version \in Nat
        BY <2>0 DEF JobInv, JobType
      <4>6. job'[h].version <= store'.version /\ job'[h].version # store'.version
        BY <1>0, <4>2, <4>3, <4>5
      <4>7. JobInv(h)'
        BY <4>2, <4>4, <4>6 DEF JobInv, Granted
      <4> QED BY <3>1, <4>3, <4>7, LeaseFrame
    <3>3. CASE ~CasSucceeds(h)
      <4>1. /\ store' = store /\ job'[h].version = job[h].version
            /\ job'[h].pc = "read" \/ (job'[h].pc = "acquired" /\ job'[h].status = "failed")
        <5>1. /\ store' = store
              /\ job'[h] = IF job[h].tries = 3
                           THEN [job[h] EXCEPT !.pc = "acquired", !.status = "failed"]
                           ELSE [job[h] EXCEPT !.pc = "read", !.tries = job[h].tries + 1]
          BY <1>0, <2>10, <3>3 DEF LeaseCas
        <5>2. CASE job[h].tries = 3
          BY <2>0, <5>1, <5>2 DEF JobType
        <5>3. CASE job[h].tries # 3
          BY <2>0, <5>1, <5>3 DEF JobType
        <5> QED BY <5>2, <5>3
      <4>2. JobInv(h)'
        BY <2>0, <4>1 DEF JobInv, Granted
      <4> QED BY <3>1, <4>1, <4>2, LeaseFrame
    <3> QED BY <3>2, <3>3
  <2>11. CASE LeaseConfirm(h)
    <3>1. UNCHANGED store /\ \A g \in Hosts \ {h} : job'[g] = job[g]
      BY <1>0, <2>11 DEF LeaseConfirm
    <3>2. Taking(h) /\ job[h].version <= store.version
      BY <2>0, <2>11 DEF LeaseConfirm, JobInv
    <3>3. CASE store.val = job[h].image
      <4>1. /\ job'[h].pc = "acquired" /\ job'[h].version = store.version
            /\ job'[h].fence = job[h].image.fence /\ job'[h].base = job[h].base
        BY <1>0, <2>0, <2>11, <3>3 DEF LeaseConfirm, JobType
      <4>2. Usable(h, job[h].base) /\ store.val.owner = h /\ SameEntity(store.val, job[h].base)
        BY <3>2, <3>3 DEF Taking
      <4>3. store'.version <= store'.version
        BY <1>0, <3>1
      <4>4. JobInv(h)'
        BY <3>1, <3>3, <4>1, <4>2, <4>3 DEF JobInv, Granted
      <4> QED BY <3>1, <4>4, LeaseFrame
    <3>4. CASE store.val # job[h].image
      <4>1. job'[h].pc = "acquired" /\ job'[h].status = "failed" /\ job'[h].version = job[h].version
        BY <1>0, <2>0, <2>11, <3>4 DEF LeaseConfirm, JobType
      <4>2. JobInv(h)'
        BY <3>1, <3>2, <4>1 DEF JobInv, Granted
      <4> QED BY <3>1, <4>2, LeaseFrame
    <3> QED BY <3>3, <3>4
  <2>12. CASE AcquireError(h)
    <3>1. /\ \A g \in Hosts \ {h} : job'[g] = job[g]
          /\ job'[h].pc = "acquired" /\ job'[h].status = "unknown"
          /\ job'[h].version = job[h].version
      BY <1>0, <2>0, <2>12 DEF AcquireError, JobType
    <3>2. job[h].version <= store.version /\ job[h].version \in Nat
      BY <2>0 DEF JobInv, JobType
    <3>3. \/ store' = store
          \/ /\ FencedStep /\ DestroyedUnowned' /\ PlacedOwner'
             /\ store'.version = store.version + 1
      BY <2>12, LeaseWrite DEF AcquireError
    <3>4. job'[h].version <= store'.version
      BY <1>0, <3>1, <3>2, <3>3
    <3>5. JobInv(h)'
      BY <3>1, <3>4 DEF JobInv, Granted
    <3> QED BY <3>1, <3>3, <3>5, LeaseFrame
  <2>13. CASE Execute(h)
    <3>1. /\ UNCHANGED store /\ \A g \in Hosts \ {h} : job'[g] = job[g]
          /\ job'[h].pc = "run" /\ job'[h].version = job[h].version
          /\ job'[h].base = job[h].base /\ job'[h].fence = job[h].fence
      BY <1>0, <2>0, <2>13 DEF Execute, JobType
    <3>2. Granted(h)
      BY <2>13 DEF Execute, Granted
    <3>3. JobInv(h)'
      BY <2>0, <3>1, <3>2 DEF JobInv, Granted
    <3> QED BY <3>1, <3>3, LeaseFrame
  <2>14. CASE LogicDone(h)
    <3>1. /\ UNCHANGED store /\ \A g \in Hosts \ {h} : job'[g] = job[g]
          /\ job'[h].pc = "check" /\ job'[h].version = job[h].version /\ job'[h].a = job[h].a
          /\ job'[h].base = job[h].base /\ job'[h].fence = job[h].fence
          /\ job'[h].expires = job[h].expires /\ job'[h].image = Committed(h)
      BY <1>0, <2>0, <2>14 DEF LogicDone, JobType
    <3>2. Granted(h)
      BY <2>14 DEF LogicDone, Granted
    <3>3. Committed(h)' = Committed(h)
      BY <3>1, CommittedStable
    <3>4. JobInv(h)'
      BY <2>0, <3>1, <3>2, <3>3 DEF JobInv, Granted
    <3> QED BY <3>1, <3>4, LeaseFrame
  <2>15. CASE CheckLease(h)
    <3>1. UNCHANGED store /\ \A g \in Hosts \ {h} : job'[g] = job[g]
      BY <1>0, <2>15 DEF CheckLease
    <3>2. /\ job'[h].pc \in {"answer", "cas"} /\ job'[h].version = job[h].version
          /\ job'[h].a = job[h].a /\ job'[h].base = job[h].base /\ job'[h].fence = job[h].fence
          /\ job'[h].expires = job[h].expires /\ job'[h].image = job[h].image
      <4>1. CASE clock[h] >= job[h].expires
        BY <1>0, <2>0, <2>15, <4>1 DEF CheckLease, JobType
      <4>2. CASE ~(clock[h] >= job[h].expires)
        BY <1>0, <2>0, <2>15, <4>2 DEF CheckLease, JobType
      <4> QED BY <4>1, <4>2
    <3>3. Granted(h) /\ job[h].image = Committed(h)
      BY <2>0, <2>15 DEF CheckLease, Granted, JobInv
    <3>4. Committed(h)' = Committed(h)
      BY <3>2, CommittedStable
    <3>5. JobInv(h)'
      BY <2>0, <3>1, <3>2, <3>3, <3>4 DEF JobInv, Granted
    <3> QED BY <3>1, <3>5, LeaseFrame
  <2>16. CASE CommitCas(h) \/ CommitError(h)
    <3>1. /\ \A g \in Hosts \ {h} : job'[g] = job[g]
          /\ job'[h].pc = "answer" /\ job'[h].version = job[h].version
      <4>1. CASE CommitCas(h) /\ CasSucceeds(h)
        BY <1>0, <2>0, <4>1 DEF CommitCas, JobType
      <4>2. CASE CommitCas(h) /\ ~CasSucceeds(h)
        <5>1. job' = [job EXCEPT ![h] = [job[h] EXCEPT
                        !.pc = "answer", !.ownerLost = TRUE, !.status = "failed"]]
          BY <4>2 DEF CommitCas
        <5> QED BY <1>0, <2>0, <5>1 DEF JobType
      <4>3. CASE CommitError(h)
        BY <1>0, <2>0, <4>3 DEF CommitError, Uncertain, JobType
      <4> QED BY <2>16, <4>1, <4>2, <4>3
    <3>2. job[h].version <= store.version /\ job[h].version \in Nat
      BY <2>0 DEF JobInv, JobType
    <3>3. \/ store' = store
          \/ job[h].pc = "cas" /\ CasSucceeds(h) /\ Write(job[h].image)
      BY <2>16 DEF CommitCas, CommitError
    <3>4. \/ store' = store
          \/ /\ FencedStep /\ DestroyedUnowned' /\ PlacedOwner'
             /\ store'.version = store.version + 1
      BY <3>3, CommitWrite
    <3>5. job'[h].version <= store'.version
      BY <1>0, <3>1, <3>2, <3>4
    <3>6. JobInv(h)'
      BY <3>1, <3>5 DEF JobInv, Granted
    <3> QED BY <3>1, <3>4, <3>6, LeaseFrame
  <2>17. CASE UnloadRead(h)
    <3>1. UNCHANGED store /\ \A g \in Hosts \ {h} : job'[g] = job[g]
      BY <1>0, <2>17 DEF UnloadRead
    <3>2. CASE store.val.owner = h
      <4>1. /\ job'[h].pc = "unloadcas" /\ job'[h].version = store.version
            /\ job'[h].image = [store.val EXCEPT !.owner = None, !.expires = 0]
        BY <1>0, <2>0, <2>17, <3>2 DEF UnloadRead, JobType
      <4>2. store'.version <= store'.version
        BY <1>0, <3>1
      <4>3. JobInv(h)'
        BY <3>1, <3>2, <4>1, <4>2 DEF JobInv, Granted
      <4> QED BY <3>1, <4>3, LeaseFrame
    <3>3. CASE store.val.owner # h
      <4>1. job'[h].pc = "unloaded" /\ job'[h].version = job[h].version
        BY <1>0, <2>0, <2>17, <3>3 DEF UnloadRead, JobType
      <4>2. JobInv(h)'
        BY <2>0, <3>1, <4>1 DEF JobInv, Granted
      <4> QED BY <3>1, <4>2, LeaseFrame
    <3> QED BY <3>2, <3>3
  <2>18. CASE UnloadCas(h) \/ UnloadError(h)
    <3>1. /\ \A g \in Hosts \ {h} : job'[g] = job[g]
          /\ job'[h].pc = "unloaded" /\ job'[h].version = job[h].version
      <4>1. CASE UnloadCas(h) /\ CasSucceeds(h)
        <5>1. job' = [job EXCEPT ![h] = [job[h] EXCEPT !.pc = "unloaded", !.status = "ok"]]
          BY <4>1 DEF UnloadCas
        <5> QED BY <1>0, <2>0, <5>1 DEF JobType
      <4>2. CASE UnloadCas(h) /\ ~CasSucceeds(h)
        BY <1>0, <2>0, <4>2 DEF UnloadCas, JobType
      <4>3. CASE UnloadError(h)
        BY <1>0, <2>0, <4>3 DEF UnloadError, JobType
      <4> QED BY <2>18, <4>1, <4>2, <4>3
    <3>2. job[h].version <= store.version /\ job[h].version \in Nat
      BY <2>0 DEF JobInv, JobType
    <3>3. \/ store' = store
          \/ job[h].pc = "unloadcas" /\ CasSucceeds(h) /\ Write(job[h].image)
      BY <2>18 DEF UnloadCas, UnloadError
    <3>4. \/ store' = store
          \/ /\ FencedStep /\ DestroyedUnowned' /\ PlacedOwner'
             /\ store'.version = store.version + 1
      BY <3>3, UnloadWrite
    <3>5. job'[h].version <= store'.version
      BY <1>0, <3>1, <3>2, <3>4
    <3>6. JobInv(h)'
      BY <3>1, <3>5 DEF JobInv, Granted
    <3> QED BY <3>1, <3>4, <3>6, LeaseFrame
  <2> QED
    BY <1>1, <1>2, <2>1, <2>3, <2>4, <2>5, <2>7, <2>8, <2>9, <2>10, <2>11, <2>12, <2>13, <2>14,
       <2>15, <2>16, <2>17, <2>18 DEF HostStep
<1> QED BY <1>1, <1>2 DEF Next, vars

\* The lease invariant holds in every reachable state.
LEMMA LeaseCorrect == Spec => [](TypeOK /\ LeaseInv)
<1>1. TypeOK /\ LeaseInv /\ [Next]_vars => TypeOK' /\ LeaseInv'
  BY TypeStep, LeaseStep
<1> QED BY InitType, InitLease, <1>1, PTL DEF Spec

\* Ownership is fenced: the fence never decreases, every change of owner raises
\* it, and a destroyed record never changes again (see OwnershipFenced).
THEOREM Fenced == Spec => OwnershipFenced
<1>1. TypeOK /\ LeaseInv /\ [Next]_vars => [FencedStep]_vars
  BY LeaseStep
<1> QED BY LeaseCorrect, <1>1, PTL DEF Spec, OwnershipFenced, FencedStep

\* An entity that was handed off is owned by its new node only (see PlacedOwner).
THEOREM Placed == Spec => []PlacedOwner
<1>1. LeaseInv => PlacedOwner
  BY DEF LeaseInv
<1> QED BY LeaseCorrect, <1>1, PTL
-----------------------------------------------------------------------------
(***************************************************************************)
(* Takeover: who overtakes a Job that holds the lease has seen it run out. *)
(***************************************************************************)
\* Some host's clock has reached t.
Lapsed(t) == \E g \in Hosts : clock[g] >= t

Holding(h) == job[h].pc \in {"acquired", "run", "check", "cas"} /\ job[h].fence # 0

\* A Job has no lease before it is granted, takes only what is its own or has run
\* out, and the record is its own until some clock reaches the end of the lease.
TakeInv(h) ==
    /\ job[h].pc \in {"read", "lease", "confirm"} => job[h].fence = 0
    /\ job[h].pc = "lease" => job[h].base.owner = h \/ job[h].base.expires <= clock[h]
    /\ Holding(h) =>
          \/ /\ job[h].version = store.version
             /\ store.val.owner = h /\ store.val.expires = job[h].expires
          \/ Lapsed(job[h].expires)

Takeover == \A h \in Hosts : TakeInv(h)

\* What a step of h leaves alone: other hosts' Jobs, the past of the clocks, and
\* the record unless h's own CAS succeeds.
LEMMA HostFrame ==
    ASSUME TypeOK, NEW h \in Hosts, HostStep(h)
    PROVE  /\ \A g \in Hosts \ {h} : job'[g] = job[g]
           /\ \A g \in Hosts : clock'[g] >= clock[g]
           /\ \/ store' = store
              \/ /\ job[h].pc \in {"lease", "cas", "unloadcas"}
                 /\ CasSucceeds(h) /\ Write(job[h].image)
<1>0. job \in [Hosts -> JobType] /\ \A g \in Hosts : clock[g] \in Nat
  BY DEF TypeOK
<1>1. \A g \in Hosts : clock'[g] >= clock[g]
  <2>1. CASE Tick(h)
    <3>1. clock' = [clock EXCEPT ![h] = @ + 1] /\ clock \in [Hosts -> Nat]
      BY <2>1 DEF Tick, TypeOK
    <3> QED BY <3>1
  <2>2. CASE ~Tick(h)
    <3>1. clock' = clock
      BY <2>2, Zenon DEF HostStep, Call, ControlEntity, Refuse, DropIdle, Drain, Acquire, ExpireQueued,
         AcquireRead, LeaseCas, LeaseConfirm, AcquireError, AcquireFailed, AcquireRefused, Replay,
         Execute, LogicFails, ExpireRunning, LogicDone, CheckLease, CommitCas, CommitError, Finish,
         UnloadRead, UnloadCas, UnloadError, UnloadDone, Stop, Crash, Halt, Env
    <3> QED BY <1>0, <3>1
  <2> QED BY <2>1, <2>2
<1>2. \/ job' = job
      \/ \E x : job' = [job EXCEPT ![h] = x]
  BY Zenon DEF HostStep, Call, ControlEntity, Refuse, Deactivate, Unload, DropIdle, Drain, Acquire,
         ExpireQueued, AcquireRead, LeaseCas, LeaseConfirm, AcquireError, AcquireFailed,
         AcquireRefused, Replay, Execute, LogicFails, ExpireRunning, LogicDone, CheckLease,
         CommitCas, CommitError, Finish, UnloadRead, UnloadCas, UnloadError, UnloadDone, Stop,
         Crash, Halt, Tick, Complete
<1>3. \A g \in Hosts \ {h} : job'[g] = job[g]
  BY <1>0, <1>2
<1>4. \/ store' = store
      \/ /\ job[h].pc \in {"lease", "cas", "unloadcas"}
         /\ CasSucceeds(h) /\ Write(job[h].image)
  BY Zenon DEF HostStep, Call, ControlEntity, Refuse, DropIdle, Drain, Acquire, ExpireQueued,
         AcquireRead, LeaseCas, LeaseConfirm, AcquireError, AcquireFailed, AcquireRefused, Replay,
         Execute, LogicFails, ExpireRunning, LogicDone, CheckLease, CommitCas, CommitError, Finish,
         UnloadRead, UnloadCas, UnloadError, UnloadDone, Stop, Crash, Halt, Tick, Env
<1> QED BY <1>1, <1>3, <1>4

\* A clock that has reached t stays there.
LEMMA LapsedStays ==
    ASSUME TypeOK, TypeOK', \A g \in Hosts : clock'[g] >= clock[g], NEW t \in Nat, Lapsed(t)
    PROVE  Lapsed(t)'
<1>1. PICK g \in Hosts : clock[g] >= t
  BY DEF Lapsed
<1>2. clock[g] \in Nat /\ clock'[g] \in Nat /\ clock'[g] >= clock[g]
  BY DEF TypeOK
<1>3. clock'[g] >= t
  BY <1>1, <1>2
<1> QED BY <1>3 DEF Lapsed

\* A step of h that keeps its place in the pipeline keeps what TakeInv says of it.
LEMMA TakeKept ==
    ASSUME TypeOK, TypeOK', NEW g \in Hosts, TakeInv(g), \A k \in Hosts : clock'[k] >= clock[k],
           store' = store, job'[g] = job[g]
    PROVE  TakeInv(g)'
<1>1. job[g].expires \in Nat /\ job[g].base.expires \in Nat /\ clock[g] \in Nat /\ clock'[g] \in Nat
  BY Zenon DEF TypeOK, JobType, Value
<1>2. Lapsed(job[g].expires) => Lapsed(job[g].expires)'
  BY <1>1, LapsedStays
<1>3. job'[g].base.expires <= clock[g] => job'[g].base.expires <= clock'[g]
  BY <1>1
<1> QED BY <1>2, <1>3 DEF TakeInv, Holding, Lapsed

\* Another host overtakes g's Job only when g's lease has run out on its clock.
LEMMA Overtaken ==
    ASSUME TypeOK, TypeOK', LeaseInv, NEW g \in Hosts, NEW h \in Hosts \ {g}, TakeInv(g), TakeInv(h),
           \A k \in Hosts : clock'[k] >= clock[k], job'[g] = job[g],
           job[h].pc \in {"lease", "cas", "unloadcas"}, CasSucceeds(h)
    PROVE  TakeInv(g)'
<1>1. job[g].expires \in Nat /\ job[g].base.expires \in Nat /\ clock[g] \in Nat
      /\ clock'[g] \in Nat /\ clock[h] \in Nat /\ store.val.expires \in Nat
  BY Zenon DEF TypeOK, JobType, Value
<1>2. Lapsed(job[g].expires) => Lapsed(job[g].expires)'
  BY <1>1, LapsedStays
<1>3. job'[g].base.expires <= clock[g] => job'[g].base.expires <= clock'[g]
  BY <1>1
<1>4. JobInv(h) /\ store.version = job[h].version
  BY DEF LeaseInv, CasSucceeds
<1>5. ASSUME store.val.owner = g, store.val.expires = job[g].expires
      PROVE  Lapsed(job[g].expires)
  <2>1. job[h].pc = "lease"
    BY <1>4, <1>5 DEF JobInv, Granted
  <2>2. store.val = job[h].base
    BY <1>4, <2>1 DEF JobInv
  <2>3. store.val.expires <= clock[h]
    BY <1>5, <2>1, <2>2 DEF TakeInv
  <2>4. clock[h] >= job[g].expires
    BY <1>1, <1>5, <2>3
  <2> QED BY <2>4 DEF Lapsed
<1>6. Holding(g) => Lapsed(job[g].expires)
  BY <1>5 DEF TakeInv
<1> QED BY <1>2, <1>3, <1>6 DEF TakeInv, Holding, Lapsed

\* A step of h keeps TakeInv of its own Job.
LEMMA OwnTake ==
    ASSUME TypeOK, TypeOK', LeaseInv, NEW h \in Hosts, TakeInv(h), HostStep(h)
    PROVE  TakeInv(h)'
<1>0. job \in [Hosts -> JobType] /\ job[h] \in JobType /\ store.val \in Value /\ JobInv(h)
  BY DEF TypeOK, LeaseInv
<1>1. \A k \in Hosts : clock'[k] >= clock[k]
  BY HostFrame
<1>2. ASSUME UNCHANGED <<store, job>> PROVE TakeInv(h)'
  BY <1>1, <1>2, TakeKept
<1>3. ASSUME job'[h].pc \in {"none", "answer", "unload", "unloadcas", "unloaded"}
      PROVE  TakeInv(h)'
  BY <1>3 DEF TakeInv, Holding
<1>4. ASSUME job'[h].pc \in {"read", "acquired", "confirm"}, job'[h].fence = 0
      PROVE  TakeInv(h)'
  BY <1>4 DEF TakeInv, Holding
<1>5. CASE \E a \in Attempts : Call(h, a)
  BY <1>2, <1>5 DEF Call, Refuse
<1>6. ASSUME NEW a \in Attempts, Deactivate(h, a), UNCHANGED store PROVE TakeInv(h)'
  <2>1. UNCHANGED job \/ job'[h].pc = "unload"
    <3>1. UNCHANGED job \/ Unload(h, a)
      BY <1>6, ZenonT(30) DEF Deactivate
    <3>2. CASE Unload(h, a)
      <4>1. job'[h] = [NoJob EXCEPT !.pc = "unload", !.a = a, !.status = "failed"]
        BY <1>0, <3>2, ZenonT(30) DEF Unload
      <4> QED BY <4>1 DEF NoJob
    <3> QED BY <3>1, <3>2
  <2> QED BY <1>2, <1>3, <1>6, <2>1
<1>7. CASE \E a \in Attempts : ControlEntity(h, a)
  BY <1>2, <1>6, <1>7 DEF ControlEntity, Refuse
<1>8. CASE Drain(h)
  BY <1>2, <1>6, <1>8 DEF Drain
<1>9. CASE DropIdle(h) \/ ExpireQueued(h) \/ Tick(h)
  BY <1>2, <1>9 DEF DropIdle, ExpireQueued, Tick
<1>10. CASE AcquireFailed(h) \/ AcquireRefused(h) \/ Replay(h) \/ LogicFails(h)
            \/ ExpireRunning(h) \/ Finish(h) \/ UnloadDone(h) \/ Stop(h) \/ Crash(h)
  <2>1. job' = [job EXCEPT ![h] = NoJob]
    BY <1>10 DEF AcquireFailed, AcquireRefused, Replay, LogicFails, ExpireRunning, Finish,
                 UnloadDone, Stop, Crash, Halt, Complete
  <2>2. job'[h].pc = "none"
    BY <1>0, <2>1 DEF NoJob
  <2> QED BY <1>3, <2>2
<1>11. CASE Acquire(h)
  <2>1. job'[h].pc = "read" /\ job'[h].fence = 0
    BY <1>0, <1>11 DEF Acquire, NoJob
  <2> QED BY <1>4, <2>1
<1>12. CASE AcquireRead(h)
  <2> DEFINE v == store.val
             ok == Admissible(h, job[h].a, v)
             reuse == ok /\ Reusable(h, v)
  <2>1. /\ job'[h].pc = IF ok /\ ~reuse THEN "lease" ELSE "acquired"
        /\ job'[h].version = store.version /\ job'[h].base = v
        /\ job'[h].fence = IF reuse THEN v.fence ELSE 0
        /\ job'[h].expires = IF reuse THEN v.expires ELSE 0
    BY <1>0, <1>12 DEF AcquireRead, JobType
  <2>2. store' = store /\ clock' = clock /\ clock[h] \in Nat /\ v.expires \in Nat
    BY <1>0, <1>12 DEF AcquireRead, TypeOK, Value
  <2>3. reuse => v.owner = h
    BY DEF Reusable
  <2>4. ok => v.owner = h \/ v.expires <= clock[h]
    <3>1. ok => ~HeldElsewhere(h, v)
      BY ZenonT(30) DEF Admissible
    <3> HIDE DEF ok
    <3> QED BY <2>2, <3>1 DEF HeldElsewhere
  <2> HIDE DEF ok, reuse
  <2>5. CASE ok /\ ~reuse
    BY <2>1, <2>2, <2>4, <2>5 DEF TakeInv, Holding
  <2>6. CASE ~ok \/ reuse
    BY <2>1, <2>2, <2>3, <2>6 DEF TakeInv, Holding
  <2> QED BY <2>5, <2>6
<1>13. CASE LeaseCas(h)
  <2>1. job[h].pc = "lease" /\ job[h].fence = 0
    BY <1>13 DEF LeaseCas, TakeInv
  <2>2. job'[h].pc \in {"read", "acquired", "confirm"} /\ job'[h].fence = job[h].fence
    <3>1. CASE CasSucceeds(h)
      <4>1. job' = [job EXCEPT ![h].pc = "confirm"]
        BY <1>13, <3>1 DEF LeaseCas
      <4> QED BY <1>0, <4>1 DEF JobType
    <3>2. CASE ~CasSucceeds(h)
      <4>1. job'[h] = IF job[h].tries = 3
                      THEN [job[h] EXCEPT !.pc = "acquired", !.status = "failed"]
                      ELSE [job[h] EXCEPT !.pc = "read", !.tries = job[h].tries + 1]
        BY <1>0, <1>13, <3>2 DEF LeaseCas
      <4>2. CASE job[h].tries = 3
        BY <1>0, <4>1, <4>2 DEF JobType
      <4>3. CASE job[h].tries # 3
        BY <1>0, <4>1, <4>3 DEF JobType
      <4> QED BY <4>2, <4>3
    <3> QED BY <3>1, <3>2
  <2> QED BY <1>4, <2>1, <2>2
<1>14. CASE LeaseConfirm(h)
  <2>1. store' = store /\ job[h].fence = 0 /\ Taking(h)
    BY <1>0, <1>14 DEF LeaseConfirm, TakeInv, JobInv
  <2>2. CASE store.val = job[h].image
    <3>1. /\ job'[h].pc = "acquired" /\ job'[h].version = store.version
          /\ job'[h].expires = job[h].image.expires
      BY <1>0, <1>14, <2>2 DEF LeaseConfirm, JobType
    <3>2. store.val.owner = h
      BY <2>1, <2>2 DEF Taking
    <3> QED BY <2>1, <2>2, <3>1, <3>2 DEF TakeInv, Holding
  <2>3. CASE store.val # job[h].image
    <3>1. job'[h].pc = "acquired" /\ job'[h].fence = 0
      BY <1>0, <1>14, <2>1, <2>3 DEF LeaseConfirm, JobType
    <3> QED BY <1>4, <3>1
  <2> QED BY <2>2, <2>3
<1>15. CASE AcquireError(h)
  <2>1. job'[h].pc = "acquired" /\ job'[h].fence = 0
    BY <1>0, <1>15 DEF AcquireError, JobType, TakeInv
  <2> QED BY <1>4, <2>1
<1>16. ASSUME job[h].pc \in {"acquired", "run", "check"}, job'[h].pc \in {"run", "check", "cas"},
              job'[h].fence = job[h].fence, job'[h].version = job[h].version,
              job'[h].expires = job[h].expires, UNCHANGED <<store, clock>>
       PROVE  TakeInv(h)'
  BY <1>16 DEF TakeInv, Holding, Lapsed
<1>17. CASE Execute(h)
  <2>1. /\ job'[h].pc = "run" /\ job'[h].version = job[h].version
        /\ job'[h].fence = job[h].fence /\ job'[h].expires = job[h].expires
    BY <1>0, <1>17 DEF Execute, JobType
  <2> QED BY <1>16, <1>17, <2>1 DEF Execute
<1>18. CASE LogicDone(h)
  <2>1. /\ job'[h].pc = "check" /\ job'[h].version = job[h].version
        /\ job'[h].fence = job[h].fence /\ job'[h].expires = job[h].expires
    BY <1>0, <1>18 DEF LogicDone, JobType
  <2> QED BY <1>16, <1>18, <2>1 DEF LogicDone
<1>19. CASE CheckLease(h)
  <2>1. CASE clock[h] >= job[h].expires
    <3>1. job'[h].pc = "answer"
      BY <1>0, <1>19, <2>1 DEF CheckLease, JobType
    <3> QED BY <1>3, <3>1
  <2>2. CASE ~(clock[h] >= job[h].expires)
    <3>1. /\ job'[h].pc = "cas" /\ job'[h].version = job[h].version
          /\ job'[h].fence = job[h].fence /\ job'[h].expires = job[h].expires
      BY <1>0, <1>19, <2>2 DEF CheckLease, JobType
    <3> QED BY <1>16, <1>19, <3>1 DEF CheckLease
  <2> QED BY <2>1, <2>2
<1>20. CASE CommitCas(h)
  <2>1. CASE CasSucceeds(h)
    <3>1. job' = [job EXCEPT ![h].pc = "answer"]
      BY <1>20, <2>1 DEF CommitCas
    <3>2. job'[h].pc = "answer"
      BY <1>0, <3>1 DEF JobType
    <3> QED BY <1>3, <3>2
  <2>2. CASE ~CasSucceeds(h)
    <3>1. job' = [job EXCEPT ![h] = [job[h] EXCEPT
                    !.pc = "answer", !.ownerLost = TRUE, !.status = "failed"]]
      BY <1>20, <2>2 DEF CommitCas
    <3>2. job'[h].pc = "answer"
      BY <1>0, <3>1 DEF JobType
    <3> QED BY <1>3, <3>2
  <2> QED BY <2>1, <2>2
<1>21. CASE CommitError(h)
  <2>1. job'[h].pc = "answer"
    BY <1>0, <1>21 DEF CommitError, Uncertain, JobType
  <2> QED BY <1>3, <2>1
<1>22. CASE UnloadRead(h) \/ UnloadCas(h) \/ UnloadError(h)
  <2>1. job'[h].pc \in {"unloadcas", "unloaded"}
    <3>1. CASE UnloadRead(h)
      BY <1>0, <3>1 DEF UnloadRead, JobType
    <3>2. CASE UnloadCas(h) /\ CasSucceeds(h)
      <4>1. job' = [job EXCEPT ![h] = [job[h] EXCEPT !.pc = "unloaded", !.status = "ok"]]
        BY <3>2 DEF UnloadCas
      <4> QED BY <1>0, <4>1 DEF JobType
    <3>3. CASE UnloadCas(h) /\ ~CasSucceeds(h)
      BY <1>0, <3>3 DEF UnloadCas, JobType
    <3>4. CASE UnloadError(h)
      BY <1>0, <3>4 DEF UnloadError, JobType
    <3> QED BY <1>22, <3>1, <3>2, <3>3, <3>4
  <2> QED BY <1>3, <2>1
<1> QED BY <1>5, <1>7, <1>8, <1>9, <1>10, <1>11, <1>12, <1>13, <1>14, <1>15, <1>17, <1>18, <1>19,
           <1>20, <1>21, <1>22 DEF HostStep

\* Every step keeps TakeInv: of the stepping host by OwnTake, of the others because
\* only a CAS that finds their lease run out writes over their record.
LEMMA TakeStep ==
    ASSUME TypeOK, TypeOK', LeaseInv, Takeover, [Next]_vars
    PROVE  Takeover'
<1>1. CASE UNCHANGED vars
  <2>1. \A k \in Hosts : clock'[k] >= clock[k]
    BY <1>1 DEF vars, TypeOK
  <2> QED BY <1>1, <2>1, TakeKept DEF vars, Takeover
<1>2. ASSUME NEW h \in Hosts, HostStep(h) PROVE Takeover'
  <2>1. TakeInv(h)'
    BY <1>2, OwnTake DEF Takeover
  <2>2. ASSUME NEW g \in Hosts \ {h} PROVE TakeInv(g)'
    <3>1. /\ job'[g] = job[g] /\ \A k \in Hosts : clock'[k] >= clock[k]
          /\ \/ store' = store
             \/ job[h].pc \in {"lease", "cas", "unloadcas"} /\ CasSucceeds(h)
      BY <1>2, HostFrame
    <3>2. g \in Hosts /\ h \in Hosts \ {g} /\ TakeInv(g) /\ TakeInv(h)
      BY DEF Takeover
    <3> QED BY <3>1, <3>2, TakeKept, Overtaken
  <2> QED BY <2>1, <2>2 DEF Takeover
<1> QED BY <1>1, <1>2 DEF Next

\* No host takes an entity from an owner with a live lease: the record of a Job that
\* holds the lease changes only after some clock reached the lease's end
\* (see NoEarlyTakeover).
THEOREM NotTakenEarly == Spec => []NoEarlyTakeover
<1>1. Init => Takeover
  BY DEF Init, Takeover, TakeInv, Holding, NoJob
<1>2. TypeOK /\ TypeOK' /\ LeaseInv /\ Takeover /\ [Next]_vars => Takeover'
  BY TakeStep
<1>3. Takeover => NoEarlyTakeover
  BY DEF Takeover, TakeInv, Holding, Lapsed, NoEarlyTakeover
<1> QED BY LeaseCorrect, <1>1, <1>2, <1>3, PTL DEF Spec
=============================================================================
