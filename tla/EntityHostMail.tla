--------------------------- MODULE EntityHostMail ---------------------------
(***************************************************************************)
(* The mailboxes of EntityHost: no accepted request is stranded, answered  *)
(* twice or held by two hosts, and a control operation runs alone.         *)
(***************************************************************************)
EXTENDS EntityHostLease

\* The time each prover gets for one obligation, in seconds.
USE SMTT(30), ZenonT(30)

\* A request stands once in a mailbox, and not there while it is the active Job;
\* a Release serves a deactivate() of a type without the method.
Once(h) ==
    /\ IsInjective(slot[h].queue)
    /\ Busy(h) => job[h].a \notin Range(slot[h].queue)
    /\ Unloading(h) => Kind[job[h].a] = "deactivate" /\ ~HasHook

\* What ReleasingMatchesControl says of one host.
Alone(h) ==
    /\ slot[h].releasing => \E a \in Held(h) : IsControl(a)
    /\ \A a \in Held(h) : IsControl(a) => slot[h].releasing /\ Held(h) = {a}

MailInv ==
    /\ \A h \in Hosts : Once(h) /\ Alone(h)
    /\ \A g, h \in Hosts : g # h => Held(g) \cap Held(h) = {}
    /\ \A a \in Attempts : reply[a] = "pending" <=> \E h \in Hosts : a \in Held(h)
-----------------------------------------------------------------------------
\* Appending adds one member to the members of a sequence.
LEMMA RangeAppend ==
    ASSUME NEW S, NEW q \in Seq(S), NEW a \in S
    PROVE  Range(Append(q, a)) = Range(q) \cup {a}
<1> DEFINE r == Append(q, a)
<1>1. /\ Len(q) \in Nat /\ DOMAIN q = 1..Len(q)
      /\ DOMAIN r = 1..(Len(q) + 1)
      /\ r[Len(q) + 1] = a /\ \A i \in 1..Len(q) : r[i] = q[i]
  OBVIOUS
<1> HIDE DEF r
<1>2. \A x : x \in Range(r) <=> \E i \in 1..(Len(q) + 1) : x = r[i]
  BY <1>1 DEF Range
<1>3. \A x : x \in Range(q) <=> \E i \in 1..Len(q) : x = q[i]
  BY <1>1 DEF Range
<1>4. \A i \in 1..(Len(q) + 1) : i \in 1..Len(q) \/ i = Len(q) + 1
  BY <1>1
<1>5. \A i \in 1..Len(q) : i \in 1..(Len(q) + 1)
  BY <1>1
<1>6. \A x : x \in Range(r) <=> x \in Range(q) \/ x = a
  <2>1. Len(q) + 1 \in 1..(Len(q) + 1)
    BY <1>1
  <2> QED BY <2>1, <1>1, <1>2, <1>3, <1>4, <1>5
<1> QED BY <1>6 DEF r

\* A new request keeps the mailbox free of duplicates.
LEMMA AppendOnce ==
    ASSUME NEW S, NEW q \in Seq(S), NEW a \in S, IsInjective(q), a \notin Range(q)
    PROVE  IsInjective(Append(q, a))
<1> DEFINE r == Append(q, a)
<1>1. /\ Len(q) \in Nat /\ DOMAIN q = 1..Len(q) /\ DOMAIN r = 1..(Len(q) + 1)
      /\ r[Len(q) + 1] = a /\ \A i \in 1..Len(q) : r[i] = q[i]
  OBVIOUS
<1> HIDE DEF r
<1>2. \A i \in 1..Len(q) : r[i] # a
  BY <1>1 DEF Range
<1>3. \A i, k \in 1..Len(q) : r[i] = r[k] => i = k
  BY <1>1 DEF IsInjective
<1>4. \A i \in 1..(Len(q) + 1) : i \in 1..Len(q) \/ i = Len(q) + 1
  BY <1>1
<1>5. \A i, k \in 1..(Len(q) + 1) : r[i] = r[k] => i = k
  BY <1>1, <1>2, <1>3, <1>4
<1>6. IsInjective(r)
  BY <1>1, <1>5 DEF IsInjective
<1> QED BY <1>6 DEF r

\* The front of a mailbox without duplicates leaves it.
LEMMA TailElements ==
    ASSUME NEW S, NEW q \in Seq(S), q # <<>>, IsInjective(q)
    PROVE  /\ IsInjective(Tail(q)) /\ Head(q) \in Range(q)
           /\ Range(Tail(q)) = Range(q) \ {Head(q)}
<1> DEFINE r == Tail(q)
           n == Len(q)
<1>1. /\ n \in Nat \ {0} /\ DOMAIN q = 1..n /\ r \in Seq(S) /\ Len(r) = n - 1
      /\ \A i \in 1..(n - 1) : r[i] = q[i + 1]
      /\ Head(q) = q[1]
  OBVIOUS
<1>2. DOMAIN r = 1..(n - 1)
  BY <1>1
<1> HIDE DEF r, n
<1>3. \A i, k \in 1..n : q[i] = q[k] => i = k
  BY <1>1, Zenon DEF IsInjective
<1>4. \A i \in 1..(n - 1) : i + 1 \in 1..n /\ i + 1 # 1
  BY <1>1
<1>5. \A i, k \in 1..(n - 1) : r[i] = r[k] => i = k
  BY <1>1, <1>3, <1>4
<1>6. 1 \in 1..n /\ \A i \in 1..n : i = 1 \/ (i - 1 \in 1..(n - 1) /\ (i - 1) + 1 = i)
  BY <1>1
<1>7. \A x : x \in Range(q) <=> \E i \in 1..n : x = q[i]
  BY <1>1, Zenon DEF Range
<1>8. \A x : x \in Range(r) <=> \E i \in 1..(n - 1) : x = r[i]
  BY <1>2 DEF Range
<1>9. \A x : x \in Range(r) => x \in Range(q) /\ x # q[1]
  BY <1>1, <1>3, <1>4, <1>6, <1>7, <1>8
<1>10. ASSUME NEW x \in Range(q), x # q[1] PROVE x \in Range(r)
  <2>1. PICK i \in 1..n : x = q[i]
    BY <1>7
  <2>2. i - 1 \in 1..(n - 1) /\ (i - 1) + 1 = i
    BY <1>6, <1>10, <2>1
  <2>3. r[i - 1] = x
    BY <1>1, <2>1, <2>2
  <2> QED BY <1>8, <2>2, <2>3
<1>11. Range(r) = Range(q) \ {q[1]}
  BY <1>9, <1>10
<1>12. q[1] \in Range(q)
  BY <1>6, <1>7
<1>13. IsInjective(r)
  BY <1>2, <1>5 DEF IsInjective
<1> QED BY <1>1, <1>11, <1>12, <1>13 DEF r

\* A request that expires leaves a mailbox without duplicates.
LEMMA RemovedRange ==
    ASSUME NEW S, NEW q \in Seq(S), NEW i \in 1..Len(q), IsInjective(q)
    PROVE  IsInjective(Removed(q, i)) /\ Range(Removed(q, i)) = Range(q) \ {q[i]}
<1> DEFINE r == Removed(q, i)
           n == Len(q)
<1>0. n \in Nat /\ DOMAIN q = 1..n /\ i \in 1..n
  OBVIOUS
<1>1. /\ r \in Seq(S) /\ Len(r) = n - 1
      /\ \A k \in 1..(n - 1) : r[k] = IF k < i THEN q[k] ELSE q[k + 1]
  BY RemovedElements, Zenon
<1>2. DOMAIN r = 1..(n - 1)
  BY <1>1
<1> HIDE DEF r, n
<1>3. \A j, k \in 1..n : q[j] = q[k] => j = k
  BY <1>0, Zenon DEF IsInjective
<1>4. \A k \in 1..(n - 1) : k \in 1..n /\ k + 1 \in 1..n
  BY <1>0
<1>5. \A j, k \in 1..(n - 1) : r[j] = r[k] => j = k
  BY <1>0, <1>1, <1>3, <1>4
<1>6. \A k \in 1..n : \/ k = i
                      \/ k < i /\ k \in 1..(n - 1)
                      \/ ~(k - 1 < i) /\ k - 1 \in 1..(n - 1) /\ (k - 1) + 1 = k
  BY <1>0
<1>7. \A x : x \in Range(q) <=> \E k \in 1..n : x = q[k]
  BY <1>0, Zenon DEF Range
<1>8. \A x : x \in Range(r) <=> \E k \in 1..(n - 1) : x = r[k]
  BY <1>2 DEF Range
<1>9. \A x : x \in Range(r) => x \in Range(q) /\ x # q[i]
  BY <1>0, <1>1, <1>3, <1>4, <1>7, <1>8
<1>10. ASSUME NEW x \in Range(q), x # q[i] PROVE x \in Range(r)
  <2>1. PICK k \in 1..n : x = q[k]
    BY <1>7
  <2>2. CASE k < i /\ k \in 1..(n - 1)
    BY <1>1, <1>8, <2>1, <2>2
  <2>3. CASE ~(k - 1 < i) /\ k - 1 \in 1..(n - 1) /\ (k - 1) + 1 = k
    <3>1. r[k - 1] = x
      BY <1>1, <2>1, <2>3
    <3> QED BY <1>8, <2>3, <3>1
  <2> QED BY <1>6, <1>10, <2>1, <2>2, <2>3
<1>11. Range(r) = Range(q) \ {q[i]}
  BY <1>9, <1>10
<1>12. IsInjective(r)
  BY <1>2, <1>5 DEF IsInjective
<1> QED BY <1>11, <1>12 DEF r
-----------------------------------------------------------------------------
\* A host holds attempts only.
LEMMA HeldType == ASSUME TypeOK, NEW h \in Hosts PROVE Held(h) \subseteq Attempts
<1>1. slot[h].queue \in Seq(Attempts) /\ (job[h].pc # "none" => job[h].a \in Attempts)
  BY DEF TypeOK, SlotType
<1>2. Range(slot[h].queue) \subseteq Attempts
  BY <1>1 DEF Range
<1> QED BY <1>1, <1>2 DEF Held, Busy

\* At the start nothing is pending and no slot exists.
LEMMA InitMail == Init => MailInv
<1> SUFFICES ASSUME Init PROVE MailInv
  OBVIOUS
<1>1. \A h \in Hosts : slot[h] = NoSlot /\ job[h] = NoJob
  BY DEF Init
<1>2. \A h \in Hosts : slot[h].queue = <<>> /\ ~Busy(h) /\ ~slot[h].releasing
  BY <1>1 DEF NoSlot, NoJob, Busy
<1>3. Range(<<>>) = {} /\ IsInjective(<<>>)
  BY DEF Range, IsInjective
<1>4. \A h \in Hosts : Held(h) = {}
  BY <1>2, <1>3 DEF Held
<1>5. \A h \in Hosts : Once(h) /\ Alone(h)
  BY <1>2, <1>3, <1>4 DEF Once, Alone, Unloading, Busy
<1>6. \A a \in Attempts : reply[a] # "pending"
  BY DEF Init
<1> QED BY <1>4, <1>5, <1>6 DEF MailInv

\* The invariant holds after a step of h if h's mailbox is as it should be, what
\* h has taken in was not yet offered, and the replies follow what h holds.
LEMMA MailFrame ==
    ASSUME TypeOK, MailInv, NEW h \in Hosts, Once(h)', Alone(h)',
           \A g \in Hosts \ {h} : slot'[g] = slot[g] /\ job'[g] = job[g],
           \A a \in Held(h)' : a \in Held(h) \/ reply[a] = "none",
           \A a \in Attempts :
               reply'[a] = "pending" <=>
                   a \in Held(h)' \/ (a \notin Held(h) /\ reply[a] = "pending")
    PROVE  MailInv'
<1>1. \A g \in Hosts \ {h} : Held(g)' = Held(g)
  BY DEF Held, Busy
<1>2. \A g \in Hosts \ {h} : Once(g)' /\ Alone(g)'
  BY <1>1 DEF MailInv, Once, Alone, Busy, Unloading
<1>3. \A g \in Hosts : \A a \in Held(g) : a \in Attempts /\ reply[a] = "pending"
  BY HeldType DEF MailInv
<1>4. \A g \in Hosts \ {h} : Held(g)' \cap Held(h)' = {}
  BY <1>1, <1>3 DEF MailInv
<1>5. \A f, g \in Hosts : f # g => Held(f)' \cap Held(g)' = {}
  <2> SUFFICES ASSUME NEW f \in Hosts, NEW g \in Hosts, f # g PROVE Held(f)' \cap Held(g)' = {}
    OBVIOUS
  <2>1. CASE f = h \/ g = h
    BY <1>4, <2>1
  <2>2. CASE f # h /\ g # h
    BY <1>1, <2>2 DEF MailInv
  <2> QED BY <2>1, <2>2
<1>6. ASSUME NEW a \in Attempts
      PROVE  reply'[a] = "pending" <=> \E g \in Hosts : a \in Held(g)'
  <2>1. ASSUME reply'[a] = "pending" PROVE \E g \in Hosts : a \in Held(g)'
    <3>1. CASE a \in Held(h)'
      BY <3>1
    <3>2. CASE a \notin Held(h) /\ reply[a] = "pending"
      <4>1. PICK g \in Hosts : a \in Held(g)
        BY <3>2 DEF MailInv
      <4> QED BY <1>1, <3>2, <4>1
    <3> QED BY <2>1, <3>1, <3>2
  <2>2. ASSUME NEW g \in Hosts, a \in Held(g)' PROVE reply'[a] = "pending"
    <3>1. CASE g = h
      BY <2>2, <3>1
    <3>2. CASE g # h
      <4>1. a \in Held(g) /\ reply[a] = "pending"
        BY <1>1, <1>3, <2>2, <3>2
      <4>2. a \notin Held(h)
        BY <3>2, <4>1 DEF MailInv
      <4> QED BY <4>1, <4>2
    <3> QED BY <3>1, <3>2
  <2> QED BY <2>1, <2>2
<1>7. \A g \in Hosts : Once(g)' /\ Alone(g)'
  BY <1>2
<1>8. \A a \in Attempts : (reply[a] = "pending")' <=> \E g \in Hosts : a \in Held(g)'
  BY <1>6
<1> QED BY <1>5, <1>7, <1>8 DEF MailInv

\* enqueue() takes a new request into the mailbox; a control operation only
\* into an empty one.
LEMMA MailEnqueue ==
    ASSUME TypeOK, MailInv, NEW h \in Hosts, NEW a \in Attempts, reply[a] = "none",
           Enqueue(h, a), UNCHANGED job, IsControl(a) => Idle(h)
    PROVE  MailInv'
<1>1. slot[h] \in SlotType /\ slot \in [Hosts -> SlotType] /\ slot[h].queue \in Seq(Attempts)
  BY DEF TypeOK, SlotType
<1>2. slot'[h].queue = Append(slot[h].queue, a) /\ slot'[h].releasing = IsControl(a)
      /\ \A g \in Hosts \ {h} : slot'[g] = slot[g]
  BY <1>1 DEF Enqueue, SlotType
<1>3. a \notin Held(h) /\ Once(h) /\ Alone(h)
  BY DEF MailInv
<1>4. a \notin Range(slot[h].queue) /\ (Busy(h) => a # job[h].a)
  BY <1>3 DEF Held
<1>5. Range(slot'[h].queue) = Range(slot[h].queue) \cup {a} /\ IsInjective(slot'[h].queue)
  BY <1>1, <1>2, <1>3, <1>4, RangeAppend, AppendOnce DEF Once
<1>6. Held(h)' = Held(h) \cup {a} /\ Busy(h)' = Busy(h)
  BY <1>5 DEF Held, Busy
<1>7. Once(h)'
  BY <1>3, <1>4, <1>5, <1>6 DEF Once, Unloading
<1>8. Alone(h)'
  <2>1. CASE IsControl(a)
    <3>1. Held(h) = {}
      <4>1. ~Busy(h) /\ slot[h].queue = <<>>
        BY <2>1 DEF Idle
      <4>2. Range(<<>>) = {}
        BY DEF Range
      <4> QED BY <4>1, <4>2 DEF Held
    <3> QED BY <1>2, <1>6, <2>1, <3>1 DEF Alone
  <2>2. CASE ~IsControl(a)
    <3>1. ~slot[h].releasing
      BY DEF Enqueue, Refused
    <3>2. \A b \in Held(h) : ~IsControl(b)
      BY <1>3, <3>1 DEF Alone
    <3> QED BY <1>2, <1>6, <2>2, <3>2 DEF Alone
  <2> QED BY <2>1, <2>2
<1>9. \A b \in Attempts : reply'[b] = IF b = a THEN "pending" ELSE reply[b]
  BY DEF Enqueue, Answer, TypeOK
<1>10. \A b \in Attempts :
          reply'[b] = "pending" <=> b \in Held(h)' \/ (b \notin Held(h) /\ reply[b] = "pending")
  BY <1>6, <1>9, HeldType DEF MailInv
<1> QED BY <1>2, <1>6, <1>7, <1>8, <1>10, MailFrame

\* A step that neither takes in nor answers a request.
LEMMA MailKept ==
    ASSUME TypeOK, MailInv, NEW h \in Hosts, UNCHANGED <<slot, reply>>,
           \A g \in Hosts \ {h} : job'[g] = job[g],
           job'[h].a = job[h].a, Busy(h) /\ Busy(h)', Unloading(h)' => Unloading(h)
    PROVE  MailInv'
<1>1. Held(h)' = Held(h)
  BY DEF Held
<1>2. Once(h)' /\ Alone(h)'
  BY <1>1 DEF MailInv, Once, Alone
<1>3. \A a \in Held(h) : reply[a] = "pending"
  BY HeldType DEF MailInv
<1> QED BY <1>1, <1>2, <1>3, MailFrame

\* A request that is refused was not held.
LEMMA MailRefuse ==
    ASSUME TypeOK, MailInv, NEW h \in Hosts, NEW a \in Attempts, reply[a] = "none",
           Refuse(h, a)
    PROVE  MailInv'
<1>1. \A b \in Attempts : reply'[b] = IF b = a THEN "failed" ELSE reply[b]
  BY DEF Refuse, Answer, TypeOK
<1>2. UNCHANGED <<slot, job>>
  BY DEF Refuse
<1>3. Held(h)' = Held(h) /\ Once(h)' /\ Alone(h)'
  BY <1>2 DEF MailInv, Held, Busy, Once, Alone, Unloading
<1>4. \A b \in Held(h) : b \in Attempts /\ reply[b] = "pending"
  BY HeldType DEF MailInv
<1> QED BY <1>1, <1>2, <1>3, <1>4, MailFrame

\* A Release starts on an idle instance.
LEMMA MailUnload ==
    ASSUME TypeOK, MailInv, NEW h \in Hosts, NEW a \in Attempts, reply[a] = "none",
           Kind[a] = "deactivate", ~HasHook, Idle(h), Unload(h, a)
    PROVE  MailInv'
<1>1. /\ slot'[h].queue = <<>> /\ slot'[h].releasing = TRUE
      /\ \A g \in Hosts \ {h} : slot'[g] = slot[g]
  BY DEF Unload, Idle, TypeOK, SlotType
<1>2. /\ job'[h].pc = "unload" /\ job'[h].a = a
      /\ \A g \in Hosts \ {h} : job'[g] = job[g]
  BY DEF Unload, TypeOK, NoJob
<1>3. Range(<<>>) = {} /\ IsInjective(<<>>)
  BY DEF Range, IsInjective
<1>4. Held(h) = {} /\ Held(h)' = {a}
  BY <1>1, <1>2, <1>3 DEF Held, Busy, Idle
<1>5. Once(h)' /\ Alone(h)'
  BY <1>1, <1>2, <1>3, <1>4 DEF Once, Alone, IsControl, Control
<1>6. \A b \in Attempts : reply'[b] = IF b = a THEN "pending" ELSE reply[b]
  BY DEF Unload, Answer, TypeOK
<1> QED BY <1>1, <1>2, <1>4, <1>5, <1>6, MailFrame

\* A control operation enters an empty mailbox, or goes to the worker as a Release.
LEMMA MailDeactivate ==
    ASSUME TypeOK, MailInv, NEW h \in Hosts, NEW a \in Attempts, reply[a] = "none",
           Kind[a] = "deactivate", Deactivate(h, a)
    PROVE  MailInv'
BY MailEnqueue, MailUnload DEF Deactivate

\* poll(): the front of the mailbox becomes the active Job.
LEMMA MailAcquire ==
    ASSUME TypeOK, MailInv, NEW h \in Hosts, Acquire(h)
    PROVE  MailInv'
<1> DEFINE q == slot[h].queue
<1>1. q \in Seq(Attempts) /\ q # <<>> /\ ~Busy(h)
  BY DEF TypeOK, SlotType, Acquire
<1>2. /\ slot'[h].queue = Tail(q) /\ slot'[h].releasing = slot[h].releasing
      /\ \A g \in Hosts \ {h} : slot'[g] = slot[g]
  BY DEF Acquire, TypeOK, SlotType
<1>3. /\ job'[h].pc = "read" /\ job'[h].a = Head(q)
      /\ \A g \in Hosts \ {h} : job'[g] = job[g]
  BY DEF Acquire, TypeOK, NoJob
<1>4. IsInjective(q)
  BY DEF MailInv, Once
<1> HIDE DEF q
<1>5. /\ IsInjective(Tail(q)) /\ Head(q) \in Range(q)
      /\ Range(Tail(q)) = Range(q) \ {Head(q)}
  BY <1>1, <1>4, TailElements
<1>6. Held(h) = Range(q)
  BY <1>1 DEF Held, q
<1>7. Held(h)' = Range(Tail(q)) \cup {Head(q)} /\ Busy(h)'
  BY <1>2, <1>3 DEF Held, Busy
<1>8. Held(h)' = Held(h)
  BY <1>5, <1>6, <1>7
<1>9. Once(h)'
  BY <1>2, <1>3, <1>5 DEF Once, Unloading
<1>10. Alone(h)'
  BY <1>2, <1>8 DEF MailInv, Alone
<1>11. \A a \in Held(h) : reply[a] = "pending"
  BY HeldType DEF MailInv
<1>12. UNCHANGED reply
  BY DEF Acquire
<1> QED BY <1>2, <1>3, <1>8, <1>9, <1>10, <1>11, <1>12, MailFrame

\* poll(): a queued request expires.
LEMMA MailExpire ==
    ASSUME TypeOK, MailInv, NEW h \in Hosts, ExpireQueued(h)
    PROVE  MailInv'
<1> DEFINE q == slot[h].queue
<1>1. PICK i \in DOMAIN q :
        /\ slot' = [slot EXCEPT ![h].queue = Removed(@, i),
                                ![h].releasing = @ /\ ~IsControl(q[i])]
        /\ Answer(q[i], "failed")
  BY Zenon DEF ExpireQueued, Removed
<1>2. UNCHANGED job
  BY DEF ExpireQueued
<1>3. /\ slot'[h].queue = Removed(q, i)
      /\ slot'[h].releasing = (slot[h].releasing /\ ~IsControl(q[i]))
      /\ \A g \in Hosts \ {h} : slot'[g] = slot[g]
  BY <1>1 DEF TypeOK, SlotType
<1>4. q \in Seq(Attempts) /\ i \in 1..Len(q) /\ q[i] \in Attempts /\ q[i] \in Range(q)
  BY DEF TypeOK, SlotType, Range
<1>5. Once(h) /\ Alone(h)
  BY DEF MailInv
<1>6. IsInjective(q) /\ (Busy(h) => job[h].a \notin Range(q))
  BY <1>5 DEF Once
<1>7. Held(h) = Range(q) \cup IF Busy(h) THEN {job[h].a} ELSE {}
  BY DEF Held
<1>8. \A b \in Attempts : reply'[b] = IF b = q[i] THEN "failed" ELSE reply[b]
  BY <1>1, <1>4 DEF Answer, TypeOK
<1> HIDE DEF q
<1>9. IsInjective(Removed(q, i)) /\ Range(Removed(q, i)) = Range(q) \ {q[i]}
  BY <1>4, <1>6, RemovedRange
<1>10. Busy(h)' = Busy(h) /\ Held(h)' = Held(h) \ {q[i]}
  BY <1>2, <1>3, <1>4, <1>6, <1>7, <1>9 DEF Held, Busy
<1>11. Once(h)'
  BY <1>2, <1>3, <1>5, <1>6, <1>9, <1>10 DEF Once, Unloading
<1>12. q[i] \in Held(h)
  BY <1>4, <1>7
<1>13. Alone(h)'
  <2>1. CASE IsControl(q[i])
    <3>1. Held(h) = {q[i]}
      BY <1>5, <1>12, <2>1 DEF Alone
    <3> QED BY <1>3, <1>10, <2>1, <3>1, Zenon DEF Alone
  <2>2. CASE ~IsControl(q[i])
    <3>1. \A a \in Held(h) : ~IsControl(a)
      BY <1>5, <1>12, <2>2 DEF Alone
    <3> QED BY <1>3, <1>5, <1>10, <3>1, Zenon DEF Alone
  <2> QED BY <2>1, <2>2
<1>14. \A a \in Held(h) : reply[a] = "pending"
  BY HeldType DEF MailInv
<1>15. \A a \in Attempts :
          reply'[a] = "pending" <=> a \in Held(h)' \/ (a \notin Held(h) /\ reply[a] = "pending")
  BY <1>8, <1>10, <1>12, <1>14
<1>16. /\ \A g \in Hosts \ {h} : slot'[g] = slot[g] /\ job'[g] = job[g]
       /\ \A a \in Held(h)' : a \in Held(h)
  BY <1>2, <1>3, <1>10
<1> QED BY <1>11, <1>13, <1>15, <1>16, MailFrame

\* The Job of h is answered; what is left of the mailbox is as it was, or empty.
LEMMA MailAnswered ==
    ASSUME TypeOK, MailInv, NEW h \in Hosts, Busy(h), NEW status \in Statuses,
           \A g \in Hosts \ {h} : slot'[g] = slot[g],
           job' = [job EXCEPT ![h] = NoJob], Answer(job[h].a, status),
           slot'[h].queue = slot[h].queue, slot'[h].releasing = FALSE
    PROVE  MailInv'
<1>1. /\ job'[h].pc = "none" /\ \A g \in Hosts \ {h} : job'[g] = job[g]
      /\ job[h].a \in Attempts
  BY Zenon DEF TypeOK, NoJob, Busy
<1>2. Once(h) /\ Alone(h)
  BY DEF MailInv
<1>3. Held(h)' = Held(h) \ {job[h].a} /\ ~Busy(h)' /\ job[h].a \in Held(h)
  BY <1>1, <1>2, Zenon DEF Held, Busy, Once
<1>4. Once(h)'
  BY <1>1, <1>2, <1>3 DEF Once, Unloading
<1>5. \A a \in Held(h)' : ~IsControl(a)
  BY <1>2, <1>3 DEF Alone
<1>6. Alone(h)'
  BY <1>5 DEF Alone
<1>7. \A b \in Attempts : reply'[b] = IF b = job[h].a THEN status ELSE reply[b]
  BY <1>1 DEF Answer, TypeOK
<1>8. status # "pending"
  BY DEF Statuses
<1>9. \A a \in Held(h) : reply[a] = "pending"
  BY HeldType DEF MailInv
<1>10. \A a \in Attempts :
          reply'[a] = "pending" <=> a \in Held(h)' \/ (a \notin Held(h) /\ reply[a] = "pending")
  BY <1>3, <1>7, <1>8, <1>9
<1> QED BY <1>1, <1>3, <1>4, <1>6, <1>10, MailFrame

\* A control operation that runs has the mailbox to itself.
LEMMA ControlAlone ==
    ASSUME TypeOK, MailInv, NEW h \in Hosts, Busy(h), IsControl(job[h].a)
    PROVE  slot[h].queue = <<>>
<1>1. job[h].a \in Held(h) /\ job[h].a \notin Range(slot[h].queue)
  BY DEF Held, MailInv, Once
<1>2. Held(h) = {job[h].a}
  BY <1>1 DEF MailInv, Alone
<1>3. Range(slot[h].queue) = {}
  BY <1>1, <1>2 DEF Held
<1>4. slot[h].queue \in Seq(Attempts)
  BY DEF TypeOK, SlotType
<1>5. 1 \notin DOMAIN slot[h].queue
  BY <1>3, Zenon DEF Range
<1> QED BY <1>4, <1>5

\* complete() erases only a slot whose mailbox is empty.
LEMMA MailComplete ==
    ASSUME TypeOK, MailInv, NEW h \in Hosts, Busy(h), NEW status \in Statuses,
           Complete(h, status)
    PROVE  MailInv'
<1>1. slot[h] \in SlotType /\ \A g \in Hosts \ {h} : slot'[g] = slot[g]
  BY DEF TypeOK, Complete
<1>2. CASE SlotErased(h, status)
  <2>1. slot[h].queue = <<>>
    <3>1. CASE IsControl(job[h].a)
      BY <3>1, ControlAlone
    <3>2. CASE ~IsControl(job[h].a)
      BY <1>2, <3>2 DEF SlotErased
    <3> QED BY <3>1, <3>2
  <2>2. slot'[h] = NoSlot
    BY <1>2 DEF Complete, TypeOK
  <2>3. slot'[h].queue = slot[h].queue /\ slot'[h].releasing = FALSE
    BY <2>1, <2>2 DEF NoSlot
  <2> QED BY <1>1, <2>3, MailAnswered, Zenon DEF Complete
<1>3. CASE ~SlotErased(h, status)
  <2>1. slot'[h] = SlotAfter(h, status)
    BY <1>3 DEF Complete, TypeOK
  <2>2. slot'[h].queue = slot[h].queue /\ slot'[h].releasing = FALSE
    BY <1>1, <2>1, Zenon DEF SlotAfter, SlotType
  <2> QED BY <1>1, <2>2, MailAnswered, Zenon DEF Complete
<1> QED BY <1>2, <1>3

\* stop() and a crash answer everything the host holds.
LEMMA MailHalt ==
    ASSUME TypeOK, MailInv, NEW h \in Hosts, Halt(h)
    PROVE  MailInv'
<1>1. /\ slot'[h] = NoSlot /\ job'[h] = NoJob
      /\ \A g \in Hosts \ {h} : slot'[g] = slot[g] /\ job'[g] = job[g]
  BY DEF Halt, TypeOK
<1>2. slot'[h].queue = <<>> /\ slot'[h].releasing = FALSE /\ ~Busy(h)' /\ ~Unloading(h)'
  BY <1>1 DEF NoSlot, NoJob, Busy, Unloading
<1>3. Range(<<>>) = {} /\ IsInjective(<<>>)
  BY DEF Range, IsInjective
<1>4. Held(h)' = {}
  BY <1>2, <1>3 DEF Held
<1>5. Once(h)' /\ Alone(h)'
  BY <1>2, <1>3, <1>4 DEF Once, Alone
<1>6. \A a \in Attempts : reply'[a] = IF a \in Held(h) THEN "unknown" ELSE reply[a]
  BY DEF Halt
<1> QED BY <1>1, <1>4, <1>5, <1>6, MailFrame

\* A step of the worker, or the start or the end of the logic, stays with the
\* request it serves.
LEMMA JobKept ==
    ASSUME TypeOK, NEW h \in Hosts,
           \/ AcquireRead(h) \/ LeaseCas(h) \/ LeaseConfirm(h) \/ AcquireError(h) \/ Execute(h)
           \/ LogicDone(h) \/ CheckLease(h) \/ CommitCas(h) \/ CommitError(h)
           \/ UnloadRead(h) \/ UnloadCas(h) \/ UnloadError(h)
    PROVE  /\ job'[h].a = job[h].a /\ Busy(h) /\ Busy(h)'
           /\ Unloading(h)' => Unloading(h)
<1>0. job \in [Hosts -> JobType] /\ job[h] \in JobType
  BY DEF TypeOK
<1> USE DEF Busy, Unloading
<1>1. CASE AcquireRead(h)
  <2>1. job'[h].a = job[h].a /\ job'[h].pc \in {"lease", "acquired"} /\ job[h].pc = "read"
    BY <1>0, <1>1 DEF AcquireRead, JobType
  <2> QED BY <2>1
<1>2. CASE LeaseCas(h)
  <2>1. CASE CasSucceeds(h)
    <3>1. job'[h] = [job[h] EXCEPT !.pc = "confirm"]
      BY <1>0, <1>2, <2>1 DEF LeaseCas
    <3>2. job[h].pc = "lease"
      BY <1>2 DEF LeaseCas
    <3> QED BY <1>0, <3>1, <3>2 DEF JobType
  <2>2. CASE ~CasSucceeds(h)
    <3>1. job'[h] = IF job[h].tries = 3
                    THEN [job[h] EXCEPT !.pc = "acquired", !.status = "failed"]
                    ELSE [job[h] EXCEPT !.pc = "read", !.tries = job[h].tries + 1]
      BY <1>0, <1>2, <2>2 DEF LeaseCas
    <3>2. job[h].pc = "lease"
      BY <1>2 DEF LeaseCas
    <3>3. CASE job[h].tries = 3
      BY <1>0, <3>1, <3>2, <3>3 DEF JobType
    <3>4. CASE job[h].tries # 3
      BY <1>0, <3>1, <3>2, <3>4 DEF JobType
    <3> QED BY <3>3, <3>4
  <2> QED BY <2>1, <2>2
<1>3. CASE LeaseConfirm(h)
  <2>1. CASE store.val = job[h].image
    BY <1>0, <1>3, <2>1 DEF LeaseConfirm, JobType
  <2>2. CASE store.val # job[h].image
    BY <1>0, <1>3, <2>2 DEF LeaseConfirm, JobType
  <2> QED BY <2>1, <2>2
<1>4. CASE AcquireError(h)
  BY <1>0, <1>4 DEF AcquireError, JobType
<1>5. CASE Execute(h)
  BY <1>0, <1>5 DEF Execute, JobType
<1>6. CASE LogicDone(h)
  BY <1>0, <1>6 DEF LogicDone, JobType
<1>7. CASE CheckLease(h)
  <2>1. CASE clock[h] >= job[h].expires
    BY <1>0, <1>7, <2>1 DEF CheckLease, JobType
  <2>2. CASE ~(clock[h] >= job[h].expires)
    BY <1>0, <1>7, <2>2 DEF CheckLease, JobType
  <2> QED BY <2>1, <2>2
<1>8. CASE CommitCas(h)
  <2>1. CASE CasSucceeds(h)
    BY <1>0, <1>8, <2>1 DEF CommitCas, JobType
  <2>2. CASE ~CasSucceeds(h)
    <3>1. job[h].pc = "cas"
          /\ job'[h] = [job[h] EXCEPT !.pc = "answer", !.ownerLost = TRUE, !.status = "failed"]
      BY <1>0, <1>8, <2>2 DEF CommitCas
    <3> QED BY <1>0, <3>1 DEF JobType
  <2> QED BY <2>1, <2>2
<1>9. CASE CommitError(h)
  BY <1>0, <1>9 DEF CommitError, Uncertain, JobType
<1>10. CASE UnloadRead(h)
  <2>1. CASE store.val.owner = h
    BY <1>0, <1>10, <2>1 DEF UnloadRead, JobType
  <2>2. CASE store.val.owner # h
    BY <1>0, <1>10, <2>2 DEF UnloadRead, JobType
  <2> QED BY <2>1, <2>2
<1>11. CASE UnloadCas(h)
  <2>1. CASE CasSucceeds(h)
    <3>1. job[h].pc = "unloadcas" /\ job'[h] = [job[h] EXCEPT !.pc = "unloaded", !.status = "ok"]
      BY <1>0, <1>11, <2>1 DEF UnloadCas
    <3> QED BY <1>0, <3>1 DEF JobType
  <2>2. CASE ~CasSucceeds(h)
    BY <1>0, <1>11, <2>2 DEF UnloadCas, JobType
  <2> QED BY <2>1, <2>2
<1>12. CASE UnloadError(h)
  BY <1>0, <1>12 DEF UnloadError, JobType
<1> QED BY <1>1, <1>2, <1>3, <1>4, <1>5, <1>6, <1>7, <1>8, <1>9, <1>10, <1>11, <1>12, Zenon

\* Every step keeps each pending attempt at exactly one host and place.
LEMMA MailStep == ASSUME TypeOK, MailInv, [Next]_vars PROVE MailInv'
<1>0. job \in [Hosts -> JobType] /\ slot \in [Hosts -> SlotType]
  BY DEF TypeOK
<1>1. ASSUME UNCHANGED <<slot, job, reply>> PROVE MailInv'
  <2>1. \A h \in Hosts : Held(h)' = Held(h) /\ Busy(h)' = Busy(h) /\ Unloading(h)' = Unloading(h)
    BY <1>1 DEF Held, Busy, Unloading
  <2>2. \A h \in Hosts : Once(h)' /\ Alone(h)'
    BY <1>1, <2>1 DEF MailInv, Once, Alone
  <2> QED BY <1>1, <2>1, <2>2 DEF MailInv
<1>2. ASSUME NEW h \in Hosts, HostStep(h) PROVE MailInv'
  <2>0. job[h] \in JobType /\ slot[h] \in SlotType
    BY <1>0, Zenon
  <2>1. ASSUME NEW a \in Attempts, Call(h, a) PROVE MailInv'
    <3>1. reply[a] = "none" /\ ~IsControl(a)
      BY <2>1 DEF Call, Offered
    <3> QED BY <2>1, <3>1, MailEnqueue, MailRefuse, ZenonT(30) DEF Call
  <2>2. ASSUME NEW a \in Attempts, ControlEntity(h, a) PROVE MailInv'
    <3>1. reply[a] = "none"
      BY <2>2, Zenon DEF ControlEntity, Offered
    <3> QED BY <2>2, <3>1, MailEnqueue, MailDeactivate, MailRefuse, Zenon DEF ControlEntity
  <2>3. CASE Drain(h)
    BY <1>1, <2>3, MailDeactivate, Zenon DEF Drain, Offered
  <2>4. CASE DropIdle(h)
    <3>1. /\ slot'[h] = NoSlot /\ UNCHANGED <<job, reply>>
          /\ \A g \in Hosts \ {h} : slot'[g] = slot[g]
      BY <1>0, <2>4 DEF DropIdle
    <3>2. slot[h].queue = <<>> /\ ~slot[h].releasing /\ ~Busy(h)
      <4>1. slot[h].queue = <<>> /\ ~Busy(h) /\ Range(<<>>) = {}
        BY <2>4 DEF DropIdle, Idle, Range
      <4>2. Held(h) = {} /\ Alone(h)
        BY <4>1 DEF Held, MailInv
      <4> QED BY <4>1, <4>2 DEF Alone
    <3>3. slot'[h].queue = <<>> /\ slot'[h].releasing = FALSE
      BY <3>1 DEF NoSlot
    <3>4. Held(h)' = Held(h)
      BY <3>1, <3>2, <3>3 DEF Held, Busy
    <3>5. Once(h)' /\ Alone(h)'
      BY <3>1, <3>2, <3>3, <3>4 DEF MailInv, Once, Alone, Busy, Unloading
    <3>6. \A a \in Held(h) : reply[a] = "pending"
      BY HeldType DEF MailInv
    <3> QED BY <3>1, <3>4, <3>5, <3>6, MailFrame, Zenon
  <2>5. CASE Acquire(h)
    BY <2>5, MailAcquire
  <2>6. CASE ExpireQueued(h)
    BY <2>6, MailExpire
  <2>7. CASE Tick(h)
    BY <1>1, <2>7 DEF Tick
  <2>8. CASE Stop(h) \/ Crash(h)
    BY <2>8, MailHalt DEF Stop, Crash
  <2>9. CASE AcquireFailed(h) \/ Finish(h)
    <3>1. job[h].status \in Statuses
      BY <2>0 DEF JobType
    <3> QED BY <2>9, <3>1, MailComplete DEF AcquireFailed, Finish, Busy
  <2>10. CASE AcquireRefused(h) \/ Replay(h) \/ LogicFails(h) \/ ExpireRunning(h)
    BY <2>10, MailComplete DEF AcquireRefused, Replay, LogicFails, ExpireRunning, Busy, Statuses
  <2>11. CASE UnloadDone(h)
    <3>1. Busy(h) /\ job' = [job EXCEPT ![h] = NoJob] /\ Answer(job[h].a, job[h].status)
      BY <2>11 DEF UnloadDone, Busy
    <3>2. job[h].status \in Statuses /\ \A g \in Hosts \ {h} : slot'[g] = slot[g]
      BY <1>0, <2>0, <2>11 DEF UnloadDone, JobType
    <3>3. slot'[h].queue = slot[h].queue /\ slot'[h].releasing = FALSE
      <4>1. CASE job[h].status = "ok"
        <5>1. Unloading(h)
          BY <2>11 DEF UnloadDone, Unloading
        <5>2. IsControl(job[h].a)
          BY <5>1 DEF MailInv, Once, IsControl, Control
        <5>3. slot[h].queue = <<>>
          BY <3>1, <5>2, ControlAlone
        <5>4. slot'[h] = NoSlot
          BY <1>0, <2>11, <4>1 DEF UnloadDone
        <5> QED BY <5>3, <5>4 DEF NoSlot
      <4>2. CASE job[h].status # "ok"
        BY <1>0, <2>0, <2>11, <4>2 DEF UnloadDone, SlotType
      <4> QED BY <4>1, <4>2, Zenon
    <3> QED BY <3>1, <3>2, <3>3, MailAnswered, Zenon
  <2>12. CASE AcquireRead(h) \/ LeaseCas(h) \/ LeaseConfirm(h) \/ AcquireError(h) \/ Execute(h)
              \/ LogicDone(h) \/ CheckLease(h) \/ CommitCas(h) \/ CommitError(h)
              \/ UnloadRead(h) \/ UnloadCas(h) \/ UnloadError(h)
    <3>1. UNCHANGED <<slot, reply>> /\ \A g \in Hosts \ {h} : job'[g] = job[g]
      BY <1>0, <2>12 DEF AcquireRead, LeaseCas, LeaseConfirm, AcquireError, Execute, LogicDone,
           CheckLease, CommitCas, CommitError, UnloadRead, UnloadCas, UnloadError
    <3>2. /\ job'[h].a = job[h].a /\ Busy(h) /\ Busy(h)'
          /\ Unloading(h)' => Unloading(h)
      BY <2>12, JobKept, Zenon
    <3> QED BY <3>1, <3>2, MailKept
  <2> QED
    BY <1>2, <2>1, <2>2, <2>3, <2>4, <2>5, <2>6, <2>7, <2>8, <2>9, <2>10, <2>11, <2>12
       DEF HostStep
<1> QED BY <1>1, <1>2 DEF Next, vars

\* The mailbox invariant holds in every reachable state.
LEMMA MailCorrect == Spec => [](TypeOK /\ MailInv)
<1>1. TypeOK /\ MailInv /\ [Next]_vars => TypeOK' /\ MailInv'
  BY TypeStep, MailStep
<1> QED BY InitType, InitMail, <1>1, PTL DEF Spec

\* Every accepted request is held by exactly one host until it is answered: no
\* erased slot, expiry or finished Job strands one (see NoOrphan).
THEOREM Unstranded == Spec => []NoOrphan
<1>1. MailInv => NoOrphan
  BY DEF MailInv, NoOrphan
<1> QED BY MailCorrect, <1>1, PTL

\* A slot is marked releasing exactly while a control operation is queued or
\* running, alone (see ReleasingMatchesControl).
THEOREM ControlRunsAlone == Spec => []ReleasingMatchesControl
<1>1. MailInv => ReleasingMatchesControl
  BY DEF MailInv, Alone, ReleasingMatchesControl
<1> QED BY MailCorrect, <1>1, PTL
=============================================================================
