--------------------------- MODULE EntityHostOnce ---------------------------
(***************************************************************************)
(* At most once: a request takes effect again only when its receipt has    *)
(* been evicted, and then the later requests recorded are as many as there *)
(* is room for receipts, or their receipts and its own do not fit          *)
(* together.                                                               *)
(***************************************************************************)
EXTENDS EntityHostSafety, FiniteSetTheorems, WellFoundedInduction

\* The time each prover gets for one obligation, in seconds.
USE SMTT(30), ZenonT(30)

\* The requests with ids among the entries m to n of a log, and entry i with those after
\* it up to entry n.
Keyed(s, m, n) == {k \in m..n : ReqId[s[k]] # None}
Since(s, i, n) == {s[k] : k \in {i} \cup Keyed(s, i + 1, n)}

\* The entries after i up to n are enough to have evicted the receipt of entry i.
Gone(s, i, n) == Cardinality(Keyed(s, i + 1, n)) >= ReceiptLimit \/ Since(s, i, n) \notin Fitting

OnceIn(s) ==
    \A i, j \in DOMAIN s :
        i < j /\ ReqId[s[i]] # None /\ ReqId[s[i]] = ReqId[s[j]] => Gone(s, i, j - 1)

\* The receipt of entry i is gone, or it is followed by receipts of later entries only,
\* and by no more of them than there are.
Tracked(s, q, i) ==
    \/ Gone(s, i, Len(s))
    \/ \E p \in DOMAIN q :
          /\ q[p] = s[i]
          /\ Cardinality(Keyed(s, i + 1, Len(s))) >= Len(q) - p
          /\ \A x \in (p + 1)..Len(q) : q[x] \in Since(s, i, Len(s))

ReceiptsTrack(s, q) == \A i \in DOMAIN s : ReqId[s[i]] # None => Tracked(s, q, i)
ReceiptInv(v) == ReceiptsTrack(v.log, v.receipts)

\* A Job that is to run the request has found no receipt of it.
FreshInv(h) ==
    (job[h].pc \in {"lease", "confirm"} \/ Granted(h)) /\ ~job[h].replay =>
        SameRequest(job[h].a, job[h].base) = {}

OnceInv == ReceiptInv(store.val) /\ OnceIn(store.val.log) /\ \A h \in Hosts : FreshInv(h)

\* A set of numbers that is not empty has a least one.
LEMMA LeastNumber ==
    ASSUME NEW T, T \subseteq Nat, T # {}
    PROVE  \E x \in T : \A y \in T : ~(y < x)
<1> DEFINE R == OpToRel(<, Nat)
<1>1. IsWellFoundedOn(R, Nat)
  BY NatLessThanWellFounded, Zenon
<1>2. \A x, y \in Nat : y < x => <<y, x>> \in R
  BY DEF OpToRel
<1> HIDE DEF R
<1>3. \E x \in T : \A y \in T : ~(<<y, x>> \in R)
  BY <1>1, WFMin, Zenon
<1> QED BY <1>2, <1>3, Zenon

\* Trimming drops the oldest receipts, and none that could have stayed with those after it.
LEMMA TrimmedCut ==
    ASSUME NEW r \in Seq(Attempts)
    PROVE  \E f \in 1..(Len(r) + 1) :
              /\ Trimmed(r) = SubSeq(r, f, Len(r))
              /\ \A k \in 1..(f - 1) : ~WithinLimits(SubSeq(r, k, Len(r)))
<1> DEFINE N == Len(r)
           W(k) == WithinLimits(SubSeq(r, k, Len(r)))
<1>1. N \in Nat /\ DOMAIN r = 1..N /\ SubSeq(r, N + 1, N) = <<>>
  OBVIOUS
<1>2. CASE \E m \in DOMAIN r : Oldest(r, m)
  <2> DEFINE f == CHOOSE m \in DOMAIN r : Oldest(r, m)
  <2>1. f \in DOMAIN r /\ Oldest(r, f) /\ Trimmed(r) = SubSeq(r, f, Len(r))
    BY <1>2, Zenon DEF Trimmed
  <2> HIDE DEF f
  <2>2. f \in 1..(N + 1)
    BY <1>1, <2>1
  <2> QED BY <2>1, <2>2, Zenon DEF Oldest
<1>3. CASE ~\E m \in DOMAIN r : Oldest(r, m)
  <2>1. Trimmed(r) = <<>>
    BY <1>3, Zenon DEF Trimmed
  <2> DEFINE T == {k \in 1..N : W(k)}
  <2>2. ASSUME T # {} PROVE FALSE
    <3>0. T \subseteq Nat
      <4> HIDE DEF W, N
      <4> QED BY <1>1
    <3> HIDE DEF T
    <3>1. PICK m \in T : \A y \in T : ~(y < m)
      BY <2>2, <3>0, LeastNumber, Zenon
    <3>2. m \in 1..N /\ W(m)
      BY <3>1, Zenon DEF T
    <3>3. ASSUME NEW k \in 1..(m - 1) PROVE ~W(k)
      <4> HIDE DEF W, N
      <4>1. k < m /\ k \in 1..N
        BY <1>1, <3>2
      <4> QED BY <3>1, <4>1, Zenon DEF T
    <3>4. Oldest(r, m)
      BY <3>2, <3>3, Zenon DEF Oldest
    <3> QED BY <1>1, <1>3, <3>2, <3>4, Zenon
  <2>3. \A k \in 1..N : ~W(k)
    BY <2>2, Zenon
  <2> HIDE DEF W, N
  <2>4. N + 1 \in 1..(N + 1) /\ \A k \in 1..((N + 1) - 1) : ~W(k)
    BY <1>1, <2>3
  <2>5. \A k \in 1..((N + 1) - 1) : ~WithinLimits(SubSeq(r, k, Len(r)))
    BY <2>4, Zenon DEF W
  <2> QED BY <1>1, <2>1, <2>4, <2>5, Zenon DEF N
<1> QED BY <1>2, <1>3, Zenon

\* There are finitely many.
LEMMA KeyedFinite ==
    ASSUME NEW s, NEW m \in Int, NEW n \in Int
    PROVE  IsFiniteSet(Keyed(s, m, n)) /\ Cardinality(Keyed(s, m, n)) \in Nat
<1>1. IsFiniteSet(m..n)
  BY FS_Interval
<1>2. Keyed(s, m, n) \in SUBSET (m..n)
  BY DEF Keyed
<1>3. IsFiniteSet(Keyed(s, m, n))
  BY <1>1, <1>2, FS_Subset
<1> QED BY <1>3, FS_CardinalityType

\* One more entry counts if it has an id.
LEMMA KeyedAppend ==
    ASSUME NEW s \in Seq(Attempts), NEW a \in Attempts, NEW i \in 1..Len(s)
    PROVE  LET t == Append(s, a)
               N == Len(s)
           IN /\ \A n \in 0..N : Keyed(t, i + 1, n) = Keyed(s, i + 1, n)
              /\ Keyed(t, i + 1, N + 1)
                     = Keyed(s, i + 1, N) \cup IF ReqId[a] # None THEN {N + 1} ELSE {}
              /\ Cardinality(Keyed(t, i + 1, N + 1))
                     = Cardinality(Keyed(s, i + 1, N)) + IF ReqId[a] # None THEN 1 ELSE 0
<1> DEFINE t == Append(s, a)
           N == Len(s)
           x == Cardinality(Keyed(s, i + 1, N))
<1>1. /\ N \in Nat /\ Len(t) = N + 1 /\ t[N + 1] = a /\ \A k \in 1..N : t[k] = s[k]
  OBVIOUS
<1> HIDE DEF t
<1>2. \A n \in 0..N : Keyed(t, i + 1, n) = Keyed(s, i + 1, n)
  BY <1>1 DEF Keyed
<1>3. Keyed(t, i + 1, N + 1) = Keyed(s, i + 1, N) \cup IF ReqId[a] # None THEN {N + 1} ELSE {}
  BY <1>1 DEF Keyed
<1>4. N + 1 \notin Keyed(s, i + 1, N)
  BY <1>1 DEF Keyed
<1>5. IsFiniteSet(Keyed(s, i + 1, N)) /\ x \in Nat
  BY <1>1, KeyedFinite
<1>6. Cardinality(Keyed(s, i + 1, N) \cup {N + 1}) = x + 1
  BY <1>4, <1>5, FS_AddElement, Zenon
<1>7. Cardinality(Keyed(t, i + 1, N + 1)) = x + IF ReqId[a] # None THEN 1 ELSE 0
  <2>1. CASE ReqId[a] # None
    BY <1>3, <1>6, <2>1, Zenon
  <2>2. CASE ReqId[a] = None
    <3>1. Keyed(t, i + 1, N + 1) = Keyed(s, i + 1, N)
      BY <1>3, <2>2
    <3> QED BY <1>5, <2>2, <3>1
  <2> QED BY <2>1, <2>2
<1> QED BY <1>2, <1>3, <1>7, Zenon DEF t

\* What a longer log adds to the entries since i.
LEMMA SinceAppend ==
    ASSUME NEW s \in Seq(Attempts), NEW a \in Attempts, NEW i \in 1..Len(s)
    PROVE  LET t == Append(s, a)
               N == Len(s)
           IN /\ \A n \in 0..N : Since(t, i, n) = Since(s, i, n)
              /\ Since(s, i, N) \subseteq Since(t, i, N + 1)
              /\ ReqId[a] # None => a \in Since(t, i, N + 1)
              /\ ReqId[a] = None => Since(t, i, N + 1) = Since(s, i, N)
<1> DEFINE t == Append(s, a)
           N == Len(s)
<1>1. /\ N \in Nat /\ Len(t) = N + 1 /\ t[N + 1] = a /\ \A k \in 1..N : t[k] = s[k]
  OBVIOUS
<1>2. /\ \A n \in 0..N : Keyed(t, i + 1, n) = Keyed(s, i + 1, n)
      /\ Keyed(t, i + 1, N + 1) = Keyed(s, i + 1, N) \cup IF ReqId[a] # None THEN {N + 1} ELSE {}
  BY KeyedAppend, Zenon
<1> HIDE DEF t, N
<1>3. \A n \in 0..N : \A k \in {i} \cup Keyed(s, i + 1, n) : t[k] = s[k]
  BY <1>1 DEF Keyed, N
<1>4. \A n \in 0..N : Since(t, i, n) = Since(s, i, n)
  BY <1>2, <1>3, Zenon DEF Since
<1>5. N \in 0..N
  BY <1>1
<1>6. Since(s, i, N) \subseteq Since(t, i, N + 1)
  BY <1>2, <1>3, <1>5, Zenon DEF Since
<1>7. ReqId[a] # None => a \in Since(t, i, N + 1)
  BY <1>1, <1>2 DEF Since
<1>8. ReqId[a] = None => Since(t, i, N + 1) = Since(s, i, N)
  BY <1>2, <1>3, <1>5 DEF Since
<1> QED BY <1>4, <1>6, <1>7, <1>8, Zenon DEF t, N

\* What does not fit does not fit with more.
LEMMA FitsLess ==
    ASSUME NEW S, NEW T, S \subseteq T, S \notin Fitting
    PROVE  T \notin Fitting
  BY FittingAssumption

\* Recording a request keeps the receipts in step with the log, before any is evicted.
LEMMA AppendTracks ==
    ASSUME NEW s \in Seq(Attempts), NEW q \in Seq(Attempts), NEW a \in Attempts, ReceiptsTrack(s, q)
    PROVE  ReceiptsTrack(Append(s, a), IF ReqId[a] = None THEN q ELSE Append(q, a))
<1> DEFINE t == Append(s, a)
           u == IF ReqId[a] = None THEN q ELSE Append(q, a)
           N == Len(s)
           L == Len(q)
           C(i) == Cardinality(Keyed(s, i + 1, N))
           D(i) == Cardinality(Keyed(t, i + 1, N + 1))
<1>1. /\ N \in Nat /\ Len(t) = N + 1 /\ t[N + 1] = a /\ \A k \in 1..N : t[k] = s[k]
      /\ DOMAIN s = 1..N /\ DOMAIN t = 1..(N + 1)
  OBVIOUS
<1>2. L \in Nat /\ DOMAIN q = 1..L
  OBVIOUS
<1>3. ReqId[a] # None =>
         /\ Len(u) = L + 1 /\ DOMAIN u = 1..(L + 1) /\ u[L + 1] = a
         /\ \A k \in 1..L : u[k] = q[k]
  OBVIOUS
<1>4. ReqId[a] = None => u = q
  BY Zenon
<1>5. ASSUME NEW i \in 1..N
      PROVE  /\ C(i) \in Nat
             /\ D(i) = C(i) + IF ReqId[a] # None THEN 1 ELSE 0
             /\ Since(s, i, N) \subseteq Since(t, i, N + 1)
             /\ ReqId[a] # None => a \in Since(t, i, N + 1)
  <2>1. i + 1 \in Int /\ N \in Int
    BY <1>1
  <2>2. C(i) \in Nat
    BY <2>1, KeyedFinite, Zenon
  <2> QED BY <2>2, KeyedAppend, SinceAppend, Zenon
<1>6. \A i \in 1..N : ReqId[s[i]] # None => Tracked(s, q, i)
  BY <1>1, Zenon DEF ReceiptsTrack
<1> HIDE DEF t, u, N, L
<1>7. ASSUME NEW i \in 1..(N + 1), ReqId[t[i]] # None PROVE Tracked(t, u, i)
  <2>1. CASE i = N + 1
    <3>1. t[i] = a /\ ReqId[a] # None
      BY <1>1, <1>7, <2>1
    <3>2. L + 1 \in DOMAIN u /\ u[L + 1] = t[i] /\ Len(u) = L + 1
      BY <1>2, <1>3, <3>1
    <3>3. Cardinality(Keyed(t, i + 1, Len(t))) \in Nat
      <4>1. i + 1 \in Int /\ Len(t) \in Int
        BY <1>1, <2>1
      <4> QED BY <4>1, KeyedFinite, Zenon
    <3>4. Cardinality(Keyed(t, i + 1, Len(t))) >= Len(u) - (L + 1)
      BY <1>2, <3>2, <3>3
    <3>5. \A x \in ((L + 1) + 1)..Len(u) : u[x] \in Since(t, i, Len(t))
      BY <1>2, <3>2
    <3> QED BY <3>2, <3>4, <3>5, Zenon DEF Tracked
  <2>2. CASE i \in 1..N
    <3>1. t[i] = s[i] /\ Tracked(s, q, i)
      BY <1>1, <1>6, <1>7, <2>2
    <3>2. CASE Gone(s, i, N)
      <4>1. CASE C(i) >= ReceiptLimit
        <5>1. D(i) >= ReceiptLimit
          <6> DEFINE c == C(i)
                     d == D(i)
          <6>1. c \in Nat /\ d = c + (IF ReqId[a] # None THEN 1 ELSE 0) /\ c >= ReceiptLimit
            BY <1>5, <2>2, <4>1, Zenon
          <6> HIDE DEF c, d
          <6>2. d >= ReceiptLimit
            BY <6>1, LimitAssumption
          <6> QED BY <6>2 DEF d
        <5> QED BY <1>1, <5>1, Zenon DEF Tracked, Gone
      <4>2. CASE Since(s, i, N) \notin Fitting
        BY <1>1, <1>5, <2>2, <4>2, FitsLess, Zenon DEF Tracked, Gone
      <4> QED BY <3>2, <4>1, <4>2, Zenon DEF Gone
    <3>3. ASSUME NEW p \in 1..L, q[p] = s[i], C(i) >= L - p,
                 \A x \in (p + 1)..L : q[x] \in Since(s, i, N)
          PROVE  Tracked(t, u, i)
      <4> DEFINE c == C(i)
                 d == D(i)
      <4>0. c \in Nat /\ d = c + (IF ReqId[a] # None THEN 1 ELSE 0) /\ c >= L - p
        BY <1>5, <2>2, <3>3, Zenon
      <4>1. CASE ReqId[a] = None
        <5>1. p \in DOMAIN u /\ u[p] = t[i]
          BY <1>2, <1>4, <3>1, <3>3, <4>1
        <5>2. \A x \in (p + 1)..Len(u) : u[x] \in Since(t, i, Len(t))
          BY <1>1, <1>4, <1>5, <2>2, <3>3, <4>1, Zenon DEF L
        <5>3. d >= Len(u) - p
          <6>1. Len(u) = L
            BY <1>4, <4>1, Zenon DEF L
          <6> HIDE DEF c, d
          <6> QED BY <1>2, <4>0, <4>1, <6>1
        <5> QED BY <1>1, <5>1, <5>2, <5>3, Zenon DEF Tracked
      <4>2. CASE ReqId[a] # None
        <5>1. p \in DOMAIN u /\ u[p] = t[i]
          BY <1>2, <1>3, <3>1, <3>3, <4>2
        <5>2. ASSUME NEW x \in (p + 1)..Len(u) PROVE u[x] \in Since(t, i, Len(t))
          <6>1. x = L + 1 \/ (x \in (p + 1)..L /\ x \in 1..L)
            BY <1>2, <1>3, <4>2
          <6> QED BY <1>1, <1>3, <1>5, <2>2, <3>3, <4>2, <6>1, Zenon
        <5>3. d >= Len(u) - p
          <6> HIDE DEF c, d
          <6> QED BY <1>2, <1>3, <4>0, <4>2
        <5> QED BY <1>1, <5>1, <5>2, <5>3, Zenon DEF Tracked
      <4> QED BY <4>1, <4>2
    <3> QED BY <1>2, <3>1, <3>2, <3>3, Zenon DEF Tracked, N, L
  <2> QED BY <1>1, <2>1, <2>2
<1>8. ReceiptsTrack(t, u)
  BY <1>1, <1>7, Zenon DEF ReceiptsTrack
<1> QED BY <1>8, Zenon DEF t, u

\* Trimming keeps the receipts in step: a receipt that goes, goes with its reason.
LEMMA TrimTracks ==
    ASSUME NEW s \in Seq(Attempts), NEW q \in Seq(Attempts), ReceiptsTrack(s, q)
    PROVE  ReceiptsTrack(s, Trimmed(q))
<1> DEFINE N == Len(s)
           L == Len(q)
           r == Trimmed(q)
           C(i) == Cardinality(Keyed(s, i + 1, N))
<1>1. PICK f \in 1..(L + 1) : /\ r = SubSeq(q, f, L)
                              /\ \A k \in 1..(f - 1) : ~WithinLimits(SubSeq(q, k, L))
  BY TrimmedCut, Zenon
<1>2. N \in Nat /\ DOMAIN s = 1..N /\ L \in Nat /\ DOMAIN q = 1..L
  OBVIOUS
<1> HIDE DEF r
<1>3. /\ Len(r) = (L - f) + 1 /\ DOMAIN r = 1..((L - f) + 1)
      /\ \A x \in 1..((L - f) + 1) : r[x] = q[(x + f) - 1]
  BY <1>1, <1>2
<1>4. ASSUME NEW i \in 1..N, ReqId[s[i]] # None PROVE Tracked(s, r, i)
  <2>1. Tracked(s, q, i)
    BY <1>2, <1>4, Zenon DEF ReceiptsTrack
  <2>2. C(i) \in Nat
    <3>1. i + 1 \in Int /\ N \in Int
      BY <1>2
    <3> QED BY <3>1, KeyedFinite, Zenon
  <2>3. ASSUME NEW p \in 1..L, q[p] = s[i], C(i) >= L - p,
               \A x \in (p + 1)..L : q[x] \in Since(s, i, N)
        PROVE  Tracked(s, r, i)
    <3> DEFINE c == C(i)
    <3>0. c \in Nat /\ c >= L - p
      BY <2>2, <2>3, Zenon
    <3> HIDE DEF c, N, L
    <3>1. CASE p >= f
      <4> DEFINE m == (p - f) + 1
      <4>0. (m + f) - 1 = p /\ ((L - f) + 1) - m = L - p /\ m \in 1..((L - f) + 1)
        BY <1>2, <3>1
      <4>1. m \in DOMAIN r /\ (m + f) - 1 = p /\ Len(r) - m = L - p
        BY <1>3, <4>0, Zenon
      <4>2. r[m] = s[i]
        BY <1>3, <2>3, <4>0, Zenon
      <4>3. ASSUME NEW x \in (m + 1)..Len(r) PROVE r[x] \in Since(s, i, N)
        <5>1. x \in 1..((L - f) + 1) /\ (x + f) - 1 \in (p + 1)..L
          BY <1>2, <1>3, <3>1
        <5> QED BY <1>3, <2>3, <5>1, Zenon
      <4>4. c >= Len(r) - m
        BY <3>0, <4>1
      <4> HIDE DEF m
      <4> QED BY <4>1, <4>2, <4>3, <4>4, Zenon DEF Tracked, c, N
    <3>2. CASE ~(p >= f)
      <4> DEFINE u == SubSeq(q, p, L)
      <4>1. p \in 1..(f - 1)
        BY <1>2, <3>2
      <4>2. ~WithinLimits(u)
        BY <1>1, <4>1, Zenon
      <4>3. Len(u) = (L - p) + 1 /\ DOMAIN u = 1..((L - p) + 1)
            /\ \A x \in 1..((L - p) + 1) : u[x] = q[(x + p) - 1]
        BY <1>2
      <4> HIDE DEF u
      <4>4. CASE ~(Len(u) <= ReceiptLimit)
        <5>1. c >= ReceiptLimit
          BY <1>2, <3>0, <4>3, <4>4, LimitAssumption
        <5> QED BY <5>1, Zenon DEF Tracked, Gone, c, N
      <4>5. CASE Range(u) \notin Fitting
        <5>1. ASSUME NEW x \in DOMAIN u PROVE u[x] \in Since(s, i, N)
          <6>1. x = 1 \/ (x + p) - 1 \in (p + 1)..L
            BY <1>2, <4>3
          <6>2. CASE x = 1
            <7>1. u[x] = s[i]
              BY <1>2, <2>3, <4>3, <6>2
            <7> QED BY <7>1, Zenon DEF Since
          <6>3. CASE (x + p) - 1 \in (p + 1)..L
            BY <2>3, <4>3, <6>3, Zenon
          <6> QED BY <6>1, <6>2, <6>3
        <5>2. Range(u) \subseteq Since(s, i, N)
          BY <5>1, Zenon DEF Range
        <5>3. Since(s, i, N) \notin Fitting
          BY <4>5, <5>2, FitsLess, Zenon
        <5> QED BY <5>3, Zenon DEF Tracked, Gone, N
      <4> QED BY <4>2, <4>4, <4>5, Zenon DEF WithinLimits
    <3> QED BY <3>1, <3>2
  <2> QED BY <1>2, <2>1, <2>3, Zenon DEF Tracked
<1> QED BY <1>2, <1>4, Zenon DEF ReceiptsTrack, r

\* An empty log needs no receipts.
LEMMA EmptyOnce ==
    ASSUME NEW v, v.log = <<>>, v.receipts = <<>>
    PROVE  ReceiptInv(v) /\ OnceIn(v.log)
<1>1. DOMAIN v.log = {}
  OBVIOUS
<1>2. ReceiptInv(v)
  BY <1>1, Zenon DEF ReceiptInv, ReceiptsTrack
<1>3. OnceIn(v.log)
  BY <1>1, Zenon DEF OnceIn
<1> QED BY <1>2, <1>3

\* The commit of a request whose id has no receipt keeps the log and the receipts in step.
LEMMA CommitOnce ==
    ASSUME NEW v \in Value, NEW w, NEW a \in Attempts, ReceiptInv(v), OnceIn(v.log),
           SameRequest(a, v) = {}, w.log = Append(v.log, a), w.receipts = WithReceipt(v.receipts, a)
    PROVE  ReceiptInv(w) /\ OnceIn(w.log)
<1> DEFINE s == v.log
           t == w.log
           q == v.receipts
           u == IF ReqId[a] = None THEN q ELSE Append(q, a)
           N == Len(s)
<1>1. s \in Seq(Attempts) /\ q \in Seq(Attempts)
  BY DEF Value
<1>2. t = Append(s, a) /\ OnceIn(s) /\ ReceiptsTrack(s, q) /\ w.receipts = Trimmed(u)
  BY Zenon DEF ReceiptInv, WithReceipt
<1>3. \A m \in DOMAIN q : ~(ReqId[a] # None /\ ReqId[q[m]] = ReqId[a])
  BY DEF SameRequest
<1> HIDE DEF s, t, q
<1>4. t \in Seq(Attempts) /\ u \in Seq(Attempts)
  BY <1>1, <1>2
<1>5. ReceiptInv(w)
  <2>1. ReceiptsTrack(t, u)
    BY <1>1, <1>2, AppendTracks, Zenon
  <2> HIDE DEF u
  <2>2. ReceiptsTrack(t, Trimmed(u))
    BY <1>4, <2>1, TrimTracks, Zenon
  <2> QED BY <1>2, <2>2, Zenon DEF ReceiptInv, t
<1>6. /\ N \in Nat /\ DOMAIN s = 1..N /\ DOMAIN t = 1..(N + 1) /\ t[N + 1] = a
      /\ \A k \in 1..N : t[k] = s[k]
  BY <1>1, <1>2
<1>7. ASSUME NEW i \in 1..N, NEW n \in 0..N PROVE Gone(t, i, n) <=> Gone(s, i, n)
  <2>1. \A k \in 0..N : Keyed(Append(s, a), i + 1, k) = Keyed(s, i + 1, k)
    BY <1>1, KeyedAppend, Zenon
  <2>2. \A k \in 0..N : Since(Append(s, a), i, k) = Since(s, i, k)
    BY <1>1, SinceAppend, Zenon
  <2> HIDE DEF N
  <2> QED BY <1>2, <2>1, <2>2, Zenon DEF Gone
<1>8. ASSUME NEW i \in 1..N, ReqId[a] # None, ReqId[s[i]] = ReqId[a] PROVE Gone(s, i, N)
  <2>1. Tracked(s, q, i)
    BY <1>2, <1>6, <1>8, Zenon DEF ReceiptsTrack
  <2>2. ~\E p \in DOMAIN q : q[p] = s[i]
    BY <1>3, <1>8, Zenon
  <2> QED BY <2>1, <2>2, Zenon DEF Tracked
<1> HIDE DEF N
<1>9. OnceIn(t)
  <2> SUFFICES ASSUME NEW i \in 1..(N + 1), NEW j \in 1..(N + 1), i < j, ReqId[t[i]] # None,
                      ReqId[t[i]] = ReqId[t[j]]
               PROVE  Gone(t, i, j - 1)
    BY <1>6, Zenon DEF OnceIn
  <2>1. i \in 1..N /\ j - 1 \in 0..N /\ t[i] = s[i]
    BY <1>6
  <2>2. CASE j \in 1..N
    <3>1. t[j] = s[j]
      BY <1>6, <2>2
    <3> QED BY <1>2, <1>6, <1>7, <2>1, <2>2, <3>1, Zenon DEF OnceIn
  <2>3. CASE j = N + 1
    <3>1. j - 1 = N /\ t[j] = a
      BY <1>6, <2>3
    <3> QED BY <1>7, <1>8, <2>1, <3>1, Zenon
  <2> QED BY <1>6, <2>2, <2>3
<1> QED BY <1>5, <1>9 DEF t

\* A Job that keeps its place, or goes on with what it read, keeps FreshInv.
LEMMA FreshKept ==
    ASSUME NEW h \in Hosts, FreshInv(h), job'[h].a = job[h].a, job'[h].base = job[h].base,
           job'[h].replay = job[h].replay,
           job'[h].pc \in {"lease", "confirm"} \/ Granted(h)' =>
               job[h].pc \in {"lease", "confirm"} \/ Granted(h)
    PROVE  FreshInv(h)'
  BY DEF FreshInv, SameRequest

\* A step of h keeps FreshInv of its own Job.
LEMMA OwnFresh ==
    ASSUME TypeOK, NEW h \in Hosts, FreshInv(h), JobLedger(h), HostStep(h)
    PROVE  FreshInv(h)'
<1> DEFINE Kept == /\ job'[h].a = job[h].a /\ job'[h].replay = job[h].replay
                   /\ job'[h].base = job[h].base
<1>0. job \in [Hosts -> JobType] /\ job[h] \in JobType
  BY DEF TypeOK
<1>1. ASSUME UNCHANGED job PROVE FreshInv(h)'
  BY <1>1, FreshKept DEF Granted
<1>2. ASSUME job'[h].pc \in {"none", "read", "answer", "unload", "unloadcas", "unloaded"}
      PROVE  FreshInv(h)'
  BY <1>2 DEF FreshInv, Granted
<1>3. ASSUME job'[h].pc = "acquired", job'[h].status # "ok" PROVE FreshInv(h)'
  BY <1>3 DEF FreshInv, Granted
<1>5. CASE \E a \in Attempts : Call(h, a)
  BY <1>1, <1>5 DEF Call, Refuse
<1>6. ASSUME NEW a \in Attempts, Deactivate(h, a) PROVE FreshInv(h)'
  <2>1. UNCHANGED job \/ job'[h].pc = "unload"
    <3>1. CASE HasHook
      BY <1>6, <3>1, Zenon DEF Deactivate
    <3>2. CASE ~HasHook
      <4> DEFINE r == [NoJob EXCEPT !.pc = "unload", !.a = a, !.status = "failed"]
      <4>1. job' = [job EXCEPT ![h] = r]
        BY <1>6, <3>2, Zenon DEF Deactivate, Unload
      <4>2. r.pc = "unload"
        BY DEF NoJob
      <4> HIDE DEF r
      <4> QED BY <1>0, <4>1, <4>2
    <3> QED BY <3>1, <3>2
  <2> QED BY <1>1, <1>2, <2>1
<1>7. CASE \E a \in Attempts : ControlEntity(h, a)
  BY <1>1, <1>6, <1>7 DEF ControlEntity, Refuse
<1>8. CASE Drain(h)
  BY <1>1, <1>6, <1>8 DEF Drain
<1>9. CASE DropIdle(h) \/ ExpireQueued(h) \/ Tick(h)
  BY <1>1, <1>9 DEF DropIdle, ExpireQueued, Tick
<1>10. CASE AcquireFailed(h) \/ AcquireRefused(h) \/ Replay(h) \/ LogicFails(h)
            \/ ExpireRunning(h) \/ Finish(h) \/ UnloadDone(h) \/ Stop(h) \/ Crash(h)
  <2>1. job' = [job EXCEPT ![h] = NoJob]
    BY <1>10 DEF AcquireFailed, AcquireRefused, Replay, LogicFails, ExpireRunning, Finish,
                 UnloadDone, Stop, Crash, Halt, Complete
  <2>2. job'[h].pc = "none"
    BY <1>0, <2>1 DEF NoJob
  <2> QED BY <1>2, <2>2
<1>11. CASE Acquire(h)
  <2>1. job'[h].pc = "read"
    BY <1>0, <1>11 DEF Acquire, NoJob
  <2> QED BY <1>2, <2>1
<1>12. CASE AcquireRead(h)
  <2> DEFINE a == job[h].a
             v == store.val
             ok == Admissible(h, a, v)
             same == ok /\ SameRequest(a, v) # {}
  <2>1. /\ job'[h].a = a /\ job'[h].base = v /\ (~ok => job'[h].pc = "acquired")
        /\ job'[h].status = IF ok THEN "ok" ELSE "failed"
        /\ job'[h].replay = (job[h].replay \/ same)
    BY <1>0, <1>12 DEF AcquireRead, JobType
  <2>2. ok /\ ~job'[h].replay => SameRequest(a, v) = {}
    BY <2>1, Zenon
  <2>3. SameRequest(job[h].a, store.val)' = SameRequest(job'[h].a, job'[h].base)
        /\ SameRequest(job'[h].a, job'[h].base) = SameRequest(a, v)
    BY Zenon, <1>12, <2>1 DEF AcquireRead, SameRequest
  <2> HIDE DEF ok, same
  <2>4. CASE ok
    BY <2>2, <2>3, <2>4 DEF FreshInv
  <2>5. CASE ~ok
    BY <1>3, <2>1, <2>5
  <2> QED BY <2>4, <2>5
<1>13. CASE LeaseCas(h)
  <2>1. job[h].pc = "lease"
    BY <1>13 DEF LeaseCas
  <2>2. CASE CasSucceeds(h)
    <3>1. Kept
      BY <1>0, <1>13, <2>2 DEF LeaseCas, JobType
    <3> QED BY <2>1, <3>1, FreshKept
  <2>3. CASE ~CasSucceeds(h)
    <3>1. job'[h] = IF job[h].tries = 3
                    THEN [job[h] EXCEPT !.pc = "acquired", !.status = "failed"]
                    ELSE [job[h] EXCEPT !.pc = "read", !.tries = job[h].tries + 1]
      BY <1>0, <1>13, <2>3 DEF LeaseCas
    <3>2. Kept
      <4>1. CASE job[h].tries = 3
        BY <1>0, <3>1, <4>1 DEF JobType
      <4>2. CASE job[h].tries # 3
        BY <1>0, <3>1, <4>2 DEF JobType
      <4> QED BY <4>1, <4>2
    <3> QED BY <2>1, <3>2, FreshKept
  <2> QED BY <2>2, <2>3
<1>14. CASE LeaseConfirm(h)
  <2>1. job[h].pc = "confirm" /\ Kept
    <3>1. CASE store.val = job[h].image
      BY <1>0, <1>14, <3>1 DEF LeaseConfirm, JobType
    <3>2. CASE store.val # job[h].image
      BY <1>0, <1>14, <3>2 DEF LeaseConfirm, JobType
    <3> QED BY <3>1, <3>2
  <2> QED BY <2>1, FreshKept
<1>15. CASE AcquireError(h)
  <2>1. job'[h].pc = "acquired" /\ job'[h].status = "unknown"
    BY <1>0, <1>15 DEF AcquireError, JobType
  <2> QED BY <1>3, <2>1
<1>16. CASE Execute(h)
  <2>1. Kept /\ Granted(h)
    BY <1>0, <1>16 DEF Execute, JobType, Granted
  <2> QED BY <2>1, FreshKept
<1>17. CASE LogicDone(h)
  <2>1. Kept /\ Granted(h)
    BY <1>0, <1>17 DEF LogicDone, JobType, Granted
  <2> QED BY <2>1, FreshKept
<1>18. CASE CheckLease(h)
  <2>1. Kept /\ Granted(h)
    <3>1. CASE clock[h] >= job[h].expires
      <4>1. job'[h] = [job[h] EXCEPT !.pc = "answer", !.ownerLost = TRUE, !.status = "failed"]
        BY <1>0, <1>18, <3>1 DEF CheckLease
      <4> QED BY <1>0, <1>18, <4>1 DEF CheckLease, JobType, Granted
    <3>2. CASE ~(clock[h] >= job[h].expires)
      BY <1>0, <1>18, <3>2 DEF CheckLease, JobType, Granted
    <3> QED BY <3>1, <3>2
  <2> QED BY <2>1, FreshKept
<1>19. CASE CommitCas(h)
  <2>1. job'[h].pc = "answer"
    <3>1. CASE CasSucceeds(h)
      <4>1. job' = [job EXCEPT ![h].pc = "answer"]
        BY <1>19, <3>1 DEF CommitCas
      <4> QED BY <1>0, <4>1 DEF JobType
    <3>2. CASE ~CasSucceeds(h)
      <4>1. job'[h] = [job[h] EXCEPT !.pc = "answer", !.ownerLost = TRUE, !.status = "failed"]
        BY <1>0, <1>19, <3>2 DEF CommitCas
      <4> QED BY <1>0, <4>1 DEF JobType
    <3> QED BY <3>1, <3>2
  <2> QED BY <1>2, <2>1
<1>20. CASE CommitError(h)
  <2>1. job'[h].pc = "answer"
    BY <1>0, <1>20 DEF CommitError, Uncertain, JobType
  <2> QED BY <1>2, <2>1
<1>21. CASE UnloadRead(h) \/ UnloadCas(h) \/ UnloadError(h)
  <2>1. job'[h].pc \in {"unloadcas", "unloaded"}
    <3>1. CASE UnloadRead(h)
      BY <1>0, <3>1 DEF UnloadRead, JobType
    <3>2. CASE UnloadCas(h) /\ CasSucceeds(h)
      <4>1. job' = [job EXCEPT ![h] = [job[h] EXCEPT !.pc = "unloaded", !.status = "ok"]]
        BY <3>2 DEF UnloadCas
      <4> QED BY <1>0, <4>1 DEF JobType
    <3>3. CASE UnloadCas(h) /\ ~CasSucceeds(h)
      BY <1>0, <3>3 DEF UnloadCas, JobType
    <3>4. CASE UnloadError(h)
      BY <1>0, <3>4 DEF UnloadError, JobType
    <3> QED BY <1>21, <3>1, <3>2, <3>3, <3>4
  <2> QED BY <1>2, <2>1
<1> QED BY <1>5, <1>7, <1>8, <1>9, <1>10, <1>11, <1>12, <1>13, <1>14, <1>15, <1>16, <1>17, <1>18,
           <1>19, <1>20, <1>21 DEF HostStep

\* ReceiptInv and OnceIn speak of the log and the receipts only.
LEMMA SameEntityOnce ==
    ASSUME NEW v, NEW w, SameEntity(w, v), ReceiptInv(v), OnceIn(v.log)
    PROVE  ReceiptInv(w) /\ OnceIn(w.log)
  BY Zenon DEF SameEntity, ReceiptInv

\* Every step keeps the invariant: only a final CAS adds to the log, and the Job that
\* makes it has found no receipt of its request in the very record it replaces.
LEMMA OnceStep ==
    ASSUME SafetyInv, OnceInv, [Next]_vars
    PROVE  OnceInv'
<1>0. TypeOK /\ LeaseInv /\ LedgerInv /\ store.val \in Value
  BY DEF SafetyInv, TypeOK
<1>1. CASE UNCHANGED vars
  BY <1>1 DEF vars, OnceInv, FreshInv, Granted, SameRequest
<1>2. ASSUME NEW h \in Hosts, HostStep(h) PROVE OnceInv'
  <2>1. /\ \A g \in Hosts \ {h} : job'[g] = job[g]
        /\ \/ store' = store
           \/ /\ job[h].pc \in {"lease", "cas", "unloadcas"}
              /\ CasSucceeds(h) /\ Write(job[h].image)
    BY <1>0, <1>2, HostFrame
  <2>2. FreshInv(h)'
    BY <1>0, <1>2, OwnFresh DEF OnceInv, LedgerInv
  <2>3. ASSUME NEW g \in Hosts \ {h} PROVE FreshInv(g)'
    BY <2>1, FreshKept DEF OnceInv, Granted
  <2>4. ReceiptInv(store'.val) /\ OnceIn(store'.val.log)
    <3>1. CASE store' = store
      BY <3>1 DEF OnceInv
    <3>2. CASE job[h].pc \in {"lease", "unloadcas"} /\ CasSucceeds(h) /\ Write(job[h].image)
      <4>1. SameEntity(store'.val, store.val)
        BY <1>0, <3>2, LeaseWriteQuiet
      <4> QED BY <4>1, SameEntityOnce DEF OnceInv
    <3>3. CASE job[h].pc = "cas" /\ CasSucceeds(h) /\ Write(job[h].image)
      <4> DEFINE a == job[h].a
      <4>1. /\ SameEntity(store.val, job[h].base) /\ store'.val = Committed(h) /\ a \in Attempts
        BY <1>0, <3>3 DEF LeaseInv, JobInv, CasSucceeds, Granted, Write, TypeOK
      <4>2. SameRequest(a, job[h].base) = {}
        BY <1>0, <3>3 DEF OnceInv, FreshInv, LedgerInv, JobLedger, Granted
      <4>3. SameRequest(a, store.val) = {}
        BY <4>1, <4>2, Zenon DEF SameRequest, SameEntity
      <4>4. store.val.log = job[h].base.log /\ store.val.receipts = job[h].base.receipts
        BY <4>1, Zenon DEF SameEntity
      <4>5. CASE Kind[a] # "destroy"
        <5>1. /\ store'.val.log = Append(store.val.log, a)
              /\ store'.val.receipts = WithReceipt(store.val.receipts, a)
          <6>1. /\ Committed(h).log = Append(job[h].base.log, a)
                /\ Committed(h).receipts = WithReceipt(job[h].base.receipts, a)
            BY Zenon, <4>5, CommittedFields
          <6> HIDE DEF a
          <6> QED BY <4>1, <4>4, <6>1, Zenon
        <5> QED BY Zenon, <1>0, <4>1, <4>3, <5>1, CommitOnce DEF OnceInv
      <4>6. CASE Kind[a] = "destroy"
        <5>1. store'.val.log = <<>> /\ store'.val.receipts = <<>>
          BY <4>1, <4>6, CommittedFields
        <5> QED BY <5>1, EmptyOnce
      <4> QED BY <4>5, <4>6
    <3> QED BY <2>1, <3>1, <3>2, <3>3
  <2> QED BY <2>2, <2>3, <2>4 DEF OnceInv
<1> QED BY <1>1, <1>2 DEF Next

\* A request takes effect again only after as many later requests with ids as there is
\* room for receipts, or so large ones that their receipts and its own do not fit
\* together: retries on any host, through takeovers, storage errors and lost answers,
\* find the receipt that was committed with the effect (see AtMostOnce).
THEOREM EffectsOnce == Spec => []AtMostOnce
<1>1. Init => OnceInv
  <2> SUFFICES ASSUME Init PROVE OnceInv
    OBVIOUS
  <2>1. store.val.log = <<>> /\ store.val.receipts = <<>>
    BY DEF Init, EmptyValue
  <2>2. \A h \in Hosts : job[h].pc = "none"
    BY DEF Init, NoJob
  <2>3. ReceiptInv(store.val) /\ OnceIn(store.val.log)
    BY <2>1, EmptyOnce
  <2> QED BY <2>2, <2>3 DEF OnceInv, FreshInv, Granted
<1>2. SafetyInv /\ OnceInv /\ [Next]_vars => OnceInv'
  BY OnceStep
<1>3. OnceInv => AtMostOnce
  BY Zenon DEF OnceInv, OnceIn, AtMostOnce, Gone, Since, Keyed
<1> QED BY SafetyCorrect, <1>1, <1>2, <1>3, PTL DEF Spec
=============================================================================
