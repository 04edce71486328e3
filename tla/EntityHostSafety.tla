-------------------------- MODULE EntityHostSafety --------------------------
(***************************************************************************)
(* The answers of EntityHost agree with what was committed: no update is   *)
(* lost, ok means applied, a failure means not applied, and all the hosts  *)
(* together implement EntityLedger.                                        *)
(***************************************************************************)
EXTENDS EntityHostMail

\* The time each prover gets for one obligation, in seconds.
USE SMTT(30), ZenonT(30)

\* The request, or an earlier attempt of it, took effect.
Confirmed(a) ==
    \E b \in hist.applied :
        a = b \/ (ReqId[a] # None /\ ReqId[b] = ReqId[a] /\ Body[b] = Body[a])

IsSilent(a) == Kind[a] = "deactivate" /\ ~HasHook

\* What the Job of h knows of what was committed.
JobLedger(h) ==
    /\ Busy(h) /\ job[h].a \in hist.applied => job[h].pc = "answer" /\ job[h].status # "failed"
    /\ job[h].pc = "answer" /\ job[h].status = "ok" => job[h].a \in hist.applied
    /\ job[h].pc \in {"lease", "confirm", "run", "check", "cas"} => job[h].status = "ok"
    /\ job[h].replay => Confirmed(job[h].a)
    /\ job[h].pc \in {"run", "check", "cas"} => ~job[h].replay
    /\ (job[h].pc \in {"lease", "confirm"} \/ Granted(h)) /\ job[h].metaOnly =>
           job[h].replay \/ job[h].base.initialized

LedgerInv ==
    /\ NoLostUpdate /\ CreateOnce /\ OkMeansApplied
    /\ Range(store.val.receipts) \subseteq hist.applied
    /\ \A a \in hist.applied : reply[a] \notin {"none", "failed"}
    /\ \A h \in Hosts : Range(slot[h].queue) \cap hist.applied = {} /\ JobLedger(h)
-----------------------------------------------------------------------------
\* A commit adds at most its own receipt.
LEMMA ReceiptRange ==
    ASSUME NEW q \in Seq(Attempts), NEW a \in Attempts
    PROVE  Range(WithReceipt(q, a)) \subseteq Range(q) \cup {a}
<1> DEFINE r == IF ReqId[a] = None THEN q ELSE Append(q, a)
           t == Trimmed(r)
<1>1. q \in Seq(Range(q)) /\ Append(q, a) \in Seq(Attempts) /\ Range(Append(q, a)) = Range(q) \cup {a}
  BY RangeAppend DEF Range
<1>2. r \in Seq(Range(q) \cup {a})
  BY <1>1 DEF Range
<1>3. WithReceipt(q, a) = t
  BY Zenon DEF WithReceipt
<1> HIDE DEF r
<1>4. t \in Seq(Range(q) \cup {a})
  BY <1>2, TrimmedElements
<1> HIDE DEF t
<1> QED BY <1>3, <1>4 DEF Range

\* Nothing is committed or answered at the start.
LEMMA InitLedger == Init => LedgerInv
<1> SUFFICES ASSUME Init PROVE LedgerInv
  OBVIOUS
<1>1. Range(<<>>) = {}
  BY DEF Range
<1>2. /\ store.val = EmptyValue /\ hist.applied = {} /\ hist.creates = 0
      /\ \A h \in Hosts : slot[h] = NoSlot /\ job[h] = NoJob
      /\ \A a \in Attempts : reply[a] = "none"
  BY DEF Init
<1>3. store.val.log = <<>> /\ store.val.receipts = <<>> /\ store.val.initialized = FALSE
  BY <1>2 DEF EmptyValue
<1>4. \A h \in Hosts : slot[h].queue = <<>> /\ job[h].pc = "none" /\ job[h].replay = FALSE
  BY <1>2 DEF NoSlot, NoJob
<1>5. \A h \in Hosts : JobLedger(h)
  BY <1>4 DEF JobLedger, Busy, Granted
<1> QED BY <1>1, <1>2, <1>3, <1>4, <1>5 DEF LedgerInv, NoLostUpdate, CreateOnce, OkMeansApplied

\* The invariant holds after a step of h that commits nothing, if h's Job is as
\* it should be and every new answer agrees with what was committed.
LEMMA LedgerFrame ==
    ASSUME TypeOK, LedgerInv, NEW h \in Hosts, JobLedger(h)',
           \A g \in Hosts \ {h} : slot'[g] = slot[g] /\ job'[g] = job[g],
           hist'.applied = hist.applied, hist'.creates = hist.creates,
           SameEntity(store'.val, store.val),
           Range(slot'[h].queue) \cap hist.applied = {},
           \A a \in Attempts : reply'[a] # reply[a] =>
               /\ reply'[a] # "none"
               /\ reply'[a] = "failed" => a \notin hist.applied
               /\ reply'[a] = "ok" => IsSilent(a) \/ Confirmed(a)
    PROVE  LedgerInv'
<1>1. \A a : Confirmed(a)' <=> Confirmed(a)
  BY DEF Confirmed
<1>2. \A g \in Hosts \ {h} : JobLedger(g)'
  BY <1>1 DEF LedgerInv, JobLedger, Busy, Granted
<1>3. \A g \in Hosts : Range(slot'[g].queue) \cap hist'.applied = {} /\ JobLedger(g)'
  BY <1>2 DEF LedgerInv
<1>4. NoLostUpdate' /\ CreateOnce' /\ Range(store'.val.receipts) \subseteq hist'.applied
  BY DEF LedgerInv, NoLostUpdate, CreateOnce, SameEntity
<1>5. hist.applied \subseteq Attempts
  BY DEF TypeOK, HistType
<1>6. \A a \in hist'.applied : reply'[a] \notin {"none", "failed"}
  BY <1>5 DEF LedgerInv
<1>7. \A a \in Attempts : reply[a] = "ok" => IsSilent(a) \/ Confirmed(a)
  BY HostAssumption DEF LedgerInv, OkMeansApplied, IsSilent, Confirmed
<1>8. \A a \in Attempts : reply'[a] = "ok" => IsSilent(a) \/ Confirmed(a)'
  BY <1>1, <1>7
<1>9. OkMeansApplied'
  BY <1>8 DEF OkMeansApplied, IsSilent, Confirmed
<1> QED BY <1>3, <1>4, <1>6, <1>9 DEF LedgerInv

\* What the new record says of the entity, field by field.
LEMMA CommittedFields ==
    ASSUME NEW h, NEW a, a = job[h].a
    PROVE  /\ Committed(h).log = IF Kind[a] = "destroy" THEN <<>>
                                ELSE Append(job[h].base.log, a)
           /\ Committed(h).receipts = IF Kind[a] = "destroy" THEN <<>>
                                     ELSE WithReceipt(job[h].base.receipts, a)
           /\ Committed(h).destroyed = (Kind[a] = "destroy")
  BY DEF Committed

\* The final CAS of h's Job applies its request, once and on the newest state.
LEMMA LedgerCommit ==
    ASSUME TypeOK, LeaseInv, MailInv, LedgerInv, NEW h \in Hosts,
           job[h].pc = "cas", CasSucceeds(h), Write(job[h].image), Record(h),
           UNCHANGED <<slot, reply>>, \A g \in Hosts \ {h} : job'[g] = job[g],
           job'[h].a = job[h].a, job'[h].pc = "answer", job'[h].status # "failed",
           job'[h].replay = job[h].replay
    PROVE  LedgerInv' /\ Ledger!Apply(job[h].a)
<1> DEFINE a == job[h].a
<1>0. /\ job[h] \in JobType /\ a \in Attempts /\ hist \in HistType
      /\ job[h].base \in Value /\ store.val \in Value
  BY DEF TypeOK, JobType
<1>1. /\ ~job[h].base.destroyed /\ SameEntity(store.val, job[h].base)
      /\ job[h].image = Committed(h)
  BY DEF LeaseInv, JobInv, CasSucceeds, Granted, Usable
<1>2. store'.val = Committed(h)
  BY <1>1 DEF Write
<1>3. /\ hist'.applied = hist.applied \cup {a}
      /\ hist'.creates = IF (~job[h].metaOnly /\ ~IsControl(a)) /\ ~job[h].base.initialized
                         THEN hist.creates + 1 ELSE hist.creates
  BY DEF Record
<1>4. a \notin hist.applied /\ reply[a] = "pending" /\ a \in Held(h)
  <2>1. Busy(h) /\ a \in Held(h)
    BY DEF Busy, Held
  <2> QED BY <1>0, <2>1 DEF LedgerInv, JobLedger, MailInv
<1>5. ~store.val.destroyed
  BY <1>1, ZenonT(30) DEF SameEntity
<1>6. /\ store'.val.log = IF Kind[a] = "destroy" THEN <<>> ELSE Append(store.val.log, a)
      /\ store'.val.receipts = IF Kind[a] = "destroy" THEN <<>>
                               ELSE WithReceipt(store.val.receipts, a)
      /\ store'.val.destroyed = (Kind[a] = "destroy")
  <2>1. store.val.log = job[h].base.log /\ store.val.receipts = job[h].base.receipts
    BY <1>1, ZenonT(30) DEF SameEntity
  <2> QED BY <1>2, <2>1, CommittedFields, SMTT(30)
<1>7. /\ Kind[a] # "destroy" => store'.val.destroyed = FALSE
      /\ Kind[a] = "destroy" => store'.val.destroyed = TRUE
  BY <1>6, ZenonT(30)
<1>8. store'.val.initialized = IF IsControl(a) THEN store.val.initialized ELSE TRUE
  <2>1. Committed(h).initialized = IF IsControl(a) THEN job[h].base.initialized ELSE TRUE
    BY DEF Committed, Initialized
  <2>2. job[h].base.initialized = store.val.initialized
    BY <1>1, ZenonT(30) DEF SameEntity
  <2> QED BY <1>2, <2>1, <2>2, ZenonT(30)
<1>9. Ledger!Apply(a)
  BY <1>3, <1>4, <1>5, <1>6, <1>7 DEF Ledger!Apply
<1>10. NoLostUpdate'
  <2>1. Kind[a] # "destroy" => Range(store'.val.log) = hist.applied \cup {a}
    <3>1. store.val.log \in Seq(Attempts) /\ Range(store.val.log) = hist.applied
      BY <1>0, <1>5 DEF Value, LedgerInv, NoLostUpdate
    <3> QED BY <1>0, <1>6, <3>1, RangeAppend
  <2> QED BY <1>3, <1>6, <2>1, Zenon DEF NoLostUpdate
<1>11. CreateOnce'
  <2>1. hist.creates = IF store.val.initialized THEN 1 ELSE 0
    BY <1>5 DEF LedgerInv, CreateOnce
  <2>2. job[h].base.initialized = store.val.initialized
    BY <1>1 DEF SameEntity
  <2>3. job[h].metaOnly => store.val.initialized
    BY <2>2 DEF LedgerInv, JobLedger, Granted
  <2>4. CASE IsControl(a)
    BY <1>3, <1>8, <2>1, <2>4 DEF CreateOnce
  <2>5. CASE ~IsControl(a)
    BY <1>3, <1>8, <2>1, <2>2, <2>3, <2>5 DEF CreateOnce
  <2> QED BY <2>4, <2>5
<1>12. Range(store'.val.receipts) \subseteq hist'.applied
  <2>1. CASE Kind[a] = "destroy"
    <3>1. Range(<<>>) = {}
      BY DEF Range
    <3> QED BY <1>6, <2>1, <3>1
  <2>2. CASE Kind[a] # "destroy"
    <3>1. store.val.receipts \in Seq(Attempts) /\ Range(store.val.receipts) \subseteq hist.applied
      BY <1>0 DEF Value, LedgerInv
    <3>2. Range(WithReceipt(store.val.receipts, a)) \subseteq Range(store.val.receipts) \cup {a}
      BY <1>0, <3>1, ReceiptRange
    <3> QED BY <1>3, <1>6, <2>2, <3>1, <3>2
  <2> QED BY <2>1, <2>2
<1>13. \A b : Confirmed(b) => Confirmed(b)'
  BY <1>3 DEF Confirmed
<1>14. OkMeansApplied'
  BY <1>3 DEF LedgerInv, OkMeansApplied
<1>15. \A b \in hist'.applied : reply'[b] \notin {"none", "failed"}
  BY <1>3, <1>4 DEF LedgerInv
<1>16. \A g \in Hosts : Range(slot'[g].queue) \cap hist'.applied = {}
  <2> SUFFICES ASSUME NEW g \in Hosts PROVE Range(slot[g].queue) \cap hist'.applied = {}
    OBVIOUS
  <2>1. a \notin Range(slot[g].queue)
    <3>1. CASE g = h
      BY <3>1 DEF MailInv, Once, Busy
    <3>2. CASE g # h
      BY <1>4, <3>2 DEF MailInv, Held
    <3> QED BY <3>1, <3>2
  <2> QED BY <1>3, <2>1 DEF LedgerInv
<1>17. \A g \in Hosts : JobLedger(g)'
  <2>1. ASSUME NEW g \in Hosts, g # h PROVE JobLedger(g)'
    <3>1. job'[g] = job[g] /\ JobLedger(g)
      BY <2>1 DEF LedgerInv
    <3>2. Busy(g) => job[g].a # a
      BY <1>4, <2>1 DEF MailInv, Held
    <3> QED BY <1>3, <1>13, <3>1, <3>2 DEF JobLedger, Busy, Granted
  <2>2. JobLedger(h)'
    <3>1. job'[h].replay => Confirmed(a)'
      BY <1>13, Zenon DEF LedgerInv, JobLedger
    <3> QED BY <1>3, <3>1 DEF JobLedger, Granted
  <2> QED BY <2>1, <2>2, ZenonT(30)
<1> QED BY <1>9, <1>10, <1>11, <1>12, <1>14, <1>15, <1>16, <1>17 DEF LedgerInv

\* A step that answers nothing and commits nothing is a stutter of the ledger.
LEMMA LedgerQuiet ==
    ASSUME TypeOK, LedgerInv, NEW h \in Hosts, JobLedger(h)',
           \A g \in Hosts \ {h} : slot'[g] = slot[g] /\ job'[g] = job[g],
           hist'.applied = hist.applied, hist'.creates = hist.creates,
           SameEntity(store'.val, store.val),
           Range(slot'[h].queue) \subseteq Range(slot[h].queue), UNCHANGED reply
    PROVE  LedgerInv' /\ UNCHANGED Ledger!ledgerVars
<1>1. Range(slot'[h].queue) \cap hist.applied = {}
  BY DEF LedgerInv
<1>2. LedgerInv'
  BY <1>1, LedgerFrame
<1>3. UNCHANGED Ledger!ledgerVars
  BY DEF SameEntity, Ledger!ledgerVars
<1> QED BY <1>2, <1>3

\* An attempt that a host takes in or refuses is submitted to the ledger.
LEMMA LedgerSubmit ==
    ASSUME TypeOK, LedgerInv, NEW h \in Hosts, NEW a \in Attempts, reply[a] = "none",
           NEW r \in {"pending", "failed"}, Answer(a, r), UNCHANGED <<store, hist>>,
           \A g \in Hosts \ {h} : slot'[g] = slot[g] /\ job'[g] = job[g],
           JobLedger(h)',
           Range(slot'[h].queue) \subseteq Range(slot[h].queue) \cup {a}
    PROVE  LedgerInv' /\ Ledger!Submit(a)
<1>1. a \notin hist.applied
  BY DEF LedgerInv
<1>2. Range(slot'[h].queue) \cap hist.applied = {}
  BY <1>1 DEF LedgerInv
<1>3. \A b \in Attempts : reply'[b] = IF b = a THEN r ELSE reply[b]
  BY DEF Answer, TypeOK
<1>4. SameEntity(store'.val, store.val)
  BY DEF SameEntity
<1>5. LedgerInv'
  BY <1>1, <1>2, <1>3, <1>4, LedgerFrame
<1>6. Ledger!Submit(a)
  BY Zenon DEF Ledger!Submit, Answer
<1> QED BY <1>5, <1>6

\* The answer to h's Job is one the ledger may give.
LEMMA LedgerAnswer ==
    ASSUME TypeOK, MailInv, LedgerInv, NEW h \in Hosts, Busy(h), NEW status \in Statuses,
           Answer(job[h].a, status), job' = [job EXCEPT ![h] = NoJob],
           UNCHANGED <<store, hist>>, \A g \in Hosts \ {h} : slot'[g] = slot[g],
           Range(slot'[h].queue) \subseteq Range(slot[h].queue),
           status = "failed" => job[h].a \notin hist.applied,
           status = "ok" => IsSilent(job[h].a) \/ Confirmed(job[h].a)
    PROVE  LedgerInv' /\ Ledger!LedgerNext
<1> DEFINE a == job[h].a
<1>1. a \in Attempts /\ a \in Held(h) /\ \A g \in Hosts \ {h} : job'[g] = job[g]
  BY DEF TypeOK, Busy, Held
<1>2. reply[a] = "pending"
  BY <1>1 DEF MailInv
<1>3. JobLedger(h)'
  <2>1. job'[h].pc = "none" /\ job'[h].replay = FALSE
    BY DEF TypeOK, NoJob
  <2> QED BY <2>1 DEF JobLedger, Busy, Granted
<1>4. \A b \in Attempts : reply'[b] = IF b = a THEN status ELSE reply[b]
  BY <1>1 DEF Answer, TypeOK
<1>5. SameEntity(store'.val, store.val) /\ Range(slot'[h].queue) \cap hist.applied = {}
  BY DEF SameEntity, LedgerInv
<1>6. status # "none"
  BY DEF Statuses
<1>7. LedgerInv'
  BY <1>1, <1>3, <1>4, <1>5, <1>6, LedgerFrame, ZenonT(30)
<1>8. CASE status = "ok"
  <2>1. Ledger!Confirm(a)
    BY <1>1, <1>2, <1>8 DEF Ledger!Confirm, Ledger!SameReq, Answer, IsSilent, Confirmed
  <2> QED BY <1>1, <1>7, <2>1 DEF Ledger!LedgerNext
<1>9. CASE status = "failed"
  <2>1. Ledger!Fail(a)
    BY <1>2, <1>9 DEF Ledger!Fail, Answer
  <2> QED BY <1>1, <1>7, <2>1 DEF Ledger!LedgerNext
<1>10. CASE status = "unknown"
  <2>1. reply' = [b \in Attempts |-> IF b \in {a} THEN "unknown" ELSE reply[b]]
    BY <1>1, <1>10, Zenon DEF Answer, TypeOK
  <2>2. Ledger!Lose({a})
    BY <1>2, <2>1 DEF Ledger!Lose
  <2>3. {a} \in SUBSET Attempts
    BY <1>1
  <2> QED BY <1>7, <2>2, <2>3 DEF Ledger!LedgerNext
<1> QED BY <1>8, <1>9, <1>10 DEF Statuses

\* complete() with a status that agrees with what was committed.
LEMMA LedgerComplete ==
    ASSUME TypeOK, MailInv, LedgerInv, NEW h \in Hosts, Busy(h), NEW status \in Statuses,
           Complete(h, status), UNCHANGED Env,
           status = "failed" => job[h].a \notin hist.applied,
           status = "ok" => Confirmed(job[h].a)
    PROVE  LedgerInv' /\ Ledger!LedgerNext
<1>1. slot[h] \in SlotType /\ \A g \in Hosts \ {h} : slot'[g] = slot[g]
  BY DEF TypeOK, Complete
<1>2. Range(slot'[h].queue) \subseteq Range(slot[h].queue)
  <2>1. CASE SlotErased(h, status)
    <3>1. slot'[h].queue = <<>>
      BY <2>1 DEF Complete, TypeOK, NoSlot
    <3>2. Range(<<>>) = {}
      BY DEF Range
    <3> QED BY <3>1, <3>2
  <2>2. CASE ~SlotErased(h, status)
    <3>1. slot'[h] = SlotAfter(h, status)
      BY <2>2 DEF Complete, TypeOK
    <3>2. slot'[h].queue = slot[h].queue
      BY <1>1, <3>1, Zenon DEF SlotAfter, SlotType
    <3> QED BY <3>2
  <2> QED BY <2>1, <2>2
<1> QED BY <1>1, <1>2, LedgerAnswer, Zenon DEF Complete, Env

\* stop() and a crash lose what the host holds.
LEMMA LedgerHalt ==
    ASSUME TypeOK, MailInv, LedgerInv, NEW h \in Hosts, Halt(h)
    PROVE  LedgerInv' /\ Ledger!LedgerNext
<1>1. /\ slot'[h].queue = <<>> /\ job'[h].pc = "none" /\ job'[h].replay = FALSE
      /\ \A g \in Hosts \ {h} : slot'[g] = slot[g] /\ job'[g] = job[g]
  BY DEF Halt, TypeOK, NoSlot, NoJob
<1>2. \A a \in Attempts : reply'[a] = IF a \in Held(h) THEN "unknown" ELSE reply[a]
  BY DEF Halt
<1>3. Range(<<>>) = {} /\ SameEntity(store'.val, store.val)
  BY DEF Range, Halt, SameEntity
<1>4. JobLedger(h)'
  BY <1>1 DEF JobLedger, Busy, Granted
<1>5. LedgerInv'
  BY <1>1, <1>2, <1>3, <1>4, LedgerFrame DEF Halt
<1>6. Held(h) \in SUBSET Attempts /\ \A a \in Held(h) : reply[a] = "pending"
  BY HeldType DEF MailInv
<1>7. Ledger!Lose(Held(h))
  BY <1>6 DEF Ledger!Lose, Halt
<1> QED BY <1>5, <1>6, <1>7 DEF Ledger!LedgerNext
-----------------------------------------------------------------------------
\* Lines 438-530: a receipt with the request's id and body is of a request that
\* took effect, so what the Job learns from it is true.
LEMMA LedgerRead ==
    ASSUME TypeOK, LedgerInv, NEW h \in Hosts, AcquireRead(h)
    PROVE  JobLedger(h)'
<1> DEFINE a == job[h].a
           v == store.val
           ok == Admissible(h, a, v)
           same == ok /\ SameRequest(a, v) # {}
<1>0. job \in [Hosts -> JobType] /\ job[h] \in JobType /\ v.receipts \in Seq(Attempts)
  BY DEF TypeOK, Value
<1>1. JobLedger(h) /\ job[h].pc = "read" /\ UNCHANGED <<store, hist>>
  BY DEF LedgerInv, AcquireRead
<1>2. /\ job'[h].a = a /\ job'[h].base = v
      /\ job'[h].pc \in {"lease", "acquired"} /\ (~ok => job'[h].pc = "acquired")
      /\ job'[h].status = IF ok THEN "ok" ELSE "failed"
      /\ job'[h].metaOnly = (same \/ Kind[a] = "bind")
      /\ job'[h].replay = (job[h].replay \/ same)
  BY <1>0 DEF AcquireRead, JobType
<1>3. a \notin hist.applied
  BY <1>1 DEF JobLedger, Busy
<1>4. same => Confirmed(a)
  <2> SUFFICES ASSUME same PROVE Confirmed(a)
    OBVIOUS
  <2>1. PICK i \in DOMAIN v.receipts : ReqId[a] # None /\ ReqId[v.receipts[i]] = ReqId[a]
    BY DEF SameRequest
  <2>2. Body[v.receipts[i]] = Body[a]
    BY <2>1 DEF Admissible, Conflicting, SameRequest
  <2>3. v.receipts[i] \in hist.applied
    BY <2>1 DEF LedgerInv, Range
  <2> QED BY <2>1, <2>2, <2>3 DEF Confirmed
<1>5. ok /\ Kind[a] = "bind" => v.initialized
  BY DEF Admissible
<1>6. job'[h].replay => Confirmed(a)'
  BY <1>1, <1>2, <1>4, Zenon DEF JobLedger, Confirmed
<1>7. ok /\ job'[h].metaOnly => job'[h].replay \/ job'[h].base.initialized
  BY <1>2, <1>5, Zenon
<1> HIDE DEF ok, same
<1> QED BY <1>1, <1>2, <1>3, <1>6, <1>7, Zenon DEF JobLedger, Busy, Granted

\* A step of the worker that keeps its request, and neither commits nor reads
\* the record anew, keeps what its Job knows.
LEMMA JobLedgerKept ==
    ASSUME LedgerInv, NEW h \in Hosts, Busy(h), hist'.applied = hist.applied,
           job[h].pc # "answer", job'[h].pc # "none",
           job'[h].a = job[h].a, job'[h].replay = job[h].replay,
           job'[h].metaOnly = job[h].metaOnly, job'[h].base = job[h].base,
           job'[h].pc = "answer" => job'[h].status # "ok",
           job'[h].pc \in {"lease", "confirm", "run", "check", "cas"} => job'[h].status = "ok",
           job'[h].pc \in {"run", "check", "cas"} => ~job[h].replay,
           job'[h].pc \in {"lease", "confirm"} \/ Granted(h)' =>
               job[h].pc \in {"lease", "confirm"} \/ Granted(h)
    PROVE  JobLedger(h)'
<1>1. JobLedger(h)
  BY Zenon DEF LedgerInv
<1>2. job[h].a \notin hist.applied
  BY <1>1 DEF JobLedger
<1>3. Confirmed(job[h].a)' <=> Confirmed(job[h].a)
  BY DEF Confirmed
<1> QED BY <1>1, <1>2, <1>3, Zenon DEF JobLedger, Confirmed

\* The other steps of the worker and of the logic that commit nothing.
LEMMA LedgerWorker ==
    ASSUME TypeOK, LedgerInv, NEW h \in Hosts, hist'.applied = hist.applied,
           \/ LeaseCas(h) \/ LeaseConfirm(h) \/ AcquireError(h) \/ Execute(h)
           \/ LogicDone(h) \/ CheckLease(h) \/ (CommitCas(h) /\ ~CasSucceeds(h)) \/ CommitError(h)
           \/ UnloadRead(h) \/ UnloadCas(h) \/ UnloadError(h)
    PROVE  JobLedger(h)'
<1> DEFINE Kept == /\ job'[h].a = job[h].a /\ job'[h].replay = job[h].replay
                   /\ job'[h].metaOnly = job[h].metaOnly /\ job'[h].base = job[h].base
<1>0. job \in [Hosts -> JobType] /\ job[h] \in JobType /\ JobLedger(h)
  BY DEF TypeOK, LedgerInv
<1>1. job[h].pc \in {"lease", "confirm", "run", "check", "cas"} => job[h].status = "ok"
  BY <1>0 DEF JobLedger
<1>2. job[h].pc \in {"run", "check", "cas"} => ~job[h].replay
  BY <1>0 DEF JobLedger
<1>3. CASE LeaseCas(h)
  <2>1. job[h].pc = "lease"
    BY <1>3 DEF LeaseCas
  <2>2. CASE CasSucceeds(h)
    <3>1. Kept /\ job'[h].pc = "confirm" /\ job'[h].status = job[h].status
      BY <1>0, <1>3, <2>2 DEF LeaseCas, JobType
    <3> QED BY <1>1, <2>1, <3>1, JobLedgerKept DEF Busy, Granted
  <2>3. CASE ~CasSucceeds(h)
    <3>1. job'[h] = IF job[h].tries = 3
                    THEN [job[h] EXCEPT !.pc = "acquired", !.status = "failed"]
                    ELSE [job[h] EXCEPT !.pc = "read", !.tries = job[h].tries + 1]
      BY <1>0, <1>3, <2>3 DEF LeaseCas
    <3>2. CASE job[h].tries = 3
      <4>1. Kept /\ job'[h].pc = "acquired" /\ job'[h].status = "failed"
        BY <1>0, <3>1, <3>2 DEF JobType
      <4> QED BY <2>1, <4>1, JobLedgerKept DEF Busy, Granted
    <3>3. CASE job[h].tries # 3
      <4>1. Kept /\ job'[h].pc = "read"
        BY <1>0, <3>1, <3>3 DEF JobType
      <4> QED BY <2>1, <4>1, JobLedgerKept DEF Busy, Granted
    <3> QED BY <3>2, <3>3
  <2> QED BY <2>2, <2>3
<1>4. CASE LeaseConfirm(h)
  <2>1. job[h].pc = "confirm"
    BY <1>4 DEF LeaseConfirm
  <2>2. Kept /\ job'[h].pc = "acquired"
    <3>1. CASE store.val = job[h].image
      BY <1>0, <1>4, <3>1 DEF LeaseConfirm, JobType
    <3>2. CASE store.val # job[h].image
      BY <1>0, <1>4, <3>2 DEF LeaseConfirm, JobType
    <3> QED BY <3>1, <3>2, Zenon
  <2> QED BY <2>1, <2>2, JobLedgerKept DEF Busy, Granted
<1>5. CASE AcquireError(h)
  <2>1. /\ Kept /\ job'[h].pc = "acquired" /\ job'[h].status = "unknown"
        /\ job[h].pc \in {"read", "lease", "confirm"}
    BY <1>0, <1>5 DEF AcquireError, JobType
  <2> QED BY <2>1, JobLedgerKept, Zenon DEF Busy, Granted
<1>6. CASE Execute(h)
  <2>1. /\ Kept /\ job'[h].pc = "run" /\ job'[h].status = job[h].status
        /\ job[h].pc = "acquired" /\ job[h].status = "ok" /\ ~job[h].replay
    BY <1>0, <1>6 DEF Execute, JobType
  <2> QED BY <2>1, JobLedgerKept DEF Busy, Granted
<1>7. CASE LogicDone(h)
  <2>1. Kept /\ job'[h].pc = "check" /\ job'[h].status = job[h].status /\ job[h].pc = "run"
    BY <1>0, <1>7 DEF LogicDone, JobType
  <2> QED BY <1>1, <1>2, <2>1, JobLedgerKept, Zenon DEF Busy, Granted
<1>8. CASE CheckLease(h)
  <2>1. job[h].pc = "check"
    BY <1>8 DEF CheckLease
  <2>2. CASE clock[h] >= job[h].expires
    <3>1. job'[h] = [job[h] EXCEPT !.pc = "answer", !.ownerLost = TRUE, !.status = "failed"]
      BY <1>0, <1>8, <2>2 DEF CheckLease
    <3>2. Kept /\ job'[h].pc = "answer" /\ job'[h].status = "failed"
      BY <1>0, <3>1 DEF JobType
    <3> QED BY <2>1, <3>2, JobLedgerKept, Zenon DEF Busy, Granted
  <2>3. CASE ~(clock[h] >= job[h].expires)
    <3>1. Kept /\ job'[h].pc = "cas" /\ job'[h].status = job[h].status
      BY <1>0, <1>8, <2>3 DEF CheckLease, JobType
    <3> QED BY <1>1, <1>2, <2>1, <3>1, JobLedgerKept, Zenon DEF Busy, Granted
  <2> QED BY <2>2, <2>3, Zenon
<1>9. CASE CommitCas(h) /\ ~CasSucceeds(h)
  <2>1. /\ job[h].pc = "cas"
        /\ job'[h] = [job[h] EXCEPT !.pc = "answer", !.ownerLost = TRUE, !.status = "failed"]
    BY <1>0, <1>9 DEF CommitCas
  <2>2. Kept /\ job'[h].pc = "answer" /\ job'[h].status = "failed"
    BY <1>0, <2>1 DEF JobType
  <2> QED BY <2>1, <2>2, JobLedgerKept, Zenon DEF Busy, Granted
<1>10. CASE CommitError(h)
  <2>1. /\ Kept /\ job'[h].pc = "answer" /\ job'[h].status = "unknown"
        /\ job[h].pc \in {"check", "cas"}
    BY <1>0, <1>10 DEF CommitError, Uncertain, JobType
  <2> QED BY <2>1, JobLedgerKept, Zenon DEF Busy, Granted
<1>11. CASE UnloadRead(h)
  <2>1. job[h].pc = "unload" /\ Kept /\ job'[h].pc \in {"unloadcas", "unloaded"}
    <3>1. CASE store.val.owner = h
      BY <1>0, <1>11, <3>1 DEF UnloadRead, JobType
    <3>2. CASE store.val.owner # h
      BY <1>0, <1>11, <3>2 DEF UnloadRead, JobType
    <3> QED BY <3>1, <3>2, Zenon
  <2> QED BY <2>1, JobLedgerKept, Zenon DEF Busy, Granted
<1>12. CASE UnloadCas(h)
  <2>1. job[h].pc = "unloadcas" /\ Kept /\ job'[h].pc = "unloaded"
    <3>1. CASE CasSucceeds(h)
      <4>1. job[h].pc = "unloadcas" /\ job'[h] = [job[h] EXCEPT !.pc = "unloaded", !.status = "ok"]
        BY <1>0, <1>12, <3>1 DEF UnloadCas
      <4> QED BY <1>0, <4>1 DEF JobType
    <3>2. CASE ~CasSucceeds(h)
      BY <1>0, <1>12, <3>2 DEF UnloadCas, JobType
    <3> QED BY <3>1, <3>2, Zenon
  <2> QED BY <2>1, JobLedgerKept, Zenon DEF Busy, Granted
<1>13. CASE UnloadError(h)
  <2>1. job[h].pc \in {"unload", "unloadcas"} /\ Kept /\ job'[h].pc = "unloaded"
    BY <1>0, <1>13 DEF UnloadError, JobType
  <2> QED BY <2>1, JobLedgerKept DEF Busy, Granted
<1> QED BY <1>3, <1>4, <1>5, <1>6, <1>7, <1>8, <1>9, <1>10, <1>11, <1>12, <1>13

\* The CAS of a lease, and that of a Release, change nothing but the lease.
LEMMA LeaseWriteQuiet ==
    ASSUME TypeOK, LeaseInv, NEW h \in Hosts, job[h].pc \in {"lease", "unloadcas"},
           CasSucceeds(h), Write(job[h].image)
    PROVE  SameEntity(store'.val, store.val)
<1>1. store'.val = job[h].image
  BY DEF Write
<1>2. CASE job[h].pc = "lease"
  <2>1. Taking(h) /\ store.val = job[h].base
    BY <1>2 DEF LeaseInv, JobInv, CasSucceeds
  <2> QED BY <1>1, <2>1 DEF Taking
<1>3. CASE job[h].pc = "unloadcas"
  <2>1. job[h].image = [store.val EXCEPT !.owner = None, !.expires = 0]
    BY <1>3 DEF LeaseInv, JobInv, CasSucceeds
  <2>2. store.val \in Value
    BY DEF TypeOK
  <2> QED BY <1>1, <2>1, <2>2 DEF SameEntity, Value
<1> QED BY <1>2, <1>3

\* The front of the mailbox becomes the Job, and a queued request expires.
LEMMA LedgerQueue ==
    ASSUME TypeOK, MailInv, LedgerInv, NEW h \in Hosts, Acquire(h) \/ ExpireQueued(h)
    PROVE  LedgerInv' /\ [Ledger!LedgerNext]_(Ledger!ledgerVars)
<1> DEFINE q == slot[h].queue
<1>0. /\ slot \in [Hosts -> SlotType] /\ job \in [Hosts -> JobType] /\ q \in Seq(Attempts)
      /\ JobLedger(h) /\ IsInjective(q) /\ Range(q) \cap hist.applied = {}
  BY Zenon DEF TypeOK, SlotType, LedgerInv, MailInv, Once
<1>1. CASE Acquire(h)
  <2>1. /\ slot'[h].queue = Tail(q) /\ q # <<>> /\ UNCHANGED <<store, reply, hist>>
        /\ \A g \in Hosts \ {h} : slot'[g] = slot[g] /\ job'[g] = job[g]
    BY <1>0, <1>1 DEF Acquire, SlotType
  <2>2. job'[h].pc = "read" /\ job'[h].a = Head(q) /\ job'[h].replay = FALSE
    BY <1>0, <1>1 DEF Acquire, NoJob
  <2> HIDE DEF q
  <2>3. Head(q) \in Range(q) /\ Range(Tail(q)) \subseteq Range(q)
    BY <1>0, <2>1, TailElements
  <2>4. JobLedger(h)'
    BY <1>0, <2>1, <2>2, <2>3, Zenon DEF JobLedger, Busy, Granted
  <2>5. SameEntity(store'.val, store.val)
    BY <2>1 DEF SameEntity
  <2> QED BY <2>1, <2>3, <2>4, <2>5, LedgerQuiet DEF q
<1>2. CASE ExpireQueued(h)
  <2>1. PICK i \in DOMAIN q :
          /\ slot' = [slot EXCEPT ![h].queue = Removed(@, i),
                                  ![h].releasing = @ /\ ~IsControl(q[i])]
          /\ Answer(q[i], "failed")
    BY <1>2, Zenon DEF ExpireQueued, Removed
  <2>2. UNCHANGED <<store, job, hist>>
    BY <1>2, Zenon DEF ExpireQueued
  <2>3. slot'[h].queue = Removed(q, i) /\ \A g \in Hosts \ {h} : slot'[g] = slot[g]
    BY <1>0, <2>1 DEF SlotType
  <2>4. i \in 1..Len(q) /\ q[i] \in Attempts /\ q[i] \in Range(q) /\ q[i] \in Held(h)
    BY <1>0 DEF Range, Held
  <2>5. \A b \in Attempts : reply'[b] = IF b = q[i] THEN "failed" ELSE reply[b]
    BY <2>1, <2>4 DEF Answer, TypeOK
  <2> HIDE DEF q
  <2>6. Range(Removed(q, i)) \subseteq Range(q) /\ q[i] \notin hist.applied
    BY <1>0, <2>4, RemovedRange
  <2>7. JobLedger(h)' /\ SameEntity(store'.val, store.val)
    BY <1>0, <2>2 DEF JobLedger, Confirmed, Busy, Granted, SameEntity
  <2>8. Range(slot'[h].queue) \cap hist.applied = {}
    BY <1>0, <2>3, <2>6
  <2>9. LedgerInv'
    BY <2>2, <2>3, <2>5, <2>6, <2>7, <2>8, LedgerFrame, Zenon
  <2>10. reply[q[i]] = "pending"
    BY <2>4 DEF MailInv
  <2>11. Ledger!Fail(q[i])
    BY <2>1, <2>2, <2>6, <2>10 DEF Ledger!Fail, Answer
  <2> QED BY <2>4, <2>9, <2>11 DEF Ledger!LedgerNext
<1> QED BY <1>1, <1>2

\* Admission and refusal of a request.
LEMMA LedgerAdmit ==
    ASSUME TypeOK, MailInv, LedgerInv, NEW h \in Hosts, NEW a \in Attempts, reply[a] = "none",
           UNCHANGED <<store, hist>>,
           \/ Enqueue(h, a) /\ UNCHANGED job
           \/ Unload(h, a) /\ slot[h].queue = <<>>
           \/ Refuse(h, a)
    PROVE  LedgerInv' /\ Ledger!Submit(a)
<1>0. /\ slot \in [Hosts -> SlotType] /\ job \in [Hosts -> JobType]
      /\ JobLedger(h) /\ a \notin hist.applied
  BY DEF TypeOK, LedgerInv
<1>1. ASSUME UNCHANGED job PROVE JobLedger(h)'
  BY <1>0, <1>1, Zenon DEF JobLedger, Confirmed, Busy, Granted
<1>2. CASE Enqueue(h, a) /\ UNCHANGED job
  <2>1. /\ slot'[h].queue = Append(slot[h].queue, a) /\ Answer(a, "pending")
        /\ \A g \in Hosts \ {h} : slot'[g] = slot[g]
    BY <1>0, <1>2 DEF Enqueue, SlotType
  <2>2. slot[h].queue \in Seq(Attempts)
    BY <1>0 DEF SlotType
  <2>3. Range(slot'[h].queue) \subseteq Range(slot[h].queue) \cup {a}
    BY <2>1, <2>2, RangeAppend
  <2> QED BY <1>1, <1>2, <2>1, <2>3, LedgerSubmit, Zenon
<1>3. CASE Unload(h, a) /\ slot[h].queue = <<>>
  <2>1. /\ slot'[h].queue = slot[h].queue /\ Answer(a, "pending")
        /\ \A g \in Hosts \ {h} : slot'[g] = slot[g] /\ job'[g] = job[g]
    BY <1>0, <1>3 DEF Unload, SlotType
  <2>2. job'[h].pc = "unload" /\ job'[h].a = a /\ job'[h].replay = FALSE
    BY <1>0, <1>3 DEF Unload, NoJob
  <2>3. JobLedger(h)'
    BY <1>0, <2>2, Zenon DEF JobLedger, Busy, Granted
  <2> QED BY <2>1, <2>3, LedgerSubmit
<1>4. CASE Refuse(h, a)
  BY <1>1, <1>4, LedgerSubmit, Zenon DEF Refuse
<1> QED BY <1>2, <1>3, <1>4

\* Every step keeps the invariant and is a step of the ledger or a stutter.
LEMMA LedgerStep ==
    ASSUME TypeOK, LeaseInv, MailInv, LedgerInv, [Next]_vars
    PROVE  LedgerInv' /\ [Ledger!LedgerNext]_(Ledger!ledgerVars)
<1>0. job \in [Hosts -> JobType] /\ slot \in [Hosts -> SlotType]
  BY DEF TypeOK
<1>1. ASSUME UNCHANGED <<store, slot, job, reply, hist>>
      PROVE  LedgerInv' /\ UNCHANGED Ledger!ledgerVars
  BY <1>1, ZenonT(30) DEF LedgerInv, NoLostUpdate, CreateOnce, OkMeansApplied, JobLedger, Confirmed, Busy,
       Granted, Ledger!ledgerVars
<1>2. ASSUME NEW h \in Hosts, HostStep(h)
      PROVE  LedgerInv' /\ [Ledger!LedgerNext]_(Ledger!ledgerVars)
  <2>0. job[h] \in JobType /\ slot[h] \in SlotType /\ JobLedger(h)
    BY <1>0 DEF LedgerInv
  <2>1. ASSUME NEW a \in Attempts, Call(h, a)
        PROVE  LedgerInv' /\ [Ledger!LedgerNext]_(Ledger!ledgerVars)
    <3>1. LedgerInv' /\ Ledger!Submit(a)
      BY <2>1, LedgerAdmit DEF Call, Offered, Refuse
    <3> QED BY <3>1 DEF Ledger!LedgerNext
  <2>2. ASSUME NEW a \in Attempts, ControlEntity(h, a)
        PROVE  LedgerInv' /\ [Ledger!LedgerNext]_(Ledger!ledgerVars)
    <3>1. LedgerInv' /\ Ledger!Submit(a)
      BY <2>2, LedgerAdmit DEF ControlEntity, Offered, Refuse, Deactivate, Idle
    <3> QED BY <3>1 DEF Ledger!LedgerNext
  <2>3. CASE Drain(h)
    <3>1. CASE UNCHANGED <<slot, job, reply>>
      BY <1>1, <2>3, <3>1 DEF Drain
    <3>2. ASSUME NEW a \in Attempts, Offered(h, a), Deactivate(h, a)
          PROVE  LedgerInv' /\ [Ledger!LedgerNext]_(Ledger!ledgerVars)
      <4>1. LedgerInv' /\ Ledger!Submit(a)
        BY <2>3, <3>2, LedgerAdmit, Zenon DEF Drain, Offered, Deactivate, Idle
      <4> QED BY <4>1 DEF Ledger!LedgerNext
    <3> QED BY <2>3, <3>1, <3>2 DEF Drain
  <2>4. CASE DropIdle(h)
    <3>1. /\ slot'[h].queue = <<>> /\ slot[h].queue = <<>>
          /\ \A g \in Hosts \ {h} : slot'[g] = slot[g] /\ job'[g] = job[g]
      BY <1>0, <2>4 DEF DropIdle, NoSlot, Idle
    <3>2. UNCHANGED <<store, job, reply, hist>>
      BY <2>4 DEF DropIdle
    <3>3. JobLedger(h)' /\ SameEntity(store'.val, store.val)
      BY <2>0, <3>2, Zenon DEF JobLedger, Confirmed, Busy, Granted, SameEntity
    <3> QED BY <3>1, <3>2, <3>3, LedgerQuiet, Zenon
  <2>5. CASE Acquire(h) \/ ExpireQueued(h)
    BY <2>5, LedgerQueue
  <2>6. CASE Tick(h)
    BY <1>1, <2>6 DEF Tick
  <2>7. CASE Stop(h) \/ Crash(h)
    BY <2>7, LedgerHalt DEF Stop, Crash
  <2>8. CASE AcquireFailed(h)
    <3>1. Busy(h) /\ job[h].status \in Statuses /\ job[h].status # "ok"
      BY <2>0, <2>8 DEF AcquireFailed, Busy, JobType
    <3>2. job[h].a \notin hist.applied
      BY <2>0, <2>8, <3>1, Zenon DEF AcquireFailed, JobLedger
    <3> QED BY <2>8, <3>1, <3>2, LedgerComplete DEF AcquireFailed
  <2>9. CASE AcquireRefused(h) \/ LogicFails(h) \/ ExpireRunning(h)
    <3>1. Busy(h) /\ job[h].a \notin hist.applied
      BY <2>0, <2>9, Zenon DEF AcquireRefused, LogicFails, ExpireRunning, JobLedger, Busy
    <3>2. UNCHANGED Env /\ (Complete(h, "failed") \/ Complete(h, "unknown"))
      BY <2>9 DEF AcquireRefused, LogicFails, ExpireRunning
    <3> QED BY <3>1, <3>2, LedgerComplete DEF Statuses
  <2>10. CASE Replay(h)
    <3>1. Busy(h) /\ Confirmed(job[h].a)
      BY <2>0, <2>10 DEF Replay, JobLedger, Busy
    <3> QED BY <2>10, <3>1, LedgerComplete DEF Replay, Statuses
  <2>11. CASE Finish(h)
    <3>1. Busy(h) /\ job[h].status \in Statuses
      BY <2>0, <2>11 DEF Finish, Busy, JobType
    <3>2. job[h].status = "failed" => job[h].a \notin hist.applied
      BY <2>0, <3>1 DEF JobLedger
    <3>3. job[h].status = "ok" => Confirmed(job[h].a)
      BY <2>0, <2>11, Zenon DEF Finish, JobLedger, Confirmed
    <3> QED BY <2>11, <3>1, <3>2, <3>3, LedgerComplete DEF Finish
  <2>12. CASE UnloadDone(h)
    <3>1. /\ Busy(h) /\ job' = [job EXCEPT ![h] = NoJob] /\ Answer(job[h].a, job[h].status)
          /\ UNCHANGED <<store, hist>>
      BY <2>12 DEF UnloadDone, Busy, Env
    <3>2. job[h].status \in Statuses /\ \A g \in Hosts \ {h} : slot'[g] = slot[g]
      BY <1>0, <2>0, <2>12 DEF UnloadDone, JobType
    <3>3. Range(slot'[h].queue) \subseteq Range(slot[h].queue)
      <4>1. CASE job[h].status = "ok"
        BY <1>0, <2>12, <4>1 DEF UnloadDone, NoSlot, Range
      <4>2. CASE job[h].status # "ok"
        BY <1>0, <2>0, <2>12, <4>2 DEF UnloadDone, SlotType
      <4> QED BY <4>1, <4>2
    <3>4. job[h].a \notin hist.applied
      BY <2>0, <2>12, <3>1 DEF UnloadDone, JobLedger
    <3>5. IsSilent(job[h].a)
      BY <2>12 DEF UnloadDone, MailInv, Once, Unloading, IsSilent
    <3> QED BY <3>1, <3>2, <3>3, <3>4, <3>5, LedgerAnswer, Zenon
  <2>13. CASE AcquireRead(h)
    <3>1. /\ UNCHANGED <<store, slot, reply, hist>> /\ \A g \in Hosts \ {h} : job'[g] = job[g]
          /\ SameEntity(store'.val, store.val)
      BY <1>0, <2>13 DEF AcquireRead, SameEntity
    <3> QED BY <2>13, <3>1, LedgerRead, LedgerQuiet
  <2>14. CASE LeaseCas(h) \/ LeaseConfirm(h) \/ AcquireError(h) \/ Execute(h) \/ LogicDone(h)
              \/ CheckLease(h) \/ UnloadRead(h) \/ UnloadCas(h) \/ UnloadError(h)
    <3>1. /\ UNCHANGED <<slot, reply>>
          /\ \A g \in Hosts \ {h} : slot'[g] = slot[g] /\ job'[g] = job[g]
      BY <1>0, <2>14 DEF LeaseCas, LeaseConfirm, AcquireError, Execute, LogicDone, CheckLease,
           UnloadRead, UnloadCas, UnloadError
    <3>2. UNCHANGED hist \/ Vacate
      BY <2>14 DEF LeaseCas, LeaseConfirm, AcquireError, Execute, LogicDone, CheckLease,
           UnloadRead, UnloadCas, UnloadError
    <3>3. hist'.applied = hist.applied /\ hist'.creates = hist.creates
      BY <3>2, Zenon DEF Vacate, TypeOK, HistType
    <3>4. \/ UNCHANGED store
          \/ /\ job[h].pc \in {"lease", "unloadcas"} /\ CasSucceeds(h)
             /\ Write(job[h].image)
      BY <2>14 DEF LeaseCas, LeaseConfirm, AcquireError, Execute, LogicDone, CheckLease,
           UnloadRead, UnloadCas, UnloadError
    <3>5. SameEntity(store'.val, store.val)
      BY <3>4, LeaseWriteQuiet DEF SameEntity
    <3>6. JobLedger(h)'
      BY <2>14, <3>3, LedgerWorker, Zenon
    <3> QED BY <3>1, <3>3, <3>5, <3>6, LedgerQuiet
  <2>15. CASE CommitCas(h) \/ CommitError(h)
    <3>1. UNCHANGED <<slot, reply>> /\ \A g \in Hosts \ {h} : slot'[g] = slot[g] /\ job'[g] = job[g]
      BY <1>0, <2>15 DEF CommitCas, CommitError
    <3>2. CASE UNCHANGED <<store, hist>>
      <4>1. ~(CommitCas(h) /\ CasSucceeds(h))
        <5>1. SUFFICES ASSUME CommitCas(h), CasSucceeds(h) PROVE FALSE
          OBVIOUS
        <5>2. store'.version = store.version + 1 /\ store.version \in Nat
          BY <5>1 DEF CommitCas, Write, TypeOK
        <5> QED BY <3>2, <5>2
      <4>2. JobLedger(h)'
        BY <2>15, <3>2, <4>1, LedgerWorker
      <4>3. SameEntity(store'.val, store.val)
        BY <3>2 DEF SameEntity
      <4> QED BY <3>1, <3>2, <4>2, <4>3, LedgerQuiet
    <3>3. CASE job[h].pc = "cas" /\ CasSucceeds(h) /\ Write(job[h].image) /\ Record(h)
      <4>1. /\ job'[h].a = job[h].a /\ job'[h].pc = "answer" /\ job'[h].status # "failed"
            /\ job'[h].replay = job[h].replay
        <5>1. CASE CommitCas(h)
          <6>1. job'[h] = [job[h] EXCEPT !.pc = "answer"]
            BY <1>0, <3>3, <5>1 DEF CommitCas
          <6>2. job[h].status = "ok"
            BY <2>0, <3>3 DEF JobLedger
          <6> QED BY <2>0, <6>1, <6>2 DEF JobType
        <5>2. CASE CommitError(h)
          BY <1>0, <2>0, <5>2 DEF CommitError, Uncertain, JobType
        <5> QED BY <2>15, <5>1, <5>2
      <4>2. LedgerInv' /\ Ledger!Apply(job[h].a)
        BY <3>1, <3>3, <4>1, LedgerCommit
      <4>3. job[h].a \in Attempts
        BY <3>3 DEF TypeOK
      <4> QED BY <4>2, <4>3 DEF Ledger!LedgerNext
    <3> QED BY <2>15, <3>2, <3>3 DEF CommitCas, CommitError
  <2> QED
    BY <1>2, <2>1, <2>2, <2>3, <2>4, <2>5, <2>6, <2>7, <2>8, <2>9, <2>10, <2>11, <2>12, <2>13,
       <2>14, <2>15 DEF HostStep
<1> QED BY <1>1, <1>2 DEF Next, vars
-----------------------------------------------------------------------------
\* The inductive invariant of the whole host.
SafetyInv == TypeOK /\ LeaseInv /\ MailInv /\ LedgerInv

\* It holds initially and every step keeps it.
LEMMA SafetyCorrect == Spec => []SafetyInv
<1>1. Init => SafetyInv
  BY InitType, InitLease, InitMail, InitLedger DEF SafetyInv
<1>2. SafetyInv /\ [Next]_vars => SafetyInv'
  BY TypeStep, LeaseStep, MailStep, LedgerStep DEF SafetyInv
<1> QED BY <1>1, <1>2, PTL DEF Spec

\* The durable state is exactly what was committed, under any number of hosts,
\* crashes, expired leases and late commits (see NoLostUpdate).
THEOREM UpdatesKept == Spec => []NoLostUpdate
<1>1. SafetyInv => NoLostUpdate
  BY DEF SafetyInv, LedgerInv
<1> QED BY <1>1, SafetyCorrect, PTL

\* The entity is initialized exactly when one $create took effect (see CreateOnce).
THEOREM CreatedOnce == Spec => []CreateOnce
<1>1. SafetyInv => CreateOnce
  BY DEF SafetyInv, LedgerInv
<1> QED BY <1>1, SafetyCorrect, PTL

\* A caller is told ok only when its request took effect (see OkMeansApplied).
THEOREM OkIsTrue == Spec => []OkMeansApplied
<1>1. SafetyInv => OkMeansApplied
  BY DEF SafetyInv, LedgerInv
<1> QED BY <1>1, SafetyCorrect, PTL

\* A definite failure is never followed, or preceded, by the request's effect
\* (see FailureMeansNotApplied).
THEOREM FailureIsTrue == Spec => []FailureMeansNotApplied
<1>1. SafetyInv => FailureMeansNotApplied
  BY DEF SafetyInv, LedgerInv, FailureMeansNotApplied
<1> QED BY <1>1, SafetyCorrect, PTL

\* What callers were told agrees with the durable state (see TruthfulAnswers).
THEOREM AnswersAreTruthful == Spec => []TruthfulAnswers
BY UpdatesKept, OkIsTrue, FailureIsTrue, PTL DEF TruthfulAnswers

\* Through a handoff the entity has one home and one creation, and no request is
\* forgotten (see HandoffSafe).
THEOREM HandoffIsSafe == Spec => []HandoffSafe
BY Placed, CreatedOnce, Unstranded, PTL DEF HandoffSafe

\* All the hosts together implement the ledger (see ImplementsLedger): the
\* initial states map to initial states, and every step to a step or a stutter.
THEOREM Refinement == Spec => ImplementsLedger
<1>1. Init => Ledger!LedgerInit
  BY DEF Init, EmptyValue, Ledger!LedgerInit
<1>2. SafetyInv /\ [Next]_vars => [Ledger!LedgerNext]_(Ledger!ledgerVars)
  BY LedgerStep DEF SafetyInv
<1> QED BY <1>1, <1>2, SafetyCorrect, PTL DEF Spec, ImplementsLedger, Ledger!LedgerSpec
=============================================================================
