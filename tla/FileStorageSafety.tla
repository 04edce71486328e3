------------------------- MODULE FileStorageSafety -------------------------
(***************************************************************************)
(* Proofs about the file backend, for any processes and values: what was   *)
(* acknowledged survives, a version stands for one content, no record is   *)
(* damaged, and the backend implements the storage contract.               *)
(***************************************************************************)
EXTENDS FileStorage, TLAPS

\* A record without a value that get() shows has version 0, and the other way round.
Proper(r) == r \in Revisions /\ (r.version = 0 <=> r.value = None)

\* What a power loss may leave is whole, no newer than the visible file, and no older than
\* what was acknowledged. A file exists only in a directory that was synced into the root.
DiskInv ==
    /\ \A f \in disk :
        /\ f.data = "synced"
        /\ f.version <= visible.version
        /\ f.version = 0 => f = NoFile
        /\ acked.version <= f.version
        /\ acked.version = f.version => acked = Revision(f)
    /\ shard # "synced" => disk = {NoFile}

\* A process knows no newer version than the visible one, and knows that one's content.
KnownInv ==
    \A p \in Procs :
        /\ Proper(known[p])
        /\ known[p].version <= visible.version
        /\ known[p].version = visible.version /\ known[p].version # 0 =>
              known[p] = Revision(visible)

\* How far the holder of the lock is: the shard is durable, the version that it replaces is
\* the visible one, and its file is the next, synced before it is renamed.
HolderInv ==
    \A p \in Procs :
        /\ call[p].pc \in {"lock"} \cup Locking => shard = "synced"
        /\ call[p].pc \in {"data", "rename"} =>
              /\ known[p] = Shown(visible)
              /\ call[p].value = None => visible.value # None
              /\ temp[p].version = visible.version + 1 /\ temp[p].value = call[p].value
        /\ call[p].pc = "rename" => temp[p].data = "synced"
        /\ call[p].pc = "directory" =>
              /\ visible = temp[p] /\ temp[p].value = call[p].value
              /\ acked.version < visible.version

FilesInv == TypeOK /\ DiskInv /\ KnownInv /\ HolderInv
-----------------------------------------------------------------------------
\* The parts that the processes p does not name keep, when p leaves replace().
LEMMA LeaveType ==
    ASSUME TypeOK, NEW p \in Procs, Leave(p)
    PROVE  /\ temp' \in [Procs -> Files]
           /\ call' \in [Procs -> [pc : {"idle", "shard", "root", "lock"} \cup Locking,
                                   value : Values \cup {None}]]
           /\ lock' \in Procs \cup {None}
           /\ \A q \in Procs : lock' = q <=> call'[q].pc \in Locking
           /\ call'[p].pc = "idle"
           /\ \A q \in Procs \ {p} : call'[q] = call[q] /\ temp'[q] = temp[q]
    BY NoneAssumption DEF TypeOK, Leave, Released, NoCall, NoFile, Files, Locking

\* The files and what is known of them start in order.
LEMMA FilesInit == Init => FilesInv
<1> SUFFICES ASSUME Init PROVE FilesInv
    OBVIOUS
<1>1. TypeOK
    BY NoneAssumption
    DEF Init, TypeOK, NoFile, NoCall, Absent, Files, Revisions, Locking
<1>2. DiskInv /\ KnownInv
    BY DEF Init, DiskInv, KnownInv, Proper, NoFile, Absent, Revision, Revisions
<1>3. HolderInv
    BY DEF Init, HolderInv, NoCall, Locking
<1>4. QED
    BY <1>1, <1>2, <1>3 DEF FilesInv

\* get(), and replace() until it has the lock: no file changes.
LEMMA FilesEnter ==
    ASSUME FilesInv, NEW p \in Procs, NEW v \in Values \cup {None},
           Get(p) \/ Replace(p, v) \/ MakeShard(p) \/ SyncRoot(p) \/ Lock(p)
    PROVE  FilesInv'
<1> USE DEF FilesInv
<1>1. CASE Get(p)
  <2>1. TypeOK'
      BY <1>1 DEF Get, TypeOK, Shown, Absent, Revision, Revisions, Files
  <2>2. KnownInv'
      BY <1>1 DEF Get, TypeOK, KnownInv, DiskInv, Proper, Shown, Absent, NoFile, Revision,
                  Revisions, Files
  <2>3. DiskInv' /\ HolderInv'
      BY <1>1 DEF Get, At, TypeOK, DiskInv, HolderInv, Locking
  <2>4. QED
      BY <2>1, <2>2, <2>3
<1>2. CASE Replace(p, v)
  <2>1. TypeOK'
      BY <1>2, NoneAssumption DEF Replace, At, TypeOK, Locking
  <2>2. QED
      BY <1>2, <2>1 DEF Replace, At, TypeOK, DiskInv, KnownInv, HolderInv, Locking
<1>3. CASE MakeShard(p)
  <2>1. TypeOK'
      BY <1>3, NoneAssumption DEF MakeShard, At, Goto, TypeOK, Locking
  <2>2. QED
      BY <1>3, <2>1 DEF MakeShard, At, Goto, TypeOK, DiskInv, KnownInv, HolderInv, Locking
<1>4. CASE SyncRoot(p)
  <2>1. TypeOK'
      BY <1>4, NoneAssumption DEF SyncRoot, RootSynced, At, Goto, TypeOK, Locking
  <2>2. QED
      BY <1>4, <2>1
      DEF SyncRoot, RootSynced, At, Goto, TypeOK, DiskInv, KnownInv, HolderInv, Locking
<1>5. CASE Lock(p)
  <2>1. TypeOK'
      BY <1>5, NoneAssumption DEF Lock, LockFree, At, Goto, TypeOK, Locking
  <2>2. QED
      BY <1>5, <2>1 DEF Lock, LockFree, At, Goto, TypeOK, DiskInv, KnownInv, HolderInv, Locking
<1>6. QED
    BY <1>1, <1>2, <1>3, <1>4, <1>5

\* replace() with the lock: its file becomes the visible one, and then the only one.
LEMMA FilesWrite ==
    ASSUME FilesInv, NEW p \in Procs,
           ReadRecord(p) \/ SyncData(p) \/ Rename(p) \/ SyncDirectory(p)
    PROVE  FilesInv'
<1> USE DEF FilesInv
<1>1. CASE ReadRecord(p) /\ Stale(p)
  <2>1. Leave(p) /\ UNCHANGED <<shard, visible, disk, known, acked>>
      BY <1>1 DEF ReadRecord
  <2>2. TypeOK'
      BY <2>1, LeaveType DEF TypeOK
  <2>3. QED
      BY <2>1, <2>2, LeaveType DEF DiskInv, KnownInv, HolderInv, Locking
<1>2. CASE ReadRecord(p) /\ ~Stale(p)
  <2> DEFINE file == [version |-> NextVersion(visible), value |-> call[p].value,
                      data |-> "cached"]
  <2>0. file \in Files
      BY DEF NextVersion, TypeOK, Files
  <2>1. TypeOK'
    <3>1. temp' \in [Procs -> Files]
        BY <1>2, <2>0 DEF ReadRecord, TypeOK
    <3>2. QED
        BY <1>2, <3>1 DEF ReadRecord, At, Goto, TypeOK, Locking
  <2>2. known[p] = Shown(visible) /\ (call[p].value = None => visible.value # None)
      BY <1>2 DEF ReadRecord, Stale, TypeOK, KnownInv, DiskInv, Proper, Shown, Absent, NoFile,
                  Revision, Revisions, Files
  <2>3. HolderInv'
      BY <1>2, <2>2 DEF ReadRecord, NextVersion, At, Goto, TypeOK, HolderInv, Locking, Files
  <2>4. QED
      BY <1>2, <2>1, <2>3 DEF ReadRecord, DiskInv, KnownInv
<1>3. CASE SyncData(p)
  <2>1. TypeOK'
    <3>1. temp' \in [Procs -> Files]
        BY <1>3 DEF SyncData, SyncedFile, TypeOK, Files
    <3>2. QED
        BY <1>3, <3>1 DEF SyncData, At, Goto, TypeOK, Locking
  <2>2. HolderInv'
      BY <1>3 DEF SyncData, SyncedFile, At, Goto, TypeOK, HolderInv, Locking, Files
  <2>3. QED
      BY <1>3, <2>1, <2>2 DEF SyncData, DiskInv, KnownInv
<1>4. CASE Rename(p)
  <2>1. \A q \in Procs \ {p} : call[q].pc \notin Locking
      BY <1>4 DEF Rename, At, TypeOK, Locking
  <2>2. /\ visible.version \in Nat /\ visible'.version = visible.version + 1
        /\ visible' = temp[p] /\ visible' \in Files /\ visible'.data = "synced"
        /\ acked.version \in Nat /\ acked.version <= visible.version
      BY <1>4 DEF Rename, At, TypeOK, HolderInv, DiskInv, Files, Revisions
  <2>3. TypeOK'
      BY <1>4, <2>2 DEF Rename, At, Goto, TypeOK, Locking
  <2>4. DiskInv'
      BY <1>4, <2>2 DEF Rename, At, TypeOK, DiskInv, HolderInv, Files, Locking
  <2>5. KnownInv'
      BY <1>4, <2>2 DEF Rename, TypeOK, KnownInv, Proper, Revisions
  <2>6. HolderInv'
      BY <1>4, <2>1, <2>2 DEF Rename, At, Goto, TypeOK, HolderInv, Locking
  <2>7. QED
      BY <2>3, <2>4, <2>5, <2>6
<1>5. CASE SyncDirectory(p)
  <2>1. Leave(p) /\ UNCHANGED <<shard, visible, known>> /\ disk' = {visible}
        /\ acked' = Revision(visible)
      BY <1>5 DEF SyncDirectory, DirectorySynced, HolderInv, At
  <2>2. TypeOK'
      BY <2>1, LeaveType DEF TypeOK, Revision, Revisions, Files
  <2>3. \A q \in Procs \ {p} : call[q].pc \notin Locking
      BY <1>5 DEF SyncDirectory, At, TypeOK, Locking
  <2>4. DiskInv'
      BY <1>5, <2>1 DEF SyncDirectory, At, TypeOK, DiskInv, HolderInv, Locking, Revision, Files
  <2>5. KnownInv' /\ HolderInv'
      BY <2>1, <2>3, LeaveType DEF KnownInv, HolderInv, Locking
  <2>6. QED
      BY <2>2, <2>4, <2>5
<1>6. QED
    BY <1>1, <1>2, <1>3, <1>4, <1>5

\* replace() throws or its process dies at any step, and the power fails.
LEMMA FilesFault ==
    ASSUME FilesInv, (\E p \in Procs : Throw(p) \/ ThrowSynced(p) \/ Crash(p)) \/ PowerLoss
    PROVE  FilesInv'
<1> USE DEF FilesInv
<1>1. ASSUME NEW p \in Procs, Throw(p) PROVE FilesInv'
  <2>1. Leave(p) /\ UNCHANGED <<shard, visible, disk, known, acked>>
      BY <1>1 DEF Throw
  <2>2. TypeOK'
      BY <2>1, LeaveType DEF TypeOK
  <2>3. QED
      BY <2>1, <2>2, LeaveType DEF DiskInv, KnownInv, HolderInv, Locking
<1>2. ASSUME NEW p \in Procs, ThrowSynced(p) PROVE FilesInv'
  <2>1. /\ Leave(p) /\ UNCHANGED <<visible, known, acked>>
        /\ shard' \in {shard, "synced"} /\ disk' \in {disk, {visible}}
      BY <1>2 DEF ThrowSynced
  <2>2. TypeOK'
      BY <2>1, LeaveType DEF TypeOK
  <2>3. DiskInv'
      BY <2>1 DEF TypeOK, DiskInv
  <2>4. KnownInv' /\ HolderInv'
      BY <2>1, LeaveType DEF KnownInv, HolderInv, Locking
  <2>5. QED
      BY <2>2, <2>3, <2>4
<1>3. ASSUME NEW p \in Procs, Crash(p) PROVE FilesInv'
  <2>1. /\ Leave(p) /\ UNCHANGED <<shard, visible, disk, acked>>
        /\ known' = [known EXCEPT ![p] = Absent]
      BY <1>3 DEF Crash
  <2>2. TypeOK'
      BY <2>1, LeaveType DEF TypeOK, Absent, Revisions
  <2>3. KnownInv'
      BY <2>1 DEF TypeOK, KnownInv, Proper, Absent, Revisions, Files
  <2>4. DiskInv' /\ HolderInv'
      BY <2>1, LeaveType DEF TypeOK, DiskInv, HolderInv, Locking
  <2>5. QED
      BY <2>2, <2>3, <2>4
<1>4. ASSUME PowerLoss PROVE FilesInv'
  <2>1. visible' \in disk /\ disk' = {visible'} /\ acked' = acked
      BY <1>4 DEF PowerLoss, AfterLoss, DiskInv, TypeOK
  <2>2. TypeOK'
      BY <1>4, <2>1, NoneAssumption
      DEF PowerLoss, TypeOK, NoFile, NoCall, Absent, Files, Revisions, Locking
  <2>3. DiskInv'
      BY <1>4, <2>1 DEF PowerLoss, TypeOK, DiskInv, Files, NoFile
  <2>4. KnownInv' /\ HolderInv'
      BY <1>4, <2>2
      DEF PowerLoss, TypeOK, KnownInv, HolderInv, Proper, Absent, NoCall, Revisions, Locking, Files
  <2>5. QED
      BY <2>2, <2>3, <2>4
<1>5. QED
    BY <1>1, <1>2, <1>3, <1>4

\* The invariant of the files holds in every reachable state.
LEMMA FilesCorrect == Spec => []FilesInv
<1>1. FilesInv /\ [Next]_vars => FilesInv'
  <2> SUFFICES ASSUME FilesInv, [Next]_vars PROVE FilesInv'
      OBVIOUS
  <2>1. CASE Next
      BY <2>1, FilesEnter, FilesWrite, FilesFault DEF Next
  <2>2. CASE UNCHANGED vars
      BY <2>2 DEF vars, FilesInv, TypeOK, DiskInv, KnownInv, HolderInv
  <2>3. QED
      BY <2>1, <2>2
<1>2. QED
    BY <1>1, FilesInit, PTL DEF Spec

\* Files::replace(): what it acknowledged survives the death of processes and power losses,
\* a version stands for one content, and no record is damaged.
THEOREM FilesAreSafe == Spec => []FilesSafe
<1>1. FilesInv => FilesSafe
  <2> SUFFICES ASSUME FilesInv PROVE FilesSafe
      OBVIOUS
  <2>1. TypeOK /\ AckedSurvives /\ NeverTorn
      BY DEF FilesInv, TypeOK, DiskInv, AckedSurvives, NeverTorn
  <2>2. NoAba
      BY DEF FilesInv, HolderInv, NoAba
  <2>3. QED
      BY <2>1, <2>2 DEF FilesSafe
<1>2. QED
    BY <1>1, FilesCorrect, PTL
-----------------------------------------------------------------------------
\* The refinement.  The operations of the register, as the steps of replace() make them.
Ops == [p \in Procs |-> Operation(p)]
Idle == [step |-> "idle", expected |-> 0, value |-> None, version |-> 0]

\* Two states in which a process is as far and knows the same have the same operation of it.
LEMMA SameOperation ==
    ASSUME NEW p \in Procs, call'[p] = call[p], temp'[p] = temp[p],
           call[p].pc # "idle" => known'[p] = known[p]
    PROVE  Operation(p)' = Operation(p)
    BY DEF Operation, At

\* A step of one process is a step of its operation alone.
LEMMA OneOperation ==
    ASSUME NEW p \in Procs,
           \A q \in Procs \ {p} : /\ call'[q] = call[q] /\ temp'[q] = temp[q]
                                  /\ call[q].pc # "idle" => known'[q] = known[q]
    PROVE  Ops' = [Ops EXCEPT ![p] = Operation(p)']
<1>1. \A q \in Procs \ {p} : Operation(q)' = Operation(q)
    BY SameOperation
<1>2. QED
    BY <1>1 DEF Ops

\* An operation that goes on before its rename looks the same.
LEMMA StillCalled ==
    ASSUME TypeOK, NEW p \in Procs,
           call[p].pc \notin {"idle", "directory"}, call'[p].pc \notin {"idle", "directory"},
           call'[p].value = call[p].value, known' = known,
           \A q \in Procs \ {p} : call'[q] = call[q] /\ temp'[q] = temp[q]
    PROVE  Ops' = Ops
<1>1. Operation(p)' = Operation(p)
    BY DEF Operation, At
<1>2. \A q \in Procs : Operation(q)' = Operation(q)
    BY <1>1, SameOperation
<1>3. QED
    BY <1>2 DEF Ops

\* Leaving replace() makes an operation idle, without a change of the others.
LEMMA LeaveOps ==
    ASSUME TypeOK, NEW p \in Procs, Leave(p),
           \A q \in Procs \ {p} : known'[q] = known[q]
    PROVE  Ops' = [Ops EXCEPT ![p] = Idle]
<1>1. call'[p].pc = "idle" /\ \A q \in Procs \ {p} : call'[q] = call[q] /\ temp'[q] = temp[q]
    BY LeaveType
<1>2. Operation(p)' = Idle
    BY <1>1 DEF Operation, At, Idle
<1>3. QED
    BY <1>1, <1>2, OneOperation

\* The steps that the register does not see: get(), and replace() on its way to the rename.
LEMMA QuietSteps ==
    ASSUME FilesInv, NEW p \in Procs,
           \/ Get(p) \/ MakeShard(p) \/ SyncRoot(p) \/ Lock(p) \/ SyncData(p)
           \/ ReadRecord(p) /\ ~Stale(p)
    PROVE  UNCHANGED <<Revision(visible), Ops, acked>>
<1> USE DEF FilesInv
<1>1. UNCHANGED <<visible, acked>>
    BY DEF Get, MakeShard, SyncRoot, Lock, SyncData, ReadRecord
<1>2. Ops' = Ops
  <2>1. CASE Get(p)
    <3>1. call' = call /\ temp' = temp /\ \A q \in Procs : call[q].pc # "idle" => known'[q] = known[q]
        BY <2>1 DEF Get, At, TypeOK
    <3>2. QED
        BY <3>1, SameOperation DEF Ops
  <2>2. CASE \/ MakeShard(p) \/ SyncRoot(p) \/ Lock(p) \/ SyncData(p)
             \/ ReadRecord(p) /\ ~Stale(p)
    <3>1. /\ call[p].pc \notin {"idle", "directory"} /\ call'[p].pc \notin {"idle", "directory"}
          /\ call'[p].value = call[p].value /\ known' = known
          /\ \A q \in Procs \ {p} : call'[q] = call[q] /\ temp'[q] = temp[q]
        BY <2>2 DEF MakeShard, SyncRoot, Lock, SyncData, ReadRecord, At, Goto, TypeOK
    <3>2. QED
        BY <3>1, StillCalled
  <2>3. QED
      BY <2>1, <2>2
<1>3. QED
    BY <1>1, <1>2

\* replace() is called.
LEMMA InvokeStep ==
    ASSUME FilesInv, NEW p \in Procs, NEW v \in Values \cup {None}, Replace(p, v)
    PROVE  Register!Invoke(p)
<1> USE DEF FilesInv
<1>1. Ops' = [Ops EXCEPT ![p] = Operation(p)']
    BY OneOperation DEF Replace, TypeOK
<1>2. Operation(p) = Idle
    BY DEF Replace, At, Operation, Idle
<1>3. Operation(p)' = [step |-> "called", expected |-> known[p].version, value |-> v, version |-> 0]
    BY DEF Replace, At, Operation, TypeOK
<1>4. known[p].version \in Nat
    BY DEF TypeOK, Revisions
<1>5. UNCHANGED <<Revision(visible), acked>>
    BY DEF Replace, Revision
<1>6. Ops[p] = Operation(p) /\ Ops'[p] = Operation(p)'
    BY DEF Ops
<1>7. Operation(p)' \in Register!Calls
    BY <1>3, <1>4 DEF Register!Calls
<1>8. Ops[p] = Register!NoOp /\ Ops'[p] \in Register!Calls /\ Ops' = [Ops EXCEPT ![p] = Ops'[p]]
    BY <1>1, <1>2, <1>6, <1>7 DEF Idle, Register!NoOp
<1>9. QED
    BY <1>5, <1>8 DEF Ops, Register!Invoke

\* The rename is the step in which the replacement takes effect.
LEMMA ApplyStep ==
    ASSUME FilesInv, NEW p \in Procs, Rename(p)
    PROVE  Register!Apply(p)
<1> USE DEF FilesInv
<1>1. /\ call[p].pc = "rename" /\ call'[p].pc = "directory" /\ call'[p].value = call[p].value
      /\ \A q \in Procs \ {p} : call'[q] = call[q] /\ temp'[q] = temp[q]
      /\ known' = known /\ acked' = acked /\ visible' = temp[p] /\ temp' = temp
    BY DEF Rename, At, Goto, TypeOK
<1>2. /\ known[p] = Shown(visible) /\ (call[p].value = None => visible.value # None)
      /\ temp[p].version = visible.version + 1 /\ temp[p].value = call[p].value
    BY <1>1 DEF HolderInv
<1>3. Ops' = [Ops EXCEPT ![p] = Operation(p)']
    BY <1>1, OneOperation
<1>4. Operation(p) = [step |-> "called", expected |-> known[p].version,
                      value |-> call[p].value, version |-> 0]
    BY <1>1 DEF At, Operation
<1>5. Operation(p)' = [step |-> "applied", expected |-> known[p].version,
                       value |-> call[p].value, version |-> visible.version + 1]
    BY <1>1, <1>2 DEF At, Operation
<1>6. known[p].version = IF visible.value = None THEN 0 ELSE visible.version
    BY <1>2 DEF Shown, Absent, Revision
<1>7. Revision(visible)' = [version |-> visible.version + 1, value |-> call[p].value]
    BY <1>1, <1>2 DEF Revision
<1>8. Ops[p] = Operation(p)
    BY DEF Ops
<1>9. Ops' = [Ops EXCEPT ![p] = [step |-> "applied", expected |-> Ops[p].expected,
                                 value |-> Ops[p].value, version |-> Revision(visible).version + 1]]
    BY <1>3, <1>4, <1>5, <1>8 DEF Revision
<1>10. /\ Ops[p].step = "called" /\ Ops[p].expected = Register!Shown(Revision(visible))
       /\ Ops[p].value = None => Revision(visible).value # None
       /\ Revision(visible)' = [version |-> Revision(visible).version + 1, value |-> Ops[p].value]
    BY <1>2, <1>4, <1>6, <1>7, <1>8 DEF Revision, Register!Shown
<1>11. QED
    BY <1>1, <1>9, <1>10 DEF Ops, Register!Apply

\* The directory sync, with which replace() returns true, confirms it.
LEMMA ConfirmStep ==
    ASSUME FilesInv, NEW p \in Procs, SyncDirectory(p)
    PROVE  Register!Confirm(p)
<1> USE DEF FilesInv
<1>1. /\ call[p].pc = "directory" /\ visible' = visible
      /\ acked' = Revision(temp[p]) /\ temp[p].value = call[p].value
      /\ acked.version < temp[p].version
    BY DEF SyncDirectory, At, HolderInv
<1>2. Ops' = [Ops EXCEPT ![p] = Idle]
    BY LeaveOps DEF SyncDirectory
<1>3. Ops[p] = [step |-> "applied", expected |-> known[p].version,
                value |-> call[p].value, version |-> temp[p].version]
    BY <1>1 DEF Ops, Operation, At
<1>4. temp[p].version > acked.version
    BY <1>1 DEF TypeOK, Files, Revisions
<1>5. /\ Ops[p].step = "applied"
      /\ acked' = IF Ops[p].version > acked.version
                  THEN [version |-> Ops[p].version, value |-> Ops[p].value] ELSE acked
      /\ Ops' = [Ops EXCEPT ![p] = Register!NoOp]
    BY <1>1, <1>2, <1>3, <1>4 DEF Revision, Idle, Register!NoOp
<1>6. UNCHANGED Revision(visible)
    BY <1>1 DEF Revision
<1>7. QED
    BY <1>5, <1>6 DEF Ops, Register!Confirm

\* replace() that finds another version returns false.
LEMMA DenyStep ==
    ASSUME FilesInv, NEW p \in Procs, ReadRecord(p), Stale(p)
    PROVE  Register!Deny(p)
<1> USE DEF FilesInv
<1>1. call[p].pc = "read" /\ UNCHANGED <<visible, acked>>
    BY DEF ReadRecord, At
<1>2. Ops' = [Ops EXCEPT ![p] = Idle]
    BY LeaveOps DEF ReadRecord
<1>3. Ops[p] = [step |-> "called", expected |-> known[p].version,
                value |-> call[p].value, version |-> 0]
    BY <1>1 DEF Ops, Operation, At
<1>4. Shown(visible).version = Register!Shown(Revision(visible))
    BY DEF Shown, Absent, Revision, Register!Shown
<1>5. /\ Ops[p].step = "called"
      /\ \/ Ops[p].expected # Register!Shown(Revision(visible))
         \/ Ops[p].value = None /\ Revision(visible).value = None
      /\ Ops' = [Ops EXCEPT ![p] = Register!NoOp]
    BY <1>2, <1>3, <1>4 DEF Stale, Revision, Idle, Register!NoOp
<1>6. UNCHANGED <<Revision(visible), acked>>
    BY <1>1 DEF Revision
<1>7. QED
    BY <1>5, <1>6 DEF Ops, Register!Deny

\* A replace() that throws, or whose process dies, tells its caller nothing.
LEMMA AbortStep ==
    ASSUME FilesInv, NEW p \in Procs, Throw(p) \/ ThrowSynced(p) \/ Crash(p)
    PROVE  Register!Abort(p) \/ UNCHANGED <<Revision(visible), Ops, acked>>
<1> USE DEF FilesInv
<1>1. Leave(p) /\ UNCHANGED <<visible, acked>> /\ \A q \in Procs \ {p} : known'[q] = known[q]
    BY DEF Throw, ThrowSynced, Crash, TypeOK
<1>2. Ops' = [Ops EXCEPT ![p] = Idle]
    BY <1>1, LeaveOps
<1>3. UNCHANGED <<Revision(visible), acked>>
    BY <1>1 DEF Revision
<1>4. CASE Ops[p] = Idle
    BY <1>2, <1>3, <1>4 DEF Ops
<1>5. CASE Ops[p] # Idle
  <2>1. Ops[p] # Register!NoOp /\ Ops' = [Ops EXCEPT ![p] = Register!NoOp]
      BY <1>2, <1>5 DEF Idle, Register!NoOp
  <2>2. QED
      BY <1>3, <2>1 DEF Ops, Register!Abort
<1>6. QED
    BY <1>4, <1>5

\* A power loss goes back to a record that is no older than the acknowledged one.
LEMMA RestartStep ==
    ASSUME FilesInv, PowerLoss
    PROVE  Register!Restart
<1> USE DEF FilesInv
<1>1. visible' \in disk /\ acked' = acked
    BY DEF PowerLoss, AfterLoss, DiskInv, TypeOK
<1>2. Ops' = [q \in Procs |-> Register!NoOp]
  <2>1. \A q \in Procs : Operation(q)' = Register!NoOp
      BY DEF PowerLoss, NoCall, Operation, At, Register!NoOp
  <2>2. QED
      BY <2>1 DEF Ops
<1>3. /\ visible'.version \in 0..visible.version /\ visible'.value \in Values \cup {None}
      /\ acked.version <= visible'.version
      /\ acked.version = visible'.version => acked = Revision(visible)'
    BY <1>1 DEF TypeOK, DiskInv, Files, Revision
<1>4. Revision(visible)' = [version |-> visible'.version, value |-> visible'.value]
    BY DEF Revision
<1>5. Revision(visible)' \in [version : 0..Revision(visible).version, value : Values \cup {None}]
    BY <1>3, <1>4 DEF Revision
<1>6. QED
    BY <1>1, <1>2, <1>3, <1>4, <1>5 DEF Ops, Register!Restart

\* Files::get, compare_exchange and erase fulfil the contract of Storage: each replacement
\* is one atomic step between its call and its return, and what was acknowledged is durable.
THEOREM FilesRefine == Spec => ImplementsRegister
<1>1. Init => Register!RegisterInit
  <2> SUFFICES ASSUME Init PROVE Register!RegisterInit
      OBVIOUS
  <2>1. \A p \in Procs : Operation(p) = Register!NoOp
      BY DEF Init, NoCall, Operation, At, Register!NoOp
  <2>2. QED
      BY <2>1 DEF Init, NoFile, Absent, Revision, Register!RegisterInit
<1>2. FilesInv /\ [Next]_vars => [Register!RegisterNext]_<<Revision(visible), Ops, acked>>
  <2> SUFFICES ASSUME FilesInv, [Next]_vars
               PROVE  Register!RegisterNext \/ UNCHANGED <<Revision(visible), Ops, acked>>
      OBVIOUS
  <2>1. ASSUME NEW p \in Procs, NEW v \in Values \cup {None}, Replace(p, v)
        PROVE  Register!RegisterNext
      BY <2>1, InvokeStep DEF Register!RegisterNext
  <2>2. ASSUME NEW p \in Procs, Rename(p) \/ SyncDirectory(p) \/ (ReadRecord(p) /\ Stale(p))
        PROVE  Register!RegisterNext
      BY <2>2, ApplyStep, ConfirmStep, DenyStep DEF Register!RegisterNext
  <2>3. ASSUME NEW p \in Procs, Throw(p) \/ ThrowSynced(p) \/ Crash(p)
        PROVE  Register!RegisterNext \/ UNCHANGED <<Revision(visible), Ops, acked>>
      BY <2>3, AbortStep DEF Register!RegisterNext
  <2>4. ASSUME NEW p \in Procs,
               \/ Get(p) \/ MakeShard(p) \/ SyncRoot(p) \/ Lock(p) \/ SyncData(p)
               \/ ReadRecord(p) /\ ~Stale(p)
        PROVE  UNCHANGED <<Revision(visible), Ops, acked>>
      BY <2>4, QuietSteps
  <2>5. CASE PowerLoss
      BY <2>5, RestartStep DEF Register!RegisterNext
  <2>6. CASE UNCHANGED vars
      BY <2>6 DEF vars, Ops, Operation, At
  <2>7. QED
      BY <2>1, <2>2, <2>3, <2>4, <2>5, <2>6 DEF Next
<1>3. QED
    BY <1>1, <1>2, FilesCorrect, PTL DEF Spec, ImplementsRegister, Register!RegisterSpec, Ops
=============================================================================
