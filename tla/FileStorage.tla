---------------------------- MODULE FileStorage ----------------------------
(***************************************************************************)
(* One key of the file backend: the shard directory, the lock file, the    *)
(* temporary file, rename and the syncs of Files::replace, among processes *)
(* that die at any moment and a machine that loses power.                  *)
(*                                                                         *)
(* visible is what open() finds under the record's name, and disk holds    *)
(* what a power loss may leave there: the kernel writes directories when   *)
(* it likes, and contents that were not synced are torn then.  A process   *)
(* is a thread that calls the storage; its lock is released when it dies.  *)
(* The hash of a key is taken to be collision free.                        *)
(***************************************************************************)
EXTENDS Naturals

CONSTANTS
    Procs,       \* the processes and threads that use the directory
    Values,      \* what is stored
    None,        \* no value, no process
    MaxVersion,  \* the versions an instance explores
    Events       \* "error", "crash", "power": what an instance explores

ASSUME NoneAssumption == None \notin Values /\ None \notin Procs

VARIABLES
    shard,    \* the shard directory: "none", "made" or "synced" in the root
    visible,  \* the record file: version, value or tombstone, state of the contents
    disk,     \* the record files that a power loss may leave
    lock,     \* the holder of the exclusive flock
    known,    \* what get() returned last to each process
    call,     \* the replacement each process executes
    temp,     \* its temporary file
    acked     \* history: the newest record whose replacement returned true

vars == <<shard, visible, disk, lock, known, call, temp, acked>>

\* No file, and a file as replace() writes it.  value None is the tombstone.
NoFile == [version |-> 0, value |-> None, data |-> "synced"]
Absent == [version |-> 0, value |-> None]
NoCall == [pc |-> "idle", value |-> None]
Revision(f) == [version |-> f.version, value |-> f.value]
\* What get() returns; its version is current.present ? current.version : 0.
Shown(f) == IF f.value = None THEN Absent ELSE Revision(f)

Init ==
    /\ shard = "none" /\ visible = NoFile /\ disk = {NoFile}
    /\ lock = None
    /\ known = [p \in Procs |-> Absent]
    /\ call = [p \in Procs |-> NoCall]
    /\ temp = [p \in Procs |-> NoFile]
    /\ acked = Absent

At(p, pc) == call[p].pc = pc
Goto(p, pc) == call' = [call EXCEPT ![p].pc = pc]
Released(p) == IF lock = p THEN None ELSE lock
\* replace() returns or throws: Locked closes the lock file.
Leave(p) ==
    /\ call' = [call EXCEPT ![p] = NoCall]
    /\ temp' = [temp EXCEPT ![p] = NoFile]
    /\ lock' = Released(p)
-----------------------------------------------------------------------------
\* get() reads the file that open() finds, whole, without a lock.
Get(p) ==
    /\ At(p, "idle") /\ visible.data # "torn"
    /\ known' = [known EXCEPT ![p] = Shown(visible)]
    /\ UNCHANGED <<shard, visible, disk, lock, call, temp, acked>>

\* compare_exchange() of what the process has read, or erase() when value is None.
Replace(p, value) ==
    /\ At(p, "idle")
    /\ call' = [call EXCEPT ![p] = [pc |-> "shard", value |-> value]]
    /\ UNCHANGED <<shard, visible, disk, lock, known, temp, acked>>

MakeShard(p) ==
    /\ At(p, "shard")
    /\ shard' = IF shard = "none" THEN "made" ELSE shard
    /\ Goto(p, "root")
    /\ UNCHANGED <<visible, disk, lock, known, temp, acked>>

\* if (!created || exclusive) fsync(root): also by a process that found the
\* directory made by another, which may not have synced it.
RootSynced == "synced"

SyncRoot(p) ==
    /\ At(p, "root")
    /\ shard' = RootSynced
    /\ Goto(p, "lock")
    /\ UNCHANGED <<visible, disk, lock, known, temp, acked>>

\* flock(LOCK_EX | LOCK_NB) in a loop.
LockFree(p) == lock = None

Lock(p) ==
    /\ At(p, "lock") /\ LockFree(p)
    /\ lock' = p
    /\ Goto(p, "read")
    /\ UNCHANGED <<shard, visible, disk, known, temp, acked>>

\* The new file; the version counts on through a tombstone.
NextVersion(f) == f.version + 1

\* replace() returns false: another version is there, or nothing that could be erased.
StaleMutant(p) == Shown(visible).version # known[p].version
Stale(p) ==
    \/ Shown(visible).version # known[p].version
    \/ call[p].value = None /\ visible.value = None

ReadRecord(p) ==
    /\ At(p, "read") /\ visible.data # "torn"
    /\ IF Stale(p)
       THEN Leave(p)
       ELSE /\ NextVersion(visible) <= MaxVersion
            /\ temp' = [temp EXCEPT ![p] = [version |-> NextVersion(visible),
                                            value |-> call[p].value, data |-> "cached"]]
            /\ Goto(p, "data") /\ UNCHANGED lock
    /\ UNCHANGED <<shard, visible, disk, known, acked>>

SyncedFile(f) == [f EXCEPT !.data = "synced"]

SyncData(p) ==
    /\ At(p, "data")
    /\ temp' = [temp EXCEPT ![p] = SyncedFile(temp[p])]
    /\ Goto(p, "rename")
    /\ UNCHANGED <<shard, visible, disk, lock, known, acked>>

Rename(p) ==
    /\ At(p, "rename")
    /\ visible' = temp[p] /\ disk' = disk \cup {temp[p]}
    /\ Goto(p, "directory")
    /\ UNCHANGED <<shard, lock, known, temp, acked>>

\* The directory sync, and the return of true.
DirectorySyncedMutant == disk
DirectorySynced == {visible}

SyncDirectory(p) ==
    /\ At(p, "directory")
    /\ disk' = DirectorySynced
    /\ acked' = Revision(temp[p])
    /\ Leave(p)
    /\ UNCHANGED <<shard, visible, known>>

\* A system call fails, the lock's deadline passes, or the record is damaged: it throws.
Throw(p) ==
    /\ "error" \in Events \/ (At(p, "read") /\ visible.data = "torn")
    /\ ~At(p, "idle")
    /\ Leave(p)
    /\ UNCHANGED <<shard, visible, disk, known, acked>>

\* A sync that fails may still have written everything.
ThrowSynced(p) ==
    /\ "error" \in Events
    /\ \/ At(p, "root") /\ shard' = "synced" /\ UNCHANGED disk
       \/ At(p, "directory") /\ disk' = {visible} /\ UNCHANGED shard
    /\ Leave(p)
    /\ UNCHANGED <<visible, known, acked>>

\* The process dies; the kernel drops its lock.  Another takes its place.
Crash(p) ==
    /\ "crash" \in Events
    /\ Leave(p)
    /\ known' = [known EXCEPT ![p] = Absent]
    /\ UNCHANGED <<shard, visible, disk, acked>>

\* The power fails.  A directory that was not synced may be gone with its files,
\* and contents that were not synced are.
AfterLoss(f) == IF f.data = "cached" THEN [f EXCEPT !.data = "torn"] ELSE f

PowerLoss ==
    /\ "power" \in Events
    /\ shard' \in IF shard = "made" THEN {"none", "synced"} ELSE {shard}
    /\ visible' \in IF shard' = "none" THEN {NoFile} ELSE {AfterLoss(f) : f \in disk}
    /\ disk' = {visible'}
    /\ lock' = None
    /\ known' = [p \in Procs |-> Absent]
    /\ call' = [p \in Procs |-> NoCall]
    /\ temp' = [p \in Procs |-> NoFile]
    /\ UNCHANGED acked

Next ==
    \/ \E p \in Procs :
        \/ \E v \in Values \cup {None} : Replace(p, v)
        \/ Get(p) \/ MakeShard(p) \/ SyncRoot(p) \/ Lock(p) \/ ReadRecord(p)
        \/ SyncData(p) \/ Rename(p) \/ SyncDirectory(p)
        \/ Throw(p) \/ ThrowSynced(p) \/ Crash(p)
    \/ PowerLoss

Spec == Init /\ [][Next]_vars
-----------------------------------------------------------------------------
Revisions == [version : Nat, value : Values \cup {None}]
Files == [version : Nat, value : Values \cup {None}, data : {"cached", "synced", "torn"}]
Locking == {"read", "data", "rename", "directory"}

\* Every variable has its type, and a process has the lock exactly while it is between
\* taking it and leaving replace().
TypeOK ==
    /\ shard \in {"none", "made", "synced"}
    /\ visible \in disk /\ disk \subseteq Files /\ temp \in [Procs -> Files]
    /\ known \in [Procs -> Revisions] /\ acked \in Revisions
    /\ call \in [Procs -> [pc : {"idle", "shard", "root", "lock"} \cup Locking,
                           value : Values \cup {None}]]
    /\ lock \in Procs \cup {None}
    /\ \A p \in Procs : lock = p <=> call[p].pc \in Locking

\* A replacement that returned true is never undone, neither by processes that die
\* nor by a power loss: the record is at least as new, and the same if it is as old.
AckedSurvives ==
    /\ acked.version <= visible.version
    /\ acked.version = visible.version => acked = Revision(visible)

\* A version stands for one content, through erasure and creation: a process that
\* replaces the version it has read replaces the very content it has read.
NoAba ==
    \A p \in Procs : call[p].pc \in {"data", "rename"} => known[p] = Shown(visible)

\* No crash or power loss leaves a damaged record, which would stop every access to the
\* key: contents are synced before the record's name refers to them.
NeverTorn == visible.data # "torn"

\* What replace() acknowledged survives processes that die and a power loss, a version
\* stands for one content, no record is damaged, and a process has the lock exactly while
\* it is inside replace().
FilesSafe == TypeOK /\ AckedSurvives /\ NoAba /\ NeverTorn

\* replace() as the contract sees it: it has taken effect from the rename on.
Operation(p) ==
    CASE At(p, "idle") -> [step |-> "idle", expected |-> 0, value |-> None, version |-> 0]
      [] At(p, "directory") -> [step |-> "applied", expected |-> known[p].version,
                                value |-> call[p].value, version |-> temp[p].version]
      [] OTHER -> [step |-> "called", expected |-> known[p].version,
                   value |-> call[p].value, version |-> 0]

Register == INSTANCE CasRegister WITH
    reg <- Revision(visible), op <- [p \in Procs |-> Operation(p)]

\* The backend fulfils the storage contract: compare_exchange() and erase() are atomic
\* among any processes, and what was acknowledged is durable.
ImplementsRegister == Register!RegisterSpec
=============================================================================
