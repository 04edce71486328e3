---------------------------- MODULE MCServerLive ----------------------------
(***************************************************************************)
(* What a server process owes to those who wait, side by side: the         *)
(* executor with three jobs, of which two are small and one only fits      *)
(* alone; two hosts with a handoff, its acceptance and calls around them;  *)
(* the delivery of a command; a due timer; handoffs between two nodes; the *)
(* Lua engine with two requests beside a start task that loops.  They      *)
(* share nothing, so a behaviour moves one of them, named by part, and the *)
(* others stay in their initial states.                                    *)
(***************************************************************************)
EXTENDS AsyncDatabase, TLC

CONSTANTS None, Gone, j1, j2, j3, h1, h2, n1, n2, e1, e2, loop

Sizes == (j1 :> 1) @@ (j2 :> 1) @@ (j3 :> 3)

VARIABLES
    part,
    store, clock, up, draining, slot, job, ticket, reply, hist,
    record, registry, holder, dJob, attempt, sources, budget, received,
    tClock, tRecord, index, tJob, watch, scan, load, tBudget, fired,
    xRecord, xSlot, xDraining, op, calls, starts, faults, homes, answers,
    engine

H == INSTANCE EntityHost WITH
    Hosts <- {h1, h2}, Nodes <- {n1, n2}, NodeOf <- (h1 :> n1) @@ (h2 :> n2),
    Attempts <- {j1, j2, j3},
    Kind <- (j1 :> "write") @@ (j2 :> "handoff") @@ (j3 :> "accept"),
    ReqId <- [a \in {j1, j2, j3} |-> None], Body <- [a \in {j1, j2, j3} |-> "p"],
    Target <- [a \in {j1, j2, j3} |-> n2],
    Lease <- 1, RequestTimeout <- 0, ReceiptLimit <- 1, Fitting <- SUBSET {j1, j2, j3}, RequestLimit <- 2,
    HasHook <- TRUE, Events <- {"stop", "error"}, MaxTime <- 1

D == INSTANCE EntityDelivery WITH
    Entities <- {e1, e2}, Routes <- {<<e1, e2>>}, Mortal <- {e2}, Workers <- {n1, n2},
    Jobs <- {j1, j2}, MaxSends <- 1, MaxCalls <- 2, MaxFaults <- 1, job <- dJob

OneShot ==
    [delay |-> 0, interval |-> 0, count |-> 1, catch_up |-> FALSE, fixed_delay |-> FALSE]

T == INSTANCE EntityTimers WITH
    Nodes <- {n1, n2}, Services <- {n1, n2}, Targets <- {n1}, Specs <- {OneShot},
    MaxInt <- 9, MaxTime <- 0, MaxCalls <- 1, MaxOps <- 1, MaxFaults <- 1,
    clock <- tClock, record <- tRecord, job <- tJob, budget <- tBudget

X == INSTANCE EntityTransfer WITH
    Nodes <- {n1, n2}, MaxStarts <- 2, MaxFaults <- 1,
    record <- xRecord, slot <- xSlot, draining <- xDraining

L == INSTANCE LuaEngine WITH
    Requests <- {e1, e2}, Starts <- <<loop>>, Critical <- {},
    Box <- (e1 :> "e") @@ (e2 :> "e") @@ (loop :> "none"), NoBox <- "none",
    MaxQueued <- 2, MaxActive <- 1, MaxBytes <- 0, WorkLimit <- 2,
    MaxAwaits <- (e1 :> 1) @@ (e2 :> 0) @@ (loop :> 1), MaxFaults <- 0, g <- engine

hostVars == <<store, clock, up, draining, slot, job, ticket, reply, hist>>
deliveryVars == <<record, registry, holder, dJob, attempt, sources, budget, received>>
timersVars == <<tClock, tRecord, index, tJob, watch, scan, load, tBudget, fired>>
transferVars == <<xRecord, xSlot, xDraining, op, calls, starts, faults, homes, answers>>
allVars == <<part, vars, hostVars, deliveryVars, timersVars, transferVars, engine>>

\* Of the parts that have a choice of initial states, only the one that moves makes it.
AllInit ==
    /\ part \in {"executor", "host", "delivery", "timers", "transfer", "engine"}
    /\ Init /\ H!Init /\ D!Init /\ T!Init /\ X!Init /\ L!Init
    /\ part # "transfer" => xRecord.placement = None

OnlyExecutor ==
    part = "executor"
    /\ UNCHANGED <<part, hostVars, deliveryVars, timersVars, transferVars, engine>>
OnlyHost ==
    part = "host" /\ UNCHANGED <<part, vars, deliveryVars, timersVars, transferVars, engine>>
OnlyDelivery ==
    part = "delivery" /\ UNCHANGED <<part, vars, hostVars, timersVars, transferVars, engine>>
OnlyTimers ==
    part = "timers" /\ UNCHANGED <<part, vars, hostVars, deliveryVars, transferVars, engine>>
OnlyTransfer ==
    part = "transfer" /\ UNCHANGED <<part, vars, hostVars, deliveryVars, timersVars, engine>>
OnlyEngine ==
    part = "engine" /\ UNCHANGED <<part, vars, hostVars, deliveryVars, timersVars, transferVars>>

AllNext ==
    \/ OnlyExecutor /\ Next
    \/ OnlyHost /\ H!Next
    \/ OnlyDelivery /\ D!Next
    \/ OnlyTimers /\ T!Next
    \/ OnlyTransfer /\ X!Next
    \/ OnlyEngine /\ L!Next
    \/ part # "executor" /\ UNCHANGED allVars  \* only the executor never comes to an end

\* The fairness of each component's FairSpec. As part never changes, the i-th weakly fair
\* step of one component and that of another can be one condition.
Weak(i) ==
    \/ /\ OnlyExecutor
       /\ \/ i = 1 /\ Worker
          \/ i = 2 /\ StopNotify
          \/ i = 3 /\ StopJoin
    \/ /\ OnlyHost
       /\ \/ i = 1 /\ H!Progress(h1)
          \/ i = 2 /\ H!Progress(h2)
    \/ /\ OnlyDelivery
       /\ \/ i = 1 /\ D!HostStep(j1)
          \/ i = 2 /\ D!HostStep(j2)
          \/ i = 3 /\ D!Load(n1)
          \/ i = 4 /\ D!Load(n2)
    \/ /\ OnlyTimers
       /\ \/ i = 1 /\ T!HostStep(n1)
          \/ i = 2 /\ T!HostStep(n2)
          \/ i = 3 /\ T!ScanStep(n1)
          \/ i = 4 /\ T!ScanStep(n2)
          \/ i = 5 /\ T!LoadStep(n1)
          \/ i = 6 /\ T!LoadStep(n2)
          \/ i = 7 /\ tRecord.owner = Gone /\ T!Lapse
    \/ /\ OnlyTransfer
       /\ \/ i = 1 /\ X!CoordinatorStep(n1)
          \/ i = 2 /\ X!CoordinatorStep(n2)
          \/ i = 3 /\ X!Retry(n1)
          \/ i = 4 /\ X!Retry(n2)
          \/ i = 5 /\ \E c \in calls : X!Accept(c)
    \/ /\ OnlyEngine
       /\ \/ i = 1 /\ L!BeginPoll
          \/ i = 2 /\ L!ResumeTask
          \/ i = 3 /\ L!StartTask
          \/ i = 4 /\ L!EndPoll
          \/ i = 5 /\ L!Expire(e1)
          \/ i = 6 /\ L!Expire(e2)
          \/ i = 7 /\ L!Expire(loop)
Strong(i) ==
    \/ OnlyExecutor /\ i = 1 /\ Poll
    \/ OnlyDelivery /\ D!WorkerStep(IF i = 1 THEN n1 ELSE n2, e1)
    \/ OnlyTimers /\ T!LoadFilter(IF i = 1 THEN n1 ELSE n2, TRUE)

AllSpec ==
    /\ AllInit /\ [][AllNext]_allVars
    /\ \A i \in 1..7 : WF_allVars(Weak(i))
    /\ \A i \in 1..2 : SF_allVars(Strong(i))
-----------------------------------------------------------------------------
\* AsyncDatabase: every accepted job is completed on the owning thread, and stop() returns.
ExecutorFinishes == Delivered /\ StopReturns

\* EntityScriptHost and LuaEngine: every request that was accepted is answered.
RequestsAnswered ==
    \A i \in 1..3 : []<>~(\/ part = "host" /\ reply[<<j1, j2, j3>>[i]] = "pending"
                          \/ /\ part = "engine"
                             /\ engine.st[<<e1, e2, loop>>[i]] \in {"queued", "suspended"})

\* EntityDelivery, EntityTimers and EntityTransfer: what was committed gets done. A command
\* is delivered, a due timer fires, and a released entity comes up at its target, through
\* lost calls, uncertain commits, crashes and restarts.
CommittedWorkIsDone ==
    []<>(CASE part = "delivery" -> ~D!Waiting(e1, e2, 1)
           [] part = "timers" -> ~T!Waiting(0)
           [] part = "transfer" -> ~X!Waiting
           [] OTHER -> TRUE)
=============================================================================
