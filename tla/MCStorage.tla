----------------------------- MODULE MCStorage -----------------------------
(***************************************************************************)
(* What is durable, side by side: one record file that two processes       *)
(* share; the arithmetic of a timer; a durable timer with two nodes.  They *)
(* share nothing, so a behaviour moves one of them, named by part, and the *)
(* others stay in their initial states.                                    *)
(***************************************************************************)
EXTENDS FileStorage, Integers, FiniteSets

CONSTANTS p1, p2, v1, v2, n1, n2, Gone

VARIABLES
    part,
    first, timer, ended, now, fires,
    clock, record, index, job, watch, scan, load, budget, fired

S == INSTANCE TimerSchedule WITH
    MaxInt <- 11, Intervals <- {0, 1, 2, 3, 7}, Counts <- 0..3, MaxFires <- 4

Twice ==
    [delay |-> 1, interval |-> 1, count |-> 2, catch_up |-> FALSE, fixed_delay |-> FALSE]
AtOnce ==
    [delay |-> 0, interval |-> 0, count |-> 1, catch_up |-> FALSE, fixed_delay |-> FALSE]

\* Four times: a timer that repeats, is cancelled or replaced, with two hosts; two services;
\* what fails under a service; and two hosts that lose the lease while they arm the index.
T == INSTANCE EntityTimers WITH
    Nodes <- {n1, n2}, Services <- {n1}, Targets <- {None}, Specs <- {Twice},
    MaxInt <- 9, MaxTime <- 2, MaxCalls <- 2, MaxOps <- 2, MaxFaults <- 0

T2 == INSTANCE EntityTimers WITH
    Nodes <- {n1, n2}, Services <- {n1, n2}, Targets <- {None}, Specs <- {Twice},
    MaxInt <- 9, MaxTime <- 1, MaxCalls <- 1, MaxOps <- 2, MaxFaults <- 0

T3 == INSTANCE EntityTimers WITH
    Nodes <- {n1, n2}, Services <- {n1}, Targets <- {None}, Specs <- {AtOnce},
    MaxInt <- 9, MaxTime <- 0, MaxCalls <- 2, MaxOps <- 1, MaxFaults <- 1

T4 == INSTANCE EntityTimers WITH
    Nodes <- {n1, n2}, Services <- {}, Targets <- {None}, Specs <- {AtOnce},
    MaxInt <- 9, MaxTime <- 0, MaxCalls <- 2, MaxOps <- 2, MaxFaults <- 2

scheduleVars == <<first, timer, ended, now, fires>>
timersVars == <<clock, record, index, job, watch, scan, load, budget, fired>>

\* Only the arithmetic has a choice of initial states.
AllInit ==
    /\ part \in {"files", "schedule", "timers", "services", "faults", "producers"}
    /\ Init /\ S!Init /\ T!Init
    /\ part # "schedule" => first = CHOOSE t \in S!Timers : TRUE

AllNext ==
    \/ part = "files" /\ Next /\ UNCHANGED <<part, scheduleVars, timersVars>>
    \/ part = "schedule" /\ S!Next /\ UNCHANGED <<part, vars, timersVars>>
    \/ /\ \/ part = "timers" /\ T!Next
          \/ part = "services" /\ T2!Next
          \/ part = "faults" /\ T3!Next
          \/ part = "producers" /\ T4!Next
       /\ UNCHANGED <<part, vars, scheduleVars>>
    \/ /\ part \in {"schedule", "producers"}  \* a timer ends, the hosts have no more requests
       /\ UNCHANGED <<part, vars, scheduleVars, timersVars>>

AllSpec == AllInit /\ [][AllNext]_<<part, vars, scheduleVars, timersVars>>
-----------------------------------------------------------------------------
\* The arithmetic of timers: the next due time is on the timer's grid, it is the nearest
\* that the policy allows, no time passes the end of an int64, and a counted timer ends
\* after its count.
ScheduleSafe == part = "schedule" =>
    S!TypeOK /\ S!OnTheGrid /\ S!NextIsNearest /\ S!EndsInTime

\* EntityTimers: a committed timer can be found through the index, a confirmed entry shows
\* the committed due time, and no occurrence fires twice or early.
TimersSafe == part \notin {"files", "schedule"} =>
    T!TypeOK /\ T!Discoverable /\ T!ConfirmedIsCurrent /\ T!FiredOnce
=============================================================================
