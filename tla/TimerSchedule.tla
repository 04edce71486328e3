---------------------------- MODULE TimerSchedule ----------------------------
(***************************************************************************)
(* A timer and the clock: the timer fires when it is due, possibly late,   *)
(* and is advanced, until advance_entity_timer() ends it.                  *)
(***************************************************************************)
EXTENDS TimerState, Sequences

CONSTANTS
    Intervals, Counts,  \* the periods and counts explored; 0 is one-shot, unlimited
    MaxFires            \* bound: firings

VARIABLES
    first,  \* the timer as it was scheduled
    timer,  \* the timer now
    ended,
    now,
    fires   \* history: when each firing was due and when it happened

vars == <<first, timer, ended, now, fires>>

Timers ==
    {t \in [due : 0..3, interval : Intervals, remaining : Counts,
            catch_up : BOOLEAN, fixed_delay : BOOLEAN] : Valid(t)}

Init ==
    /\ first \in Timers
    /\ timer = first
    /\ ended = FALSE
    /\ now = 0
    /\ fires = <<>>

Pass ==
    /\ now' \in (now + 1)..MaxInt
    /\ UNCHANGED <<first, timer, ended, fires>>

\* The commit of a fired timer: it is advanced or removed.
Fire ==
    /\ ~ended /\ now >= timer.due /\ Len(fires) < MaxFires
    /\ fires' = Append(fires, [due |-> timer.due, at |-> now])
    /\ IF Continues(timer, now)
       THEN timer' = Advanced(timer, now) /\ UNCHANGED ended
       ELSE ended' = TRUE /\ UNCHANGED timer
    /\ UNCHANGED <<first, now>>

Next == Pass \/ Fire

Spec == Init /\ [][Next]_vars
-----------------------------------------------------------------------------
\* The timer stays valid: no time passes the end of an int64, and a counted timer
\* does not turn into an unlimited one.
TypeOK == Valid(timer) /\ (first.remaining > 0 => timer.remaining > 0)

Periods(a, b) == {k \in 1..MaxInt : a + k * first.interval = b}

\* fixed_rate keeps its time axis: however late the callbacks ran, each firing is a
\* whole number of periods after the one before; catch_up leaves none out.
OnTheGrid ==
    \A i \in 1..Len(fires) - 1 :
        LET k == Periods(fires[i].due, fires[i + 1].due)
        IN ~first.fixed_delay => k # {} /\ (first.catch_up => k = {1})

\* coalesce fires once for the periods it missed: its next time is in the future and
\* no grid point between is skipped; fixed_delay waits a whole period.
NextIsNearest ==
    ~ended /\ fires # <<>> /\ ~first.catch_up =>
        LET last == fires[Len(fires)]
        IN IF first.fixed_delay THEN timer.due = last.at + first.interval
           ELSE timer.due > last.at /\ timer.due - first.interval <= last.at

\* A timer ends when its count is used up, or when its next time does not fit in an
\* int64; it never ends earlier and never fires more often.
EndsInTime ==
    /\ first.remaining > 0 => Len(fires) <= first.remaining
    /\ ended =>
          LET last == fires[Len(fires)]
              from == IF first.fixed_delay THEN last.at ELSE last.due
              after == IF first.catch_up \/ first.fixed_delay THEN from ELSE last.at
          IN \/ first.remaining = Len(fires)
             \/ \A k \in 1..MaxInt : from + k * first.interval \in 0..MaxInt
                                        => from + k * first.interval <= after
=============================================================================
