----------------------------- MODULE TimerState -----------------------------
(***************************************************************************)
(* The arithmetic of one persistent timer (entity_timer_state.cpp): when   *)
(* it fires next and when it ends.  Times are milliseconds in an int64,    *)
(* whose largest value is MaxInt here.                                     *)
(***************************************************************************)
EXTENDS Integers

CONSTANT MaxInt

Valid(t) ==
    /\ t.due \in 0..MaxInt /\ t.interval \in 0..MaxInt /\ t.remaining \in 0..MaxInt
    /\ t.interval = 0 => t.remaining = 1
    /\ ~(t.fixed_delay /\ t.catch_up)

\* A one-shot timer, or the last of a counted one; remaining 0 is unlimited.
LastFiringMutant(t) == t.interval = 0 \/ t.remaining = 0
LastFiring(t) == t.interval = 0 \/ t.remaining = 1

\* fixed_delay counts from the callback, fixed_rate from the time it was due.
Base(t, now) == IF t.fixed_delay THEN now ELSE t.due

\* coalesce skips the periods that passed; catch_up runs each of them.
Steps(t, now) ==
    IF t.fixed_delay \/ t.catch_up THEN 1 ELSE (now - t.due) \div t.interval + 1

Available(t, now) == (MaxInt - Base(t, now)) \div t.interval

Continues(t, now) == ~LastFiring(t) /\ Steps(t, now) <= Available(t, now)

\* advance_entity_timer(), when it returns true.
Advanced(t, now) ==
    [t EXCEPT !.due = Base(t, now) + Steps(t, now) * t.interval,
              !.remaining = IF @ = 0 THEN 0 ELSE @ - 1]
=============================================================================
