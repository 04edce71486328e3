---------------------------- MODULE CasRegister ----------------------------
(***************************************************************************)
(* The minimum contract of Storage for one key: a linearizable, durable    *)
(* record that get() reads and compare_exchange() and erase() replace.     *)
(* An operation takes effect in one step between its call and its return,  *)
(* and an operation that throws may or may not have taken effect.          *)
(***************************************************************************)
EXTENDS Naturals

CONSTANTS
    Procs,      \* the callers
    Values,     \* what may be stored
    None        \* no value: what erase() stores, and a record that never was

VARIABLES
    reg,       \* the record: its version, and its value or None
    op,        \* the operation of each caller
    acked      \* the newest record whose replacement was acknowledged

NoOp == [step |-> "idle", expected |-> 0, value |-> None, version |-> 0]
Calls == [step : {"called"}, expected : Nat, value : Values \cup {None}, version : {0}]

\* The version that get() shows and expected is compared with: 0 when absent.
Shown(r) == IF r.value = None THEN 0 ELSE r.version

RegisterInit ==
    /\ reg = [version |-> 0, value |-> None]
    /\ op = [p \in Procs |-> NoOp]
    /\ acked = [version |-> 0, value |-> None]

Invoke(p) ==
    /\ op[p] = NoOp
    /\ op'[p] \in Calls /\ op' = [op EXCEPT ![p] = op'[p]]
    /\ UNCHANGED <<reg, acked>>

\* The replacement takes effect on the version that was expected.  Revisions
\* go on through erasure: they never repeat.
Apply(p) ==
    /\ op[p].step = "called" /\ op[p].expected = Shown(reg)
    /\ op[p].value = None => reg.value # None
    /\ reg' = [version |-> reg.version + 1, value |-> op[p].value]
    /\ op' = [op EXCEPT ![p] = [step |-> "applied", expected |-> @.expected, value |-> @.value,
                                version |-> reg.version + 1]]
    /\ UNCHANGED acked

\* It returns true.
Confirm(p) ==
    /\ op[p].step = "applied"
    /\ acked' = IF op[p].version > acked.version
                THEN [version |-> op[p].version, value |-> op[p].value] ELSE acked
    /\ op' = [op EXCEPT ![p] = NoOp]
    /\ UNCHANGED reg

\* It returns false: the expected version is not there.
Deny(p) ==
    /\ op[p].step = "called"
    /\ op[p].expected # Shown(reg) \/ (op[p].value = None /\ reg.value = None)
    /\ op' = [op EXCEPT ![p] = NoOp]
    /\ UNCHANGED <<reg, acked>>

\* It throws, or the caller dies: nothing more is known.
Abort(p) ==
    /\ op[p] # NoOp
    /\ op' = [op EXCEPT ![p] = NoOp]
    /\ UNCHANGED <<reg, acked>>

\* The machine stops.  A replacement that was not acknowledged may be undone,
\* back to a record that is no older than the acknowledged one.
Restart ==
    /\ op' = [p \in Procs |-> NoOp]
    /\ \/ UNCHANGED reg
       \/ /\ reg' \in [version : 0..reg.version, value : Values \cup {None}]
          /\ acked.version <= reg'.version /\ (acked.version = reg'.version => acked = reg')
    /\ UNCHANGED acked

RegisterNext ==
    \/ \E p \in Procs :
        Invoke(p) \/ Apply(p) \/ Confirm(p) \/ Deny(p) \/ Abort(p)
    \/ Restart

RegisterSpec == RegisterInit /\ [][RegisterNext]_<<reg, op, acked>>
=============================================================================
