-------------------------- MODULE PostgresStorage --------------------------
(***************************************************************************)
(* The PostgreSQL adapter of Storage (src/src/postgres_database.cpp) for   *)
(* one key.  An adapter has one connection behind a timed mutex; every     *)
(* operation is one autocommitted statement under one deadline.  The       *)
(* adapter drops a connection whose statement did not complete, retries a  *)
(* read once and a write never.                                            *)
(*                                                                         *)
(* The server is external.  It commits a statement it has received even    *)
(* when the connection is lost meanwhile, or never starts it; an INSERT    *)
(* draws its revision from the sequence before it finds out whether the    *)
(* key is there.                                                           *)
(***************************************************************************)
EXTENDS Naturals, FiniteSets, Sequences

CONSTANTS
    Callers, Adapters,
    Home,        \* Home[c]: the adapter the caller uses
    Values, None,
    MaxOps,      \* bound: operations called
    MaxCuts      \* bound: connections lost

VARIABLES
    table,     \* the row: revision and value, None when absent
    drawn,     \* fsnet_record_revision
    used,      \* history: the revisions rows have had
    link,      \* connection_ of each adapter: none, ok, or dead unnoticed
    holder,    \* the caller that holds the adapter's mutex_
    op,        \* the operation of each caller
    stmts,     \* statements the server has received and not yet forgotten
    log,       \* history: effects and outcome of every operation
    cuts

vars == <<table, drawn, used, link, holder, op, stmts, log, cuts>>

Idle == [pc |-> "idle", kind |-> "get", expected |-> 0, value |-> None, retried |-> FALSE, n |-> 0]

Init ==
    /\ table = [version |-> 0, value |-> None]
    /\ drawn = 0 /\ used = {} /\ stmts = {} /\ log = <<>> /\ cuts = 0
    /\ link = [a \in Adapters |-> "none"]
    /\ holder = [a \in Adapters |-> None]
    /\ op = [c \in Callers |-> Idle]

Server == <<table, drawn, used>>

\* get, compare_exchange or erase is called; erase(expected = 0) returns false
\* without a statement and is left out.
Call(c, kind, expected, value) ==
    /\ op[c] = Idle /\ Len(log) < MaxOps
    /\ kind # "put" => value = None
    /\ kind = "put" => value # None
    /\ kind = "get" => expected = 0
    /\ kind = "erase" => expected # 0
    /\ op' = [op EXCEPT ![c] = [pc |-> "lock", kind |-> kind, expected |-> expected,
                                value |-> value, retried |-> FALSE, n |-> Len(log) + 1]]
    /\ log' = Append(log, [effects |-> 0, out |-> "none"])
    /\ UNCHANGED <<Server, link, holder, stmts, cuts>>

\* lock: one caller at a time uses the connection.
Lock(c) ==
    /\ op[c].pc = "lock" /\ holder[Home[c]] = None
    /\ holder' = [holder EXCEPT ![Home[c]] = c]
    /\ op' = [op EXCEPT ![c].pc = "ready"]
    /\ UNCHANGED <<Server, link, stmts, log, cuts>>

\* ready with no usable connection: connect to the server.
Connect(c) ==
    /\ op[c].pc = "ready" /\ link[Home[c]] = "none"
    /\ link' = [link EXCEPT ![Home[c]] = "ok"]
    /\ UNCHANGED <<Server, holder, op, stmts, log, cuts>>

\* query up to the flush; on a connection that died unnoticed the statement
\* goes nowhere.
Send(c) ==
    /\ op[c].pc = "ready" /\ link[Home[c]] # "none"
    /\ op' = [op EXCEPT ![c].pc = "wait"]
    /\ stmts' = IF link[Home[c]] = "dead" THEN stmts
                ELSE stmts \cup {[n |-> op[c].n, kind |-> op[c].kind, expected |-> op[c].expected,
                                  value |-> op[c].value, again |-> op[c].retried,
                                  lost |-> FALSE, version |-> 0, result |-> "none"]}
    /\ UNCHANGED <<Server, link, holder, log, cuts>>

----------------------------------------------------------------------------
(* The server *)

\* nextval of an INSERT, before the conflict check.
Draw(s) ==
    /\ s.result = "none" /\ s.kind = "put" /\ s.expected = 0 /\ s.version = 0
    /\ drawn' = drawn + 1
    /\ stmts' = (stmts \ {s}) \cup {[s EXCEPT !.version = drawn + 1]}
    /\ UNCHANGED <<table, used, link, holder, op, log, cuts>>

\* Whether the statement's condition finds its row, or finds none.
Matches(s) ==
    \/ s.kind = "get"
    \/ s.kind = "put" /\ s.expected = 0 /\ table.value = None
    \/ s.expected # 0 /\ table.value # None /\ table.version = s.expected

RevisionMutant(s) == table.version + 1

\* The revision a statement stores: drawn from the sequence, for an UPDATE
\* once its row is found (the SQL of compare_exchange).
Revision(s) == IF s.expected = 0 THEN s.version ELSE drawn + 1

\* The statement commits, or finds nothing to do.
Commit(s) ==
    /\ s.result = "none"
    /\ s.kind = "put" /\ s.expected = 0 => s.version # 0
    /\ IF ~Matches(s) \/ s.kind = "get"
       THEN UNCHANGED <<Server, log>>
       ELSE /\ table' = IF s.kind = "erase" THEN [version |-> 0, value |-> None]
                        ELSE [version |-> Revision(s), value |-> s.value]
            /\ used' = used \cup ({table'.version} \ {0})
            /\ drawn' = IF s.kind = "put" /\ s.expected # 0 THEN drawn + 1 ELSE drawn
            /\ log' = [log EXCEPT ![s.n].effects = @ + 1]
    /\ stmts' = (stmts \ {s}) \cup IF s.lost THEN {}
                                   ELSE {[s EXCEPT !.result = IF Matches(s) THEN "row" ELSE "empty"]}
    /\ UNCHANGED <<link, holder, op, cuts>>

\* A statement fails on the server (lock_timeout, statement_timeout).
Refuse(s) ==
    /\ s.result = "none"
    /\ stmts' = (stmts \ {s}) \cup IF s.lost THEN {} ELSE {[s EXCEPT !.result = "error"]}
    /\ UNCHANGED <<Server, link, holder, op, log, cuts>>

Own(c) == {s \in stmts : s.n = op[c].n /\ ~s.lost}

\* Statements whose connection is gone: their results are, too, and what the
\* server still runs is nobody's.
Orphaned(set) ==
    (stmts \ set) \cup {[s EXCEPT !.lost = TRUE] : s \in {t \in set : t.result = "none"}}

\* The connection of an adapter breaks, unnoticed by it.
Cut(a) ==
    /\ link[a] = "ok" /\ cuts < MaxCuts
    /\ link' = [link EXCEPT ![a] = "dead"] /\ cuts' = cuts + 1
    /\ stmts' = Orphaned(UNION {Own(c) : c \in {x \in Callers : Home[x] = a}})
    /\ UNCHANGED <<Server, holder, op, log>>

----------------------------------------------------------------------------
(* The end of an operation *)

Return(c, out) ==
    /\ op' = [op EXCEPT ![c] = Idle]
    /\ holder' = [holder EXCEPT ![Home[c]] = IF @ = c THEN None ELSE @]
    /\ log' = [log EXCEPT ![op[c].n].out = out]

\* get returns what it read, the others whether there was a row.
Outcome(s) ==
    IF s.result = "error" THEN "throws"
    ELSE IF s.kind = "get" THEN "read"
    ELSE IF s.result = "row" THEN "true" ELSE "false"

\* The result has been drained: a row or none, or an error, which leaves the
\* connection as it is (query, 140-142).
Receive(c) ==
    /\ op[c].pc = "wait"
    /\ \E s \in Own(c) :
          /\ s.result # "none"
          /\ Return(c, Outcome(s))
          /\ stmts' = stmts \ {s}
    /\ UNCHANGED <<Server, link, cuts>>

MayRetryMutant(c) == ~op[c].retried

\* Only get tries a second time, once (222-226).
MayRetry(c) == op[c].kind = "get" /\ ~op[c].retried

\* disconnect
Forget(c) ==
    /\ link' = [link EXCEPT ![Home[c]] = "none"]
    /\ stmts' = Orphaned(Own(c))

\* The loss of the connection is noticed before the deadline (query's catch).
Broken(c) ==
    /\ op[c].pc = "wait" /\ link[Home[c]] = "dead"
    /\ Forget(c)
    /\ \/ /\ MayRetry(c)
          /\ op' = [op EXCEPT ![c].pc = "ready", ![c].retried = TRUE]
          /\ UNCHANGED <<holder, log>>
       \/ ~MayRetry(c) /\ Return(c, "throws")
    /\ UNCHANGED <<Server, cuts>>

\* Whether a statement may be under way on the connection when the deadline
\* passes: it is dropped then (143-148).
Drops(c) == op[c].pc = "wait"

\* The deadline passes, waiting for the mutex, the connection or the result,
\* or the server cannot be reached.
Deadline(c) ==
    /\ op[c].pc # "idle"
    /\ Return(c, "throws")
    /\ IF Drops(c) THEN Forget(c) ELSE UNCHANGED <<link, stmts>>
    /\ UNCHANGED <<Server, cuts>>

Next ==
    \/ \E c \in Callers :
        \/ \E kind \in {"get", "put", "erase"}, expected \in {0} \cup used,
              value \in Values \cup {None} : Call(c, kind, expected, value)
        \/ Lock(c) \/ Connect(c) \/ Send(c) \/ Receive(c) \/ Broken(c) \/ Deadline(c)
    \/ \E s \in stmts : Draw(s) \/ Commit(s) \/ Refuse(s)
    \/ \E a \in Adapters : Cut(a)

Spec == Init /\ [][Next]_vars

----------------------------------------------------------------------------
TypeOK ==
    /\ table.version \in 0..drawn /\ (table.version = 0 <=> table.value = None)
    /\ used \subseteq 1..drawn
    /\ link \in [Adapters -> {"none", "ok", "dead"}]
    /\ \A c \in Callers : op[c].pc \in {"ready", "wait"} <=> holder[Home[c]] = c
    /\ \A i \in DOMAIN log : log[i].out = "none" <=> \E c \in Callers : op[c].n = i

\* An answer can be relied on: true means the statement took effect, once;
\* false means it had none and never will; an operation that throws may take
\* effect later, but never twice ("never replay a write", 144-145).
Truthful ==
    \A i \in DOMAIN log :
        /\ log[i].effects <= 1
        /\ log[i].out = "true" => log[i].effects = 1
        /\ log[i].out = "read" => log[i].effects = 0
        /\ log[i].out = "false" => log[i].effects = 0 /\ \A s \in stmts : s.n # i

\* A connection in use carries the statement of the caller that holds the
\* adapter and nothing else: no result of an abandoned statement is left for
\* the next caller to take for its own.
Exclusive ==
    \A s \in stmts : ~s.lost =>
        \E c \in Callers : /\ op[c].n = s.n /\ op[c].pc = "wait" /\ link[Home[c]] = "ok"
                          /\ Own(c) = {s}

\* "Revisions cannot repeat after delete/recreate" (storage.hpp): a row never
\* gets a revision that a row has had, late INSERTs included.
RevisionsUnique ==
    [][(table' # table /\ table'.value # None) => table'.version \notin used]_vars
=============================================================================
