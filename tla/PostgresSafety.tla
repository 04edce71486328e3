-------------------------- MODULE PostgresSafety ---------------------------
(***************************************************************************)
(* Proofs about PostgresStorage: for any callers, adapters and values, and *)
(* without the bounds the model checker needs, no revision repeats and the *)
(* answers of the adapter are true.                                        *)
(***************************************************************************)
EXTENDS PostgresStorage, SequenceTheorems, TLAPS

Kinds == {"get", "put", "erase"}
Results == {"none", "row", "empty", "error"}
Outs == {"none", "true", "false", "read", "throws"}
Entry == [effects : Nat, out : Outs]
Stmt == [n : Nat, kind : Kinds, expected : Nat, value : Values \cup {None}, again : BOOLEAN,
         lost : BOOLEAN, version : Nat, result : Results]
Op == [pc : {"idle", "lock", "ready", "wait"}, kind : Kinds, expected : Nat,
       value : Values \cup {None}, retried : BOOLEAN, n : Nat]

\* The shape of the state that both proofs use.
Shape ==
    /\ stmts \subseteq Stmt
    /\ op \in [Callers -> Op]
    /\ drawn \in Nat /\ used \subseteq Nat
    /\ log \in Seq(Entry)

\* Revisions: those of rows and of INSERTs under way have been drawn; an
\* INSERT that has not committed holds one no row has had, and nobody else.
RevInv ==
    /\ \A v \in used : v <= drawn /\ v # 0
    /\ \A s \in stmts : s.version <= drawn
    /\ \A s \in stmts : s.result = "none" => s.version \notin used
    /\ \A s, t \in stmts : (s.version = t.version /\ s.version # 0) => s = t

\* A statement turned out of its connection keeps everything but that.
LEMMA OrphanedFrom ==
    ASSUME Shape, NEW set, set \subseteq stmts, NEW t \in Orphaned(set)
    PROVE  \E s \in stmts : /\ t = s \/ t = [s EXCEPT !.lost = TRUE]
                            /\ t \in Stmt
                            /\ t.n = s.n /\ t.kind = s.kind /\ t.version = s.version
                            /\ t.result = s.result /\ t.expected = s.expected
<1>1. CASE t \in stmts \ set
    BY <1>1 DEF Shape
<1>2. CASE t \in {[s EXCEPT !.lost = TRUE] : s \in {r \in set : r.result = "none"}}
    <2>1. PICK s \in stmts : t = [s EXCEPT !.lost = TRUE]
        BY <1>2
    <2>2. s \in Stmt
        BY DEF Shape
    <2>3. /\ t \in Stmt
          /\ t.n = s.n /\ t.kind = s.kind /\ t.version = s.version
          /\ t.result = s.result /\ t.expected = s.expected
        BY <2>1, <2>2 DEF Stmt
    <2> QED BY <2>1, <2>3
<1> QED BY <1>1, <1>2 DEF Orphaned

\* A statement after its connection is closed is one that was there, and is the same but
\* for the connection.
LEMMA OrphanedCases ==
    ASSUME Shape, NEW set, set \subseteq stmts, NEW t \in Orphaned(set)
    PROVE  \E s \in stmts : /\ t.version = s.version
                            /\ \/ t = s /\ s \notin set
                               \/ t = [s EXCEPT !.lost = TRUE] /\ s \in set
<1>1. CASE t \in stmts \ set
    BY <1>1
<1>2. CASE t \in {[s EXCEPT !.lost = TRUE] : s \in {r \in set : r.result = "none"}}
    <2>1. PICK s \in set : t = [s EXCEPT !.lost = TRUE]
        BY <1>2
    <2>2. t.version = s.version
        BY <2>1 DEF Shape, Stmt
    <2> QED BY <2>1, <2>2
<1> QED BY <1>1, <1>2 DEF Orphaned

\* Changing one entry of the log keeps it a log.
LEMMA LogExcept ==
    ASSUME log \in Seq(Entry), NEW i
    PROVE  /\ [log EXCEPT ![i].effects = @ + 1] \in Seq(Entry)
           /\ \A o \in Outs : [log EXCEPT ![i].out = o] \in Seq(Entry)
<1>1. CASE i \in 1..Len(log)
    <2>1. log[i] \in Entry
        BY <1>1
    <2>2. [log[i] EXCEPT !.effects = @ + 1] \in Entry
        BY <2>1 DEF Entry
    <2>3. \A o \in Outs : [log[i] EXCEPT !.out = o] \in Entry
        BY <2>1 DEF Entry
    <2>4. [log EXCEPT ![i].effects = @ + 1] = [log EXCEPT ![i] = [log[i] EXCEPT !.effects = @ + 1]]
        OBVIOUS
    <2>5. \A o : [log EXCEPT ![i].out = o] = [log EXCEPT ![i] = [log[i] EXCEPT !.out = o]]
        OBVIOUS
    <2>6. \A e \in Entry : [log EXCEPT ![i] = e] \in Seq(Entry)
        BY <1>1, ExceptSeq
    <2> QED BY <2>2, <2>3, <2>4, <2>5, <2>6
<1>2. CASE i \notin 1..Len(log)
    <2>1. DOMAIN log = 1..Len(log)
        OBVIOUS
    <2>2. [log EXCEPT ![i].effects = @ + 1] = log
        BY <1>2, <2>1
    <2>3. \A o \in Outs : [log EXCEPT ![i].out = o] = log
        BY <1>2, <2>1
    <2> QED BY <2>2, <2>3
<1> QED BY <1>1, <1>2

\* The types hold when the adapters start.
LEMMA ShapeInit == Init => Shape
    BY DEF Init, Shape, Idle, Op, Kinds

\* Every step of a caller, the server and the network keeps the types.
LEMMA ShapeNext == Shape /\ [Next]_vars => Shape'
<1> SUFFICES ASSUME Shape, [Next]_vars PROVE Shape'
    OBVIOUS
<1> USE DEF Shape
<1>1. ASSUME NEW c \in Callers, NEW kind \in Kinds, NEW expected \in {0} \cup used,
             NEW value \in Values \cup {None}, Call(c, kind, expected, value)
      PROVE Shape'
    <2>1. Len(log) + 1 \in Nat /\ expected \in Nat
        OBVIOUS
    <2>2. op' \in [Callers -> Op]
        BY <1>1, <2>1 DEF Call, Op
    <2>3. log' \in Seq(Entry)
        BY <1>1, AppendProperties DEF Call, Entry, Outs
    <2> QED BY <1>1, <2>2, <2>3 DEF Call, Server
<1>2. ASSUME NEW c \in Callers, Lock(c) \/ Connect(c) PROVE Shape'
    <2>1. CASE Lock(c)
        <3>1. [op[c] EXCEPT !.pc = "ready"] \in Op
            BY DEF Op
        <3> QED BY <2>1, <3>1 DEF Lock, Server
    <2>2. CASE Connect(c)
        BY <2>2 DEF Connect, Server
    <2> QED BY <1>2, <2>1, <2>2
<1>3. ASSUME NEW c \in Callers, Send(c) PROVE Shape'
    <2>1. op' \in [Callers -> Op]
        BY <1>3 DEF Send, Op
    <2>2. stmts' \subseteq Stmt
        <3>1. op[c].n \in Nat /\ op[c].kind \in Kinds /\ op[c].expected \in Nat
              /\ op[c].value \in Values \cup {None} /\ op[c].retried \in BOOLEAN
            BY DEF Op
        <3>2. [n |-> op[c].n, kind |-> op[c].kind, expected |-> op[c].expected, value |-> op[c].value,
               again |-> op[c].retried, lost |-> FALSE, version |-> 0, result |-> "none"] \in Stmt
            BY <3>1 DEF Stmt, Results
        <3> QED BY <1>3, <3>2 DEF Send
    <2> QED BY <1>3, <2>1, <2>2 DEF Send, Server
<1>4. ASSUME NEW s \in stmts, Draw(s) PROVE Shape'
    BY <1>4 DEF Draw, Stmt
<1>5. ASSUME NEW s \in stmts, Commit(s) PROVE Shape'
    <2>1. stmts' \subseteq Stmt
        BY <1>5 DEF Commit, Stmt, Results
    <2>2. log' \in Seq(Entry)
        BY <1>5, LogExcept DEF Commit
    <2>3. drawn' \in Nat /\ used' \subseteq Nat
        BY <1>5 DEF Commit, Server, Revision, Stmt
    <2> QED BY <1>5, <2>1, <2>2, <2>3 DEF Commit
<1>6. ASSUME NEW s \in stmts, Refuse(s) PROVE Shape'
    BY <1>6 DEF Refuse, Stmt, Results, Server
<1>7. ASSUME NEW a \in Adapters, Cut(a) PROVE Shape'
    <2>1. UNION {Own(c) : c \in {x \in Callers : Home[x] = a}} \subseteq stmts
        BY DEF Own
    <2>2. stmts' \subseteq Stmt
        BY <1>7, <2>1, OrphanedFrom DEF Cut
    <2> QED BY <1>7, <2>2 DEF Cut, Server
<1>8. ASSUME NEW c \in Callers, NEW out \in Outs, Return(c, out)
      PROVE op' \in [Callers -> Op] /\ log' \in Seq(Entry)
    <2>1. Idle \in Op
        BY DEF Idle, Op, Kinds
    <2> QED BY <1>8, <2>1, LogExcept DEF Return
<1>9. ASSUME NEW c \in Callers, Forget(c) PROVE stmts' \subseteq Stmt
    BY <1>9, OrphanedFrom DEF Forget, Own
<1>10. ASSUME NEW c \in Callers, Receive(c) PROVE Shape'
    <2>1. PICK s \in Own(c) : Return(c, Outcome(s)) /\ stmts' = stmts \ {s}
        BY <1>10 DEF Receive
    <2>2. Outcome(s) \in Outs
        BY DEF Outcome, Outs
    <2> QED BY <1>10, <2>1, <2>2, <1>8 DEF Receive, Server
<1>11. ASSUME NEW c \in Callers, Broken(c) PROVE Shape'
    <2>1. "throws" \in Outs
        BY DEF Outs
    <2>2. op' \in [Callers -> Op] /\ log' \in Seq(Entry)
        <3>1. CASE Return(c, "throws")
            BY <3>1, <1>8, <2>1
        <3>2. CASE op' = [op EXCEPT ![c].pc = "ready", ![c].retried = TRUE] /\ UNCHANGED log
            <4>1. [op[c] EXCEPT !.pc = "ready", !.retried = TRUE] \in Op
                BY DEF Op
            <4> QED BY <3>2, <4>1
        <3> QED BY <1>11, <3>1, <3>2 DEF Broken
    <2> QED BY <1>11, <1>9, <2>2 DEF Broken, Server
<1>12. ASSUME NEW c \in Callers, Deadline(c) PROVE Shape'
    <2>1. "throws" \in Outs
        BY DEF Outs
    <2>2. stmts' \subseteq Stmt
        BY <1>12, <1>9 DEF Deadline
    <2> QED BY <1>12, <1>8, <2>1, <2>2 DEF Deadline, Server
<1>13. CASE UNCHANGED vars
    BY <1>13 DEF vars
<1> QED
    BY <1>1, <1>2, <1>3, <1>4, <1>5, <1>6, <1>7, <1>10, <1>11, <1>12, <1>13 DEF Next, Kinds

\* No revision is drawn before the first write.
LEMMA RevInit == Init => RevInv
    BY DEF Init, RevInv

\* Turning statements out of their connection keeps the revisions in order.
LEMMA RevOrphaned ==
    ASSUME Shape, RevInv, NEW set, set \subseteq stmts, stmts' = Orphaned(set),
           UNCHANGED <<drawn, used>>
    PROVE  RevInv'
<1>1. ASSUME NEW t \in stmts'
      PROVE  t.version <= drawn /\ (t.result = "none" => t.version \notin used)
    <2>1. PICK s \in stmts : t.version = s.version /\ t.result = s.result
        BY OrphanedFrom
    <2> QED BY <2>1 DEF RevInv
<1>2. ASSUME NEW t \in stmts', NEW u \in stmts', t.version = u.version, t.version # 0
      PROVE  t = u
    <2>1. PICK s \in stmts : /\ t.version = s.version
                             /\ \/ t = s /\ s \notin set
                                \/ t = [s EXCEPT !.lost = TRUE] /\ s \in set
        BY OrphanedCases
    <2>2. PICK r \in stmts : /\ u.version = r.version
                             /\ \/ u = r /\ r \notin set
                                \/ u = [r EXCEPT !.lost = TRUE] /\ r \in set
        BY OrphanedCases
    <2>3. s = r
        BY <1>2, <2>1, <2>2 DEF RevInv
    <2> QED BY <2>1, <2>2, <2>3
<1> QED BY <1>1, <1>2 DEF RevInv

\* Every step keeps revisions apart: only nextval draws one, and it never returns one again.
LEMMA RevNext == Shape /\ RevInv /\ [Next]_vars => RevInv'
<1> SUFFICES ASSUME Shape, RevInv, [Next]_vars PROVE RevInv'
    OBVIOUS
<1>1. ASSUME NEW c \in Callers, Send(c) PROVE RevInv'
    BY <1>1 DEF Send, Server, RevInv, Shape
<1>2. ASSUME NEW s \in stmts, Draw(s) PROVE RevInv'
    <2> DEFINE d == [s EXCEPT !.version = drawn + 1]
    <2>1. d.version = drawn + 1 /\ drawn' = drawn + 1 /\ drawn \in Nat
        BY <1>2 DEF Draw, Shape, Stmt
    <2>2. stmts' = (stmts \ {s}) \cup {d} /\ used' = used /\ used \subseteq Nat
        BY <1>2 DEF Draw, Shape
    <2>3. \A t \in stmts : t.version \in Nat
        BY DEF Shape, Stmt
    <2> HIDE DEF d
    <2> QED BY <2>1, <2>2, <2>3 DEF RevInv
<1>3. ASSUME NEW s \in stmts, Commit(s) PROVE RevInv'
    <2>1. s \in Stmt /\ drawn \in Nat /\ used \subseteq Nat /\ \A t \in stmts : t.version \in Nat
        BY DEF Shape, Stmt
    <2>2. \A t \in stmts' : \/ t \in stmts /\ t # s
                            \/ t.version = s.version /\ t.result # "none" /\ ~s.lost
        BY <1>3, <2>1 DEF Commit, Stmt
    <2>3. \A t, u \in stmts' : (t.version = u.version /\ t.version # 0) => t = u
        BY <1>3, <2>1 DEF Commit, Stmt, RevInv
    <2>4. CASE UNCHANGED Server
        BY <2>1, <2>2, <2>3, <2>4 DEF RevInv, Server
    <2>5. CASE s.kind = "erase" /\ UNCHANGED <<drawn, used>>
        BY <2>1, <2>2, <2>3, <2>5 DEF RevInv
    <2>6. CASE s.kind = "put" /\ s.expected = 0 /\ drawn' = drawn /\ used' = used \cup {s.version}
               /\ s.version # 0
        BY <2>1, <2>2, <2>3, <2>6 DEF RevInv
    <2>7. CASE drawn' = drawn + 1 /\ used' = used \cup {drawn + 1}
        BY <2>1, <2>2, <2>3, <2>7 DEF RevInv
    <2>8. \/ UNCHANGED Server
          \/ s.kind = "erase" /\ UNCHANGED <<drawn, used>>
          \/ /\ s.kind = "put" /\ s.expected = 0 /\ drawn' = drawn
             /\ used' = used \cup {s.version} /\ s.version # 0
          \/ drawn' = drawn + 1 /\ used' = used \cup {drawn + 1}
        <3>1. CASE ~Matches(s) \/ s.kind = "get"
            BY <1>3, <3>1 DEF Commit
        <3>2. CASE ~(~Matches(s) \/ s.kind = "get") /\ s.kind = "erase"
            <4>1. table' = [version |-> 0, value |-> None] /\ used' = used \cup ({table'.version} \ {0})
                  /\ drawn' = drawn
                BY <1>3, <3>2 DEF Commit
            <4>2. used' = used
                BY <4>1
            <4> QED BY <3>2, <4>1, <4>2
        <3>3. CASE ~(~Matches(s) \/ s.kind = "get") /\ s.kind = "put" /\ s.expected = 0
            <4>1. table' = [version |-> s.version, value |-> s.value] /\ drawn' = drawn
                  /\ used' = used \cup ({table'.version} \ {0}) /\ s.version # 0
                BY <1>3, <3>3 DEF Commit, Revision
            <4>2. used' = used \cup {s.version}
                BY <4>1, <2>1
            <4> QED BY <3>3, <4>1, <4>2
        <3>4. CASE ~(~Matches(s) \/ s.kind = "get") /\ s.kind = "put" /\ s.expected # 0
            <4>1. table' = [version |-> drawn + 1, value |-> s.value] /\ drawn' = drawn + 1
                  /\ used' = used \cup ({table'.version} \ {0})
                BY <1>3, <3>4 DEF Commit, Revision
            <4>2. used' = used \cup {drawn + 1}
                BY <4>1, <2>1
            <4> QED BY <4>1, <4>2
        <3> QED BY <2>1, <3>1, <3>2, <3>3, <3>4 DEF Stmt, Kinds
    <2> QED BY <2>4, <2>5, <2>6, <2>7, <2>8
<1>4. ASSUME NEW s \in stmts, Refuse(s) PROVE RevInv'
    <2>1. s \in Stmt
        BY DEF Shape
    <2>3. \A t \in stmts' : \/ t \in stmts /\ t # s
                            \/ t.version = s.version /\ t.result # "none"
        BY <1>4, <2>1 DEF Refuse, Stmt
    <2>2. \A t, u \in stmts' : (t.version = u.version /\ t.version # 0) => t = u
        BY <1>4, <2>1 DEF Refuse, Stmt, RevInv
    <2> QED BY <1>4, <2>1, <2>2, <2>3 DEF Refuse, Server, RevInv
<1>5. ASSUME NEW a \in Adapters, Cut(a) PROVE RevInv'
    <2>1. UNION {Own(c) : c \in {x \in Callers : Home[x] = a}} \subseteq stmts
        BY DEF Own
    <2> QED BY <1>5, <2>1, RevOrphaned DEF Cut, Server
<1>6. ASSUME NEW c \in Callers, Forget(c), UNCHANGED Server PROVE RevInv'
    BY <1>6, RevOrphaned DEF Forget, Own, Server
<1>7. CASE UNCHANGED <<Server, stmts>>
    BY <1>7 DEF Server, RevInv
<1>8. ASSUME NEW c \in Callers, Receive(c) PROVE RevInv'
    BY <1>8 DEF Receive, Server, RevInv
<1> QED
    BY <1>1, <1>2, <1>3, <1>4, <1>5, <1>6, <1>7, <1>8
    DEF Next, Call, Lock, Connect, Broken, Deadline, vars, Server

\* "Revisions cannot repeat after delete/recreate": whoever calls, whatever
\* statements commit late, a row gets a revision no row has had.
THEOREM NoRevisionRepeats == Spec => RevisionsUnique
<1>1. Shape /\ RevInv /\ [Next]_vars
      => [(table' # table /\ table'.value # None) => table'.version \notin used]_vars
    <2> SUFFICES ASSUME Shape, RevInv, Next, table' # table, table'.value # None
                 PROVE  table'.version \notin used
        BY DEF vars
    <2>1. PICK s \in stmts : Commit(s)
        BY DEF Next, Call, Lock, Connect, Send, Receive, Broken, Deadline, Draw, Refuse, Cut, Server
    <2>2. /\ table' = IF s.kind = "erase" THEN [version |-> 0, value |-> None]
                       ELSE [version |-> Revision(s), value |-> s.value]
          /\ s.result = "none"
        BY <2>1 DEF Commit, Server
    <2>3. table'.version = Revision(s)
        BY <2>2
    <2>4. Revision(s) \notin used
        BY <2>2 DEF Revision, RevInv, Shape, Stmt
    <2> QED BY <2>3, <2>4
<1> QED BY <1>1, ShapeInit, ShapeNext, RevInit, RevNext, PTL DEF Spec, RevisionsUnique
-----------------------------------------------------------------------------
\* An operation under way is nobody else's and has no answer yet.
OpInv ==
    /\ \A c \in Callers : op[c].pc = "idle" => op[c] = Idle
    /\ \A c \in Callers : op[c].pc # "idle" =>
          op[c].n \in 1..Len(log) /\ log[op[c].n].out = "none"
    /\ \A c, d \in Callers : (op[c].pc # "idle" /\ op[c].n = op[d].n) => c = d

\* A statement belongs to an operation of its kind; a write has one at most,
\* which has taken effect exactly when its result says so.
StmtInv ==
    /\ \A s \in stmts : s.n \in 1..Len(log)
    /\ \A s \in stmts, c \in Callers : s.n = op[c].n => s.kind = op[c].kind
    /\ \A s \in stmts : IF s.kind = "get" THEN log[s.n].effects = 0 ELSE log[s.n].out # "read"
    /\ \A s, t \in stmts : (s.n = t.n /\ s.kind # "get") => s = t
    /\ \A s \in stmts : s.kind # "get" =>
          log[s.n].effects = IF s.result = "row" THEN 1 ELSE 0

\* Before a write is sent it has no statement, and a read never has an effect.
SendInv ==
    \A c \in Callers :
        /\ (op[c].pc # "idle" /\ op[c].kind = "get") => log[op[c].n].effects = 0
        /\ (op[c].pc \in {"lock", "ready"} /\ op[c].kind # "get") =>
              log[op[c].n].effects = 0 /\ \A s \in stmts : s.n # op[c].n

TruthInv == OpInv /\ StmtInv /\ SendInv /\ Truthful

\* There is no outcome before the first call.
LEMMA TruthInit == Init => TruthInv
    BY DEF Init, TruthInv, OpInv, StmtInv, SendInv, Truthful, Idle

\* What changing one entry of the log does to each of them.
LEMMA LogEntries ==
    ASSUME Shape, NEW i \in 1..Len(log)
    PROVE  /\ LET new == [log EXCEPT ![i].effects = @ + 1]
              IN  /\ Len(new) = Len(log)
                  /\ \A j \in 1..Len(log) : /\ new[j].out = log[j].out
                                            /\ new[j].effects = IF j = i THEN log[i].effects + 1
                                                                ELSE log[j].effects
           /\ \A o \in Outs :
                 LET new == [log EXCEPT ![i].out = o]
                 IN  /\ Len(new) = Len(log)
                     /\ \A j \in 1..Len(log) : /\ new[j].effects = log[j].effects
                                               /\ new[j].out = IF j = i THEN o ELSE log[j].out
<1>1. log \in Seq(Entry) /\ log[i] \in Entry
    BY DEF Shape
<1>2. \A e \in Entry : /\ Len([log EXCEPT ![i] = e]) = Len(log)
                       /\ \A j \in 1..Len(log) : [log EXCEPT ![i] = e][j] = IF j = i THEN e ELSE log[j]
    BY <1>1, ExceptSeq
<1>3. /\ [log[i] EXCEPT !.effects = @ + 1] \in Entry
      /\ [log[i] EXCEPT !.effects = @ + 1].out = log[i].out
      /\ [log[i] EXCEPT !.effects = @ + 1].effects = log[i].effects + 1
    BY <1>1 DEF Entry
<1>4. \A o \in Outs : /\ [log[i] EXCEPT !.out = o] \in Entry
                      /\ [log[i] EXCEPT !.out = o].out = o
                      /\ [log[i] EXCEPT !.out = o].effects = log[i].effects
    BY <1>1 DEF Entry
<1>5. [log EXCEPT ![i].effects = @ + 1] = [log EXCEPT ![i] = [log[i] EXCEPT !.effects = @ + 1]]
    OBVIOUS
<1>6. \A o : [log EXCEPT ![i].out = o] = [log EXCEPT ![i] = [log[i] EXCEPT !.out = o]]
    OBVIOUS
<1>7. LET new == [log EXCEPT ![i].effects = @ + 1]
      IN  /\ Len(new) = Len(log)
          /\ \A j \in 1..Len(log) : /\ new[j].out = log[j].out
                                    /\ new[j].effects = IF j = i THEN log[i].effects + 1
                                                        ELSE log[j].effects
    BY <1>2, <1>3, <1>5
<1>8. ASSUME NEW o \in Outs
      PROVE  LET new == [log EXCEPT ![i].out = o]
             IN  /\ Len(new) = Len(log)
                 /\ \A j \in 1..Len(log) : /\ new[j].effects = log[j].effects
                                           /\ new[j].out = IF j = i THEN o ELSE log[j].out
    BY <1>2, <1>4, <1>6
<1> QED BY <1>7, <1>8

\* A call starts a new operation.
LEMMA TruthCall ==
    ASSUME Shape, TruthInv, NEW c \in Callers, NEW kind \in Kinds, NEW expected, NEW value,
           Call(c, kind, expected, value)
    PROVE  TruthInv'
<1> DEFINE e == [effects |-> 0, out |-> "none"]
           n == Len(log) + 1
<1>1. /\ log' = Append(log, e) /\ e \in Entry /\ log \in Seq(Entry)
      /\ stmts' = stmts
    BY DEF Call, Shape, Entry, Outs
<1>2. /\ Len(log') = n /\ Len(log) \in Nat /\ log'[n] = e
      /\ \A i \in 1..Len(log) : log'[i] = log[i]
    BY <1>1, AppendProperties
<1>3. /\ op'[c].pc = "lock" /\ op'[c].n = n /\ op'[c].kind = kind
      /\ \A d \in Callers : d # c => op'[d] = op[d]
      /\ op[c] = Idle
    BY DEF Call, Shape
<1>4. \A d \in Callers : op[d].n \in 0..Len(log)
    <2>1. Idle.n = 0
        BY DEF Idle
    <2> QED BY <1>2, <2>1 DEF TruthInv, OpInv
<1> HIDE DEF n
<1>5. OpInv'
    <2>1. n > Len(log) /\ n \in 1..n
        BY <1>2 DEF n
    <2>2. \A d \in Callers : op'[d].pc = "idle" => op'[d] = Idle
        BY <1>3 DEF TruthInv, OpInv
    <2>3. \A d \in Callers : op'[d].pc # "idle" =>
             op'[d].n \in 1..Len(log') /\ log'[op'[d].n].out = "none"
        BY <1>2, <1>3, <2>1 DEF TruthInv, OpInv
    <2>4. \A b, d \in Callers : (op'[b].pc # "idle" /\ op'[b].n = op'[d].n) => b = d
        BY <1>2, <1>3, <1>4, <2>1 DEF TruthInv, OpInv
    <2> QED BY <2>2, <2>3, <2>4 DEF OpInv
<1>6. StmtInv'
    BY <1>1, <1>2, <1>3, <1>4 DEF TruthInv, StmtInv, n
<1>7. SendInv'
    BY <1>1, <1>2, <1>3, <1>4 DEF TruthInv, OpInv, StmtInv, SendInv, n
<1>8. Truthful'
    <2>1. DOMAIN log' = 1..n /\ DOMAIN log = 1..Len(log)
        BY <1>1, <1>2, AppendProperties DEF n
    <2> QED BY <1>1, <1>2, <2>1 DEF TruthInv, Truthful, n
<1> QED BY <1>5, <1>6, <1>7, <1>8 DEF TruthInv

\* Taking the mutex and connecting send nothing.
LEMMA TruthLockConnect ==
    ASSUME Shape, TruthInv, NEW c \in Callers, Lock(c) \/ Connect(c)
    PROVE  TruthInv'
<1>1. /\ UNCHANGED <<stmts, log>>
      /\ \A d \in Callers : /\ op'[d].n = op[d].n /\ op'[d].kind = op[d].kind
                            /\ op'[d].pc = op[d].pc \/ (op[d].pc = "lock" /\ op'[d].pc = "ready")
                            /\ op[d].pc = "idle" => op'[d] = op[d]
    <2>1. CASE Lock(c)
        BY <2>1 DEF Lock, Shape, Op
    <2>2. CASE Connect(c)
        BY <2>2 DEF Connect
    <2> QED BY <2>1, <2>2
<1> QED BY <1>1 DEF TruthInv, OpInv, StmtInv, SendInv, Truthful

\* A write sends its only statement, a read one of its two.
LEMMA TruthSend ==
    ASSUME Shape, TruthInv, NEW c \in Callers, Send(c)
    PROVE  TruthInv'
<1> DEFINE s == [n |-> op[c].n, kind |-> op[c].kind, expected |-> op[c].expected, value |-> op[c].value,
                 again |-> op[c].retried, lost |-> FALSE, version |-> 0, result |-> "none"]
<1>1. /\ UNCHANGED log /\ op[c].pc = "ready" /\ op'[c].pc = "wait"
      /\ \A d \in Callers : op'[d].n = op[d].n /\ op'[d].kind = op[d].kind
      /\ \A d \in Callers : d # c => op'[d] = op[d]
    BY DEF Send, Shape, Op
<1>2. stmts' \subseteq stmts \cup {s} /\ s.n = op[c].n /\ s.kind = op[c].kind /\ s.result = "none"
    BY DEF Send
<1> HIDE DEF s
<1>3. OpInv'
    BY <1>1 DEF TruthInv, OpInv
<1>4. op[c].n \in 1..Len(log) /\ log[op[c].n].effects = 0 /\ log[op[c].n].out = "none"
    BY <1>1 DEF TruthInv, OpInv, SendInv
<1>5. op[c].kind # "get" => \A t \in stmts : t.n # op[c].n
    BY <1>1 DEF TruthInv, SendInv
<1>6. StmtInv'
    <2>1. \A t \in stmts', d \in Callers : t.n = op'[d].n => t.kind = op'[d].kind
        <3> SUFFICES ASSUME NEW t \in stmts', NEW d \in Callers, t.n = op'[d].n
                     PROVE  t.kind = op'[d].kind
            OBVIOUS
        <3>1. CASE t \in stmts
            BY <1>1, <3>1 DEF TruthInv, StmtInv
        <3>2. CASE t = s
            <4>1. d = c
                BY <1>1, <1>2, <3>2 DEF TruthInv, OpInv
            <4> QED BY <1>1, <1>2, <3>2, <4>1
        <3> QED BY <1>2, <3>1, <3>2
    <2>2. \A t \in stmts : t.n = s.n => t.kind = s.kind
        BY <1>2 DEF TruthInv, StmtInv
    <2>3. \A t, u \in stmts' : (t.n = u.n /\ t.kind # "get") => t = u
        BY <1>2, <1>5, <2>2 DEF TruthInv, StmtInv
    <2> QED BY <1>1, <1>2, <1>4, <2>1, <2>3 DEF TruthInv, StmtInv
<1>7. SendInv'
    BY <1>1, <1>2 DEF TruthInv, OpInv, SendInv
<1>8. Truthful'
    BY <1>1, <1>2, <1>4 DEF TruthInv, Truthful
<1> QED BY <1>3, <1>6, <1>7, <1>8 DEF TruthInv

\* The server draws a revision, or turns a statement down: nothing a write
\* promises is concerned.
LEMMA TruthDrawRefuse ==
    ASSUME Shape, TruthInv, NEW s \in stmts, Draw(s) \/ Refuse(s)
    PROVE  TruthInv'
<1>1. PICK t : /\ t.n = s.n /\ t.kind = s.kind /\ t.result # "row" /\ s.result = "none"
               /\ stmts' \subseteq (stmts \ {s}) \cup {t}
    <2>1. s \in Stmt
        BY DEF Shape
    <2>2. CASE Draw(s)
        <3>1. LET t == [s EXCEPT !.version = drawn + 1]
              IN  t.n = s.n /\ t.kind = s.kind /\ t.result = s.result
            BY <2>1 DEF Stmt
        <3> QED BY <2>2, <3>1 DEF Draw
    <2>3. CASE Refuse(s)
        <3>1. LET t == [s EXCEPT !.result = "error"]
              IN  t.n = s.n /\ t.kind = s.kind /\ t.result = "error"
            BY <2>1 DEF Stmt
        <3> QED BY <2>3, <3>1 DEF Refuse
    <2> QED BY <2>2, <2>3
<1>2. UNCHANGED <<op, log>>
    BY DEF Draw, Refuse, Server
<1>3. OpInv'
    BY <1>2 DEF TruthInv, OpInv
<1>4. StmtInv'
    BY <1>1, <1>2 DEF TruthInv, StmtInv
<1>5. SendInv'
    BY <1>1, <1>2 DEF TruthInv, SendInv
<1>6. Truthful'
    BY <1>1, <1>2 DEF TruthInv, Truthful
<1> QED BY <1>3, <1>4, <1>5, <1>6 DEF TruthInv

\* The only statement of a write takes effect, whether anybody still waits.
LEMMA TruthCommit ==
    ASSUME Shape, TruthInv, NEW s \in stmts, Commit(s)
    PROVE  TruthInv'
<1> DEFINE t == [s EXCEPT !.result = IF Matches(s) THEN "row" ELSE "empty"]
           hit == Matches(s) /\ s.kind # "get"
<1>1. /\ s \in Stmt /\ s.result = "none" /\ op' = op
      /\ stmts' \subseteq (stmts \ {s}) \cup {t}
    BY DEF Commit, Shape
<1>2. t.n = s.n /\ t.kind = s.kind /\ t.result = IF Matches(s) THEN "row" ELSE "empty"
    BY <1>1 DEF Stmt
<1>3. s.n \in 1..Len(log) /\ log[s.n].effects = 0
    BY <1>1 DEF TruthInv, StmtInv
<1>4. /\ Len(log') = Len(log)
      /\ \A i \in 1..Len(log) : /\ log'[i].out = log[i].out
                                /\ log'[i].effects = IF i = s.n /\ hit THEN 1 ELSE log[i].effects
    <2>1. CASE hit
        <3>1. log' = [log EXCEPT ![s.n].effects = @ + 1]
            BY <2>1 DEF Commit
        <3> QED BY <1>3, <2>1, <3>1, LogEntries
    <2>2. CASE ~hit
        BY <2>2 DEF Commit
    <2> QED BY <2>1, <2>2
<1>5. DOMAIN log = 1..Len(log) /\ DOMAIN log' = 1..Len(log)
    <2>1. log \in Seq(Entry) /\ log' \in Seq(Entry)
        BY LogExcept DEF Shape, Commit
    <2> QED BY <1>4, <2>1
<1> HIDE DEF t, hit
<1>6. OpInv'
    BY <1>1, <1>4 DEF TruthInv, OpInv
<1>7. \A u \in stmts : u.n = s.n /\ u # s => u.kind = "get" /\ s.kind = "get"
    BY DEF TruthInv, StmtInv
<1>8. StmtInv'
    <2>1. \A u \in stmts' : u.n \in 1..Len(log')
        BY <1>1, <1>2, <1>4, <1>3 DEF TruthInv, StmtInv
    <2>2. \A u \in stmts', c \in Callers : u.n = op'[c].n => u.kind = op'[c].kind
        BY <1>1, <1>2 DEF TruthInv, StmtInv
    <2>3. \A u \in stmts' : IF u.kind = "get" THEN log'[u.n].effects = 0
                                               ELSE log'[u.n].out # "read"
        BY <1>1, <1>2, <1>3, <1>4, <1>7 DEF TruthInv, StmtInv, hit
    <2>4. \A u, v \in stmts' : (u.n = v.n /\ u.kind # "get") => u = v
        BY <1>1, <1>2, <1>7 DEF TruthInv, StmtInv
    <2>5. \A u \in stmts' : u.kind # "get" =>
             log'[u.n].effects = IF u.result = "row" THEN 1 ELSE 0
        BY <1>1, <1>2, <1>3, <1>4, <1>7 DEF TruthInv, StmtInv, hit
    <2> QED BY <2>1, <2>2, <2>3, <2>4, <2>5 DEF StmtInv
<1>9. SendInv'
    <2>1. \A c \in Callers : op[c].n = s.n => s.kind = op[c].kind
        BY DEF TruthInv, StmtInv
    <2> QED BY <1>1, <1>2, <1>3, <1>4, <2>1 DEF TruthInv, OpInv, SendInv, hit
<1>10. Truthful'
    <2>1. log[s.n].out \notin {"true", "false"} /\ (log[s.n].out = "read" => s.kind = "get")
        BY <1>1, <1>3, <1>5 DEF TruthInv, Truthful, StmtInv
    <2> QED BY <1>1, <1>2, <1>3, <1>4, <1>5, <2>1 DEF TruthInv, Truthful, hit
<1> QED BY <1>6, <1>8, <1>9, <1>10 DEF TruthInv

\* Statements turned out of their connection lose a result nobody was told.
LEMMA TruthOrphaned ==
    ASSUME Shape, StmtInv, NEW set, set \subseteq stmts, stmts' = Orphaned(set)
    PROVE  /\ \A t \in stmts' : \E s \in stmts : t.n = s.n /\ t.kind = s.kind /\ t.result = s.result
           /\ \A t, u \in stmts' : (t.n = u.n /\ t.kind # "get") => t = u
<1>1. ASSUME NEW t \in stmts'
      PROVE  \E s \in stmts : /\ t.n = s.n /\ t.kind = s.kind /\ t.result = s.result
                              /\ \/ t = s /\ s \notin set
                                 \/ t = [s EXCEPT !.lost = TRUE] /\ s \in set
    <2>1. CASE t \in stmts \ set
        BY <2>1
    <2>2. CASE t \in {[s EXCEPT !.lost = TRUE] : s \in {r \in set : r.result = "none"}}
        <3>1. PICK s \in set : t = [s EXCEPT !.lost = TRUE]
            BY <2>2
        <3>2. t.n = s.n /\ t.kind = s.kind /\ t.result = s.result
            BY <3>1 DEF Shape, Stmt
        <3> QED BY <3>1, <3>2
    <2> QED BY <2>1, <2>2 DEF Orphaned
<1>2. ASSUME NEW t \in stmts', NEW u \in stmts', t.n = u.n, t.kind # "get"
      PROVE  t = u
    <2>1. PICK s \in stmts : /\ t.n = s.n /\ t.kind = s.kind
                             /\ \/ t = s /\ s \notin set
                                \/ t = [s EXCEPT !.lost = TRUE] /\ s \in set
        BY <1>1
    <2>2. PICK r \in stmts : /\ u.n = r.n
                             /\ \/ u = r /\ r \notin set
                                \/ u = [r EXCEPT !.lost = TRUE] /\ r \in set
        BY <1>1
    <2>3. s = r
        BY <1>2, <2>1, <2>2 DEF StmtInv
    <2> QED BY <2>1, <2>2, <2>3
<1> QED BY <1>1, <1>2

\* A connection breaks.
LEMMA TruthCut ==
    ASSUME Shape, TruthInv, NEW a \in Adapters, Cut(a)
    PROVE  TruthInv'
<1>1. UNION {Own(c) : c \in {x \in Callers : Home[x] = a}} \subseteq stmts
    BY DEF Own
<1>2. /\ \A t \in stmts' : \E s \in stmts : t.n = s.n /\ t.kind = s.kind /\ t.result = s.result
      /\ \A t, u \in stmts' : (t.n = u.n /\ t.kind # "get") => t = u
    BY <1>1, TruthOrphaned DEF Cut, TruthInv
<1>3. UNCHANGED <<op, log>>
    BY DEF Cut
<1> QED BY <1>2, <1>3 DEF TruthInv, OpInv, StmtInv, SendInv, Truthful

\* An operation ends with an answer that is true of what is left of it.
LEMMA TruthReturn ==
    ASSUME Shape, TruthInv, NEW c \in Callers, op[c].pc # "idle", NEW out \in Outs, Return(c, out),
           \A t \in stmts' : \E s \in stmts : t.n = s.n /\ t.kind = s.kind /\ t.result = s.result,
           \A t, u \in stmts' : (t.n = u.n /\ t.kind # "get") => t = u,
           out # "none",
           out = "read" => op[c].kind = "get",
           out = "true" => log[op[c].n].effects = 1,
           out = "false" => log[op[c].n].effects = 0 /\ \A s \in stmts' : s.n # op[c].n
    PROVE  TruthInv'
<1> DEFINE i == op[c].n
<1>1. i \in 1..Len(log)
    BY DEF TruthInv, OpInv
<1>2. /\ Len(log') = Len(log)
      /\ \A j \in 1..Len(log) : /\ log'[j].effects = log[j].effects
                                /\ log'[j].out = IF j = i THEN out ELSE log[j].out
    BY <1>1, LogEntries DEF Return
<1>3. DOMAIN log = 1..Len(log) /\ DOMAIN log' = 1..Len(log)
    BY <1>2, LogExcept DEF Shape, Return
<1>4. op'[c] = Idle /\ \A d \in Callers : d # c => op'[d] = op[d]
    BY DEF Return, Shape
<1>5. Idle.pc = "idle" /\ Idle.n = 0
    BY DEF Idle
<1>6. \A d \in Callers : (d # c /\ op[d].pc # "idle") => op[d].n # i
    BY DEF TruthInv, OpInv
<1> HIDE DEF i
<1>7. OpInv'
    BY <1>2, <1>4, <1>5, <1>6 DEF TruthInv, OpInv
<1>8. StmtInv'
    <2>1. \A s \in stmts' : s.n \in 1..Len(log)
        BY DEF TruthInv, StmtInv
    <2>2. \A s \in stmts', d \in Callers : s.n = op'[d].n => s.kind = op'[d].kind
        BY <1>4, <1>5, <2>1 DEF TruthInv, StmtInv
    <2>3. \A s \in stmts' : s.kind # "get" => log'[s.n].out # "read"
        BY <1>2, <2>1 DEF TruthInv, StmtInv, i
    <2> QED BY <1>2, <2>1, <2>2, <2>3 DEF TruthInv, StmtInv
<1>9. SendInv'
    BY <1>2, <1>4, <1>5, <1>6 DEF TruthInv, OpInv, SendInv
<1>10. Truthful'
    <2>1. ASSUME NEW j \in 1..Len(log), j # i
          PROVE  /\ log'[j].effects <= 1
                 /\ log'[j].out = "true" => log'[j].effects = 1
                 /\ log'[j].out = "read" => log'[j].effects = 0
                 /\ log'[j].out = "false" => log'[j].effects = 0 /\ \A s \in stmts' : s.n # j
        BY <1>2, <1>3, <2>1 DEF TruthInv, Truthful
    <2>2. /\ log'[i].effects <= 1
          /\ log'[i].out = "true" => log'[i].effects = 1
          /\ log'[i].out = "read" => log'[i].effects = 0
          /\ log'[i].out = "false" => log'[i].effects = 0 /\ \A s \in stmts' : s.n # i
        BY <1>1, <1>2, <1>3 DEF TruthInv, Truthful, SendInv, i
    <2> QED BY <1>3, <2>1, <2>2 DEF Truthful
<1> QED BY <1>7, <1>8, <1>9, <1>10 DEF TruthInv

\* The result of the operation's own statement.
LEMMA TruthReceive ==
    ASSUME Shape, TruthInv, NEW c \in Callers, Receive(c)
    PROVE  TruthInv'
<1>1. PICK s \in Own(c) : s.result # "none" /\ Return(c, Outcome(s)) /\ stmts' = stmts \ {s}
    BY DEF Receive
<1>2. s \in stmts /\ s.n = op[c].n /\ op[c].pc = "wait" /\ s \in Stmt
    BY <1>1 DEF Own, Receive, Shape
<1>3. s.kind = op[c].kind
    BY <1>2 DEF TruthInv, StmtInv
<1>4. s.kind # "get" => \A t \in stmts' : t.n # op[c].n
    BY <1>1, <1>2 DEF TruthInv, StmtInv
<1>5. /\ Outcome(s) \in Outs /\ Outcome(s) # "none"
      /\ Outcome(s) = "read" => op[c].kind = "get"
      /\ Outcome(s) \in {"true", "false"} => s.kind # "get"
      /\ Outcome(s) = "true" => s.result = "row"
      /\ Outcome(s) = "false" => s.result # "row"
    BY <1>3 DEF Outcome, Outs
<1>6. Outcome(s) = "true" => log[op[c].n].effects = 1
    BY <1>2, <1>5 DEF TruthInv, StmtInv
<1>7. Outcome(s) = "false" => log[op[c].n].effects = 0 /\ \A t \in stmts' : t.n # op[c].n
    BY <1>2, <1>4, <1>5 DEF TruthInv, StmtInv
<1>8. /\ \A t \in stmts' : \E r \in stmts : t.n = r.n /\ t.kind = r.kind /\ t.result = r.result
      /\ \A t, u \in stmts' : (t.n = u.n /\ t.kind # "get") => t = u
    BY <1>1 DEF TruthInv, StmtInv
<1> QED BY <1>1, <1>2, <1>5, <1>6, <1>7, <1>8, TruthReturn

\* The connection is gone or the deadline has passed: a read may try again,
\* everything else ends without an answer.
LEMMA TruthThrow ==
    ASSUME Shape, TruthInv, NEW c \in Callers, Broken(c) \/ Deadline(c)
    PROVE  TruthInv'
<1>1. /\ \A t \in stmts' : \E r \in stmts : t.n = r.n /\ t.kind = r.kind /\ t.result = r.result
      /\ \A t, u \in stmts' : (t.n = u.n /\ t.kind # "get") => t = u
    <2>1. CASE Forget(c)
        <3>1. Own(c) \subseteq stmts
            BY DEF Own
        <3> QED BY <2>1, <3>1, TruthOrphaned DEF Forget, TruthInv
    <2>2. CASE UNCHANGED stmts
        BY <2>2 DEF TruthInv, StmtInv
    <2> QED BY <2>1, <2>2 DEF Broken, Deadline
<1>2. op[c].pc # "idle" /\ "throws" \in Outs
    BY DEF Broken, Deadline, Outs
<1>3. CASE Return(c, "throws")
    BY <1>1, <1>2, <1>3, TruthReturn
<1>4. CASE MayRetry(c) /\ UNCHANGED log
           /\ op' = [op EXCEPT ![c].pc = "ready", ![c].retried = TRUE]
    <2>0. log' = log
        BY <1>4
    <2>1. /\ op'[c].pc = "ready" /\ op[c].kind = "get"
          /\ \A d \in Callers : op'[d].n = op[d].n /\ op'[d].kind = op[d].kind
          /\ \A d \in Callers : d # c => op'[d] = op[d]
        BY <1>4 DEF MayRetry, Shape, Op
    <2>2. OpInv'
        BY <1>2, <2>0, <2>1 DEF TruthInv, OpInv
    <2>3. StmtInv'
        BY <1>1, <2>0, <2>1 DEF TruthInv, StmtInv
    <2>4. SendInv'
        BY <1>1, <1>2, <2>0, <2>1 DEF TruthInv, SendInv
    <2>5. Truthful'
        BY <1>1, <2>0 DEF TruthInv, Truthful
    <2> QED BY <2>2, <2>3, <2>4, <2>5 DEF TruthInv
<1> QED BY <1>3, <1>4 DEF Broken, Deadline

\* Every step keeps what callers were told true of what the server committed.
LEMMA TruthNext == Shape /\ TruthInv /\ [Next]_vars => TruthInv'
<1> SUFFICES ASSUME Shape, TruthInv, [Next]_vars PROVE TruthInv'
    OBVIOUS
<1>1. CASE UNCHANGED vars
    BY <1>1 DEF vars, TruthInv, OpInv, StmtInv, SendInv, Truthful
<1> QED
    BY <1>1, TruthCall, TruthLockConnect, TruthSend, TruthDrawRefuse, TruthCommit, TruthCut,
       TruthReceive, TruthThrow DEF Next, Kinds

\* The caller of compare_exchange or erase may rely on the answer: true is an
\* effect, once, false is none for ever, and no write takes effect twice,
\* however often connections break or deadlines pass.
THEOREM AnswersAreTrue == Spec => []Truthful
<1>1. TruthInv => Truthful
    BY DEF TruthInv
<1> QED BY <1>1, ShapeInit, ShapeNext, TruthInit, TruthNext, PTL DEF Spec
=============================================================================
