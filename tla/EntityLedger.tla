---------------------------- MODULE EntityLedger ----------------------------
(***************************************************************************)
(* What EntityScriptHost promises of one entity, whatever number of hosts, *)
(* crashes and takeovers there are: a single ledger of the requests that   *)
(* took effect, and answers that agree with it.                            *)
(***************************************************************************)
EXTENDS Sequences

CONSTANTS
    Attempts,      \* request attempts
    ReqId, Body,   \* the request id of an attempt, and what it asks for
    None,          \* the id of an attempt without one
    Silent         \* attempts that only unload an instance: no entry is made

VARIABLES
    log,      \* the entity's durable state: the effects in the order they took place
    applied,  \* every attempt that took effect, the destruction included
    gone,     \* the entity is destroyed
    answer    \* what each attempt was told

ledgerVars == <<log, applied, gone, answer>>

LedgerInit ==
    /\ log = <<>> /\ applied = {} /\ gone = FALSE
    /\ answer = [a \in Attempts |-> "none"]

SameReq(a, b) == ReqId[a] # None /\ ReqId[b] = ReqId[a]

\* The request is accepted, or refused at once.
Submit(a) ==
    /\ answer[a] = "none"
    /\ \E r \in {"pending", "failed"} : answer' = [answer EXCEPT ![a] = r]
    /\ UNCHANGED <<log, applied, gone>>

\* An accepted request takes effect, once; a living entity is never rolled back.
Apply(a) ==
    /\ answer[a] = "pending" /\ a \notin applied /\ ~gone
    /\ \/ log' = Append(log, a) /\ gone' = FALSE
       \/ log' = <<>> /\ gone' = TRUE
    /\ applied' = applied \cup {a}
    /\ UNCHANGED answer

\* ok: the request, or an earlier attempt of it, took effect.
Confirm(a) ==
    /\ answer[a] = "pending"
    /\ a \in Silent \/ \E b \in applied : a = b \/ (SameReq(a, b) /\ Body[a] = Body[b])
    /\ answer' = [answer EXCEPT ![a] = "ok"]
    /\ UNCHANGED <<log, applied, gone>>

\* A failure: the request did not take effect, and will not.
Fail(a) ==
    /\ answer[a] = "pending" /\ a \notin applied
    /\ answer' = [answer EXCEPT ![a] = "failed"]
    /\ UNCHANGED <<log, applied, gone>>

\* The caller cannot know; several are told so at once when a host halts.
Lose(lost) ==
    /\ \A a \in lost : answer[a] = "pending"
    /\ answer' = [a \in Attempts |-> IF a \in lost THEN "unknown" ELSE answer[a]]
    /\ UNCHANGED <<log, applied, gone>>

LedgerNext ==
    \/ \E a \in Attempts : Submit(a) \/ Apply(a) \/ Confirm(a) \/ Fail(a)
    \/ \E lost \in SUBSET Attempts : Lose(lost)

LedgerSpec == LedgerInit /\ [][LedgerNext]_ledgerVars
=============================================================================
