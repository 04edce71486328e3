--------------------------- MODULE EntityCatalog ---------------------------
(***************************************************************************)
(* Global identities and idempotent creation: EntityIdAllocator and        *)
(* EntityCatalog over the single-record CAS of Storage, as the storage job *)
(* of EntityScriptHost::create_entity runs them.                           *)
(*                                                                         *)
(* A catalog belongs to one process and runs on its storage worker, one    *)
(* creation at a time; a process that starts again is another member of    *)
(* Catalogs, with an empty block.  Every storage operation is one step.    *)
(* It may throw, and a compare_exchange that throws may have taken effect. *)
(* The digest of a creation is the creation itself: it is collision free.  *)
(***************************************************************************)
EXTENDS Integers, FiniteSets

CONSTANTS
    Catalogs,     \* the catalogs of all processes
    Keys,         \* pairs of scope and creation key
    Creations,    \* what a creation asks for
    None,         \* no record
    MaxId,        \* UINT64_MAX
    BlockSize,    \* identities taken from storage at once
    MaxAttempts,  \* the bound of the allocation loop
    MaxCalls,     \* bound: the creations each catalog is asked for
    Events        \* "error" and "crash": what an instance explores

ASSUME CatalogAssumption ==
    MaxId \in Nat /\ BlockSize \in Nat \ {0} /\ None \notin Creations

VARIABLES
    sequence,  \* the identity high-water record
    claim,     \* the operation descriptors
    entity,    \* the entity records: creation digest and tombstone
    block,     \* next_ and remaining_ of each allocator
    call,      \* the creation each catalog executes
    up,        \* the process runs
    calls,     \* creations begun, for the bound
    minted,    \* history: how often each identity was allocated
    returned   \* history: what create() returned

storage == <<sequence, claim, entity>>
vars == <<storage, block, call, up, calls, minted, returned>>

Ids == 1..MaxId
NoClaim == [id |-> 0, print |-> None]
NoEntity == [print |-> None, destroyed |-> FALSE]
NoBlock == [next |-> 0, remaining |-> 0]
NoCall == [pc |-> "idle", key |-> None, print |-> None, id |-> 0, attempt |-> 0,
           version |-> 0, high |-> 0]

Init ==
    /\ sequence = [version |-> 0, high |-> 0]
    /\ claim = [k \in Keys |-> NoClaim]
    /\ entity = [i \in Ids |-> NoEntity]
    /\ block = [c \in Catalogs |-> NoBlock]
    /\ call = [c \in Catalogs |-> NoCall]
    /\ up = [c \in Catalogs |-> TRUE]
    /\ calls = [c \in Catalogs |-> 0]
    /\ minted = [i \in Ids |-> 0]
    /\ returned = {}

At(c, pc) == up[c] /\ call[c].pc = pc
Goto(c, pc) == call' = [call EXCEPT ![c].pc = pc]
\* create() throws; create_entity answers and keeps nothing.
Throw(c) == call' = [call EXCEPT ![c] = NoCall]
-----------------------------------------------------------------------------
Create(c, k, p) ==
    /\ At(c, "idle") /\ calls[c] < MaxCalls
    /\ call' = [call EXCEPT ![c] = [NoCall EXCEPT !.pc = "claim", !.key = k, !.print = p]]
    /\ calls' = [calls EXCEPT ![c] = @ + 1]
    /\ UNCHANGED <<storage, block, up, minted, returned>>

\* The claim that create() goes on with, its own or another's: a different
\* creation under the same key is a conflict.
Matches(c, r) == r.print = call[c].print

Claimed(c, r) ==
    IF Matches(c, r)
    THEN call' = [call EXCEPT ![c].pc = "record", ![c].id = r.id]
    ELSE Throw(c)

GetClaim(c) ==
    /\ At(c, "claim")
    /\ IF claim[call[c].key] = NoClaim
       THEN Goto(c, "allocate") ELSE Claimed(c, claim[call[c].key])
    /\ UNCHANGED <<storage, block, up, calls, minted, returned>>

\* allocate(): the rest of the block, if there is one.
Taken(b) == [next |-> IF b.remaining > 1 THEN b.next + 1 ELSE b.next,
             remaining |-> b.remaining - 1]

Mint(c, b) ==
    /\ block' = [block EXCEPT ![c] = Taken(b)]
    /\ minted' = [minted EXCEPT ![b.next] = @ + 1]
    /\ call' = [call EXCEPT ![c].pc = "putclaim", ![c].id = b.next]

AllocateLocal(c) ==
    /\ At(c, "allocate") /\ block[c].remaining > 0
    /\ Mint(c, block[c])
    /\ UNCHANGED <<storage, up, calls, returned>>

GetSequence(c) ==
    /\ At(c, "allocate") /\ block[c].remaining = 0
    /\ IF sequence.high = MaxId
       THEN Throw(c)
       ELSE call' = [call EXCEPT ![c].pc = "reserve", ![c].version = sequence.version,
                                 ![c].high = sequence.high]
    /\ UNCHANGED <<storage, block, up, calls, minted, returned>>

\* std::min(block_size_, UINT64_MAX - high)
Count(high) == IF BlockSize < MaxId - high THEN BlockSize ELSE MaxId - high

First(high) == high + 1

Reserved(high) == [version |-> sequence.version + 1, high |-> high + Count(high)]

\* The CAS that reserves a block; what follows it is local.
Reserve(c) ==
    /\ At(c, "reserve")
    /\ IF sequence.version = call[c].version
       THEN /\ sequence' = Reserved(call[c].high)
            /\ Mint(c, [next |-> First(call[c].high), remaining |-> Count(call[c].high)])
       ELSE /\ IF call[c].attempt + 1 < MaxAttempts
               THEN call' = [call EXCEPT ![c].pc = "allocate", ![c].attempt = call[c].attempt + 1]
               ELSE Throw(c)
            /\ UNCHANGED <<sequence, block, minted>>
    /\ UNCHANGED <<claim, entity, up, calls, returned>>

MyClaim(c) == [id |-> call[c].id, print |-> call[c].print]

\* After a lost race the claim is read again.
PutClaim(c) ==
    /\ At(c, "putclaim")
    /\ IF claim[call[c].key] = NoClaim
       THEN claim' = [claim EXCEPT ![call[c].key] = MyClaim(c)] /\ Goto(c, "record")
       ELSE Goto(c, "reclaim") /\ UNCHANGED claim
    /\ UNCHANGED <<sequence, entity, block, up, calls, minted, returned>>

WinnerMutant(c) == MyClaim(c)
Winner(c) == claim[call[c].key]

Reclaim(c) ==
    /\ At(c, "reclaim")
    /\ IF Winner(c) = NoClaim THEN Goto(c, "corrupt") ELSE Claimed(c, Winner(c))
    /\ UNCHANGED <<storage, block, up, calls, minted, returned>>

Return(c) ==
    /\ returned' = returned \cup {[key |-> call[c].key, print |-> call[c].print, id |-> call[c].id]}
    /\ Throw(c)

\* The record under the identity belongs to this creation, or it is a collision.
Recognise(c) ==
    IF entity[call[c].id].print = call[c].print
    THEN Return(c) ELSE Goto(c, "collision") /\ UNCHANGED returned

GetRecord(c) ==
    /\ At(c, "record")
    /\ IF entity[call[c].id] = NoEntity
       THEN Goto(c, "putrecord") /\ UNCHANGED returned ELSE Recognise(c)
    /\ UNCHANGED <<storage, block, up, calls, minted>>

Initial(c) == [print |-> call[c].print, destroyed |-> FALSE]

\* compare_exchange(entity_key, 0, ...): only an absent record is created.
VacantMutant(c) == TRUE
Vacant(c) == entity[call[c].id] = NoEntity

PutRecord(c) ==
    /\ At(c, "putrecord")
    /\ IF Vacant(c)
       THEN entity' = [entity EXCEPT ![call[c].id] = Initial(c)] /\ Return(c)
       ELSE Goto(c, "rerecord") /\ UNCHANGED <<entity, returned>>
    /\ UNCHANGED <<sequence, claim, block, up, calls, minted>>

GetAgain(c) ==
    /\ At(c, "rerecord")
    /\ IF entity[call[c].id] = NoEntity
       THEN Goto(c, "disappeared") /\ UNCHANGED returned ELSE Recognise(c)
    /\ UNCHANGED <<storage, block, up, calls, minted>>
-----------------------------------------------------------------------------
Reading(c) == call[c].pc \in {"claim", "allocate", "reclaim", "record", "rerecord"}

\* A get that throws, or a compare_exchange that throws without effect.
Error(c) ==
    /\ "error" \in Events /\ up[c]
    /\ Reading(c) \/ call[c].pc \in {"reserve", "putclaim", "putrecord"}
    /\ Throw(c)
    /\ UNCHANGED <<storage, block, up, calls, minted, returned>>

\* A compare_exchange that throws after it took effect: the block is lost, the
\* claim or the record stays.
ErrorApplied(c) ==
    /\ "error" \in Events /\ up[c]
    /\ \/ /\ call[c].pc = "reserve" /\ sequence.version = call[c].version
          /\ sequence' = Reserved(call[c].high) /\ UNCHANGED <<claim, entity>>
       \/ /\ call[c].pc = "putclaim" /\ claim[call[c].key] = NoClaim
          /\ claim' = [claim EXCEPT ![call[c].key] = MyClaim(c)] /\ UNCHANGED <<sequence, entity>>
       \/ /\ call[c].pc = "putrecord" /\ Vacant(c)
          /\ entity' = [entity EXCEPT ![call[c].id] = Initial(c)] /\ UNCHANGED <<sequence, claim>>
    /\ Throw(c)
    /\ UNCHANGED <<block, up, calls, minted, returned>>

\* The process dies with its block and its creation.
Crash(c) ==
    /\ "crash" \in Events /\ up[c]
    /\ up' = [up EXCEPT ![c] = FALSE]
    /\ block' = [block EXCEPT ![c] = NoBlock] /\ Throw(c)
    /\ UNCHANGED <<storage, calls, minted, returned>>

\* A host destroys the entity: its record becomes a permanent tombstone.
Destroy(i) ==
    /\ entity[i] # NoEntity /\ ~entity[i].destroyed
    /\ entity' = [entity EXCEPT ![i].destroyed = TRUE]
    /\ UNCHANGED <<sequence, claim, block, call, up, calls, minted, returned>>

Step(c) ==
    \/ GetClaim(c) \/ AllocateLocal(c) \/ GetSequence(c) \/ Reserve(c)
    \/ PutClaim(c) \/ Reclaim(c) \/ GetRecord(c) \/ PutRecord(c) \/ GetAgain(c)

Next ==
    \/ \E c \in Catalogs :
        \/ \E k \in Keys, p \in Creations : Create(c, k, p)
        \/ Step(c) \/ Error(c) \/ ErrorApplied(c) \/ Crash(c)
    \/ \E i \in Ids : Destroy(i)

Spec == Init /\ [][Next]_vars
-----------------------------------------------------------------------------
Steps == {"idle", "claim", "allocate", "reserve", "putclaim", "reclaim", "record",
          "putrecord", "rerecord", "corrupt", "collision", "disappeared"}

\* Every variable has its type.
TypeOK ==
    /\ sequence \in [version : Nat, high : 0..MaxId]
    /\ claim \in [Keys -> [id : 0..MaxId, print : Creations \cup {None}]]
    /\ entity \in [Ids -> [print : Creations \cup {None}, destroyed : BOOLEAN]]
    /\ block \in [Catalogs -> [next : 0..MaxId, remaining : 0..MaxId]]
    /\ call \in [Catalogs -> [pc : Steps, key : Keys \cup {None}, print : Creations \cup {None},
                              id : 0..MaxId, attempt : Nat, version : Nat, high : 0..MaxId]]
    /\ up \in [Catalogs -> BOOLEAN] /\ calls \in [Catalogs -> Nat]
    /\ minted \in [Ids -> Nat]
    /\ returned \subseteq [key : Keys, print : Creations, id : Ids]

\* No identity is ever allocated twice, by whatever catalogs, crashes and lost
\* answers of the block reservation, up to the last identity there is.
UniqueIds == \A i \in Ids : minted[i] <= 1

\* A creation key names one entity for ever: all creations that succeed under it,
\* retries included, asked for the same and got the same identity, which no other
\* key ever gets (the durable claim of create()).
OneEntityPerKey ==
    \A r, s \in returned :
        /\ r.key = s.key => r.id = s.id /\ r.print = s.print
        /\ r.id = s.id => r.key = s.key

\* An identity is returned only when the record of exactly this creation is stored, also
\* when another catalog wrote the claim and died before the record.
ReturnedIsStored == \A r \in returned : entity[r.id].print = r.print

\* The errors that create() raises for a corrupt claim, a collision and a record that
\* disappeared are never raised: whatever interleaving there is, the two-step
\* creation leaves nothing that a later one could not recognise.
Recognisable ==
    \A c \in Catalogs : call[c].pc \notin {"corrupt", "collision", "disappeared"}

\* What create() promises: no identity is allocated twice, a creation key names one entity
\* for ever, what is returned is stored, and nothing stored is taken for damage.
CatalogSafe == TypeOK /\ UniqueIds /\ OneEntityPerKey /\ ReturnedIsStored /\ Recognisable

\* "it never resurrects it": a stored record is not written again by a creation, and
\* a destroyed identity stays destroyed.
NeverResurrected ==
    [][\A i \in Ids : entity[i] # NoEntity =>
        entity'[i] \in {entity[i], [entity[i] EXCEPT !.destroyed = TRUE]}]_vars
=============================================================================
