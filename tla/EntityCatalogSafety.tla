------------------------ MODULE EntityCatalogSafety ------------------------
(***************************************************************************)
(* Proofs about EntityCatalog, for every number of catalogs, keys, block   *)
(* size and identity space: whatever catalogs race, crash or lose the      *)
(* answer of a compare_exchange, creation keeps its promises.              *)
(***************************************************************************)
EXTENDS EntityCatalog, TLAPS

\* The identities that a block still holds.
Rest(b) == b.next..(b.next + b.remaining - 1)

\* Identities are handed out from disjoint blocks below the high-water mark, and a
\* reservation that would win its compare_exchange has read the mark that is stored.
BlockInv ==
    /\ \A c \in Catalogs :
        /\ Rest(block[c]) \subseteq 1..sequence.high
        /\ \A i \in Rest(block[c]) : minted[i] = 0
        /\ \A d \in Catalogs : c # d => Rest(block[c]) \cap Rest(block[d]) = {}
        /\ call[c].pc = "reserve" =>
            /\ call[c].version <= sequence.version /\ call[c].high < MaxId
            /\ call[c].version = sequence.version => call[c].high = sequence.high
    /\ \A i \in Ids : minted[i] <= 1 /\ (i > sequence.high => minted[i] = 0)

\* An identity that was allocated is in one place: with the creation that is about to
\* claim it, or in one claim, or lost.
HeldInv ==
    /\ \A c \in Catalogs : call[c].pc = "putclaim" =>
        /\ call[c].id \in Ids /\ minted[call[c].id] = 1
        /\ \A k \in Keys : claim[k].id # call[c].id
        /\ \A d \in Catalogs : call[d].pc = "putclaim" /\ call[d].id = call[c].id => c = d
    /\ \A k \in Keys : claim[k] # NoClaim =>
        /\ claim[k].id \in Ids /\ claim[k].print \in Creations /\ minted[claim[k].id] = 1
        /\ \A l \in Keys : claim[l].id = claim[k].id => k = l

\* What a creation has established when it arrives at a step.
CallInv ==
    \A c \in Catalogs :
        /\ call[c].pc # "idle" => call[c].key \in Keys /\ call[c].print \in Creations
        /\ call[c].pc \notin {"corrupt", "collision", "disappeared"}
        /\ call[c].pc = "reclaim" => claim[call[c].key] # NoClaim
        /\ call[c].pc \in {"record", "putrecord", "rerecord"} => claim[call[c].key] = MyClaim(c)
        /\ call[c].pc = "rerecord" => entity[call[c].id] # NoEntity

\* A record is stored under a claim of the same creation, and whatever was returned is
\* claimed and stored.
StoredInv ==
    /\ \A i \in Ids : entity[i] # NoEntity =>
        \E k \in Keys : claim[k] = [id |-> i, print |-> entity[i].print]
    /\ \A r \in returned :
        claim[r.key] = [id |-> r.id, print |-> r.print] /\ entity[r.id].print = r.print

IInv == TypeOK /\ BlockInv /\ HeldInv /\ CallInv /\ StoredInv

USE CatalogAssumption

CallType ==
    [pc : Steps, key : Keys \cup {None}, print : Creations \cup {None},
     id : 0..MaxId, attempt : Nat, version : Nat, high : 0..MaxId]
-----------------------------------------------------------------------------
\* What a step of one creation leaves of the calls: those of the other catalogs, and of
\* its own all that the step does not set (every storage operation of create()).
Others(c) == \A d \in Catalogs : d # c => call'[d] = call[d]

\* Going to another step keeps the arguments of the creation.
LEMMA GotoFacts ==
    ASSUME TypeOK, NEW c \in Catalogs, NEW pc \in Steps, Goto(c, pc)
    PROVE  /\ call' \in [Catalogs -> CallType] /\ Others(c)
           /\ call'[c] = [call[c] EXCEPT !.pc = pc]
<1>1. call \in [Catalogs -> CallType]
  BY DEF TypeOK, CallType
<1>2. call[c] \in CallType
  BY <1>1
<1>3. [call[c] EXCEPT !.pc = pc] \in CallType
  BY <1>2 DEF CallType
<1>4. call' = [call EXCEPT ![c] = [call[c] EXCEPT !.pc = pc]]
  BY <1>1 DEF Goto
<1> QED
  BY <1>1, <1>3, <1>4 DEF Others

\* A creation that ends leaves no call.
LEMMA ThrowFacts ==
    ASSUME TypeOK, NEW c \in Catalogs, Throw(c)
    PROVE  call' \in [Catalogs -> CallType] /\ Others(c) /\ call'[c] = NoCall
<1>1. call \in [Catalogs -> CallType]
  BY DEF TypeOK, CallType
<1>2. NoCall \in CallType
  BY DEF NoCall, CallType, Steps
<1> QED
  BY <1>1, <1>2 DEF Others, Throw

\* A creation that found its claim goes on with the identity that the claim names.
LEMMA ClaimedFacts ==
    ASSUME TypeOK, NEW c \in Catalogs, NEW r, r.id \in 0..MaxId, Claimed(c, r)
    PROVE  /\ call' \in [Catalogs -> CallType] /\ Others(c)
           /\ \/ call'[c] = NoCall
              \/ Matches(c, r) /\ call'[c] = [call[c] EXCEPT !.pc = "record", !.id = r.id]
<1>1. call \in [Catalogs -> CallType]
  BY DEF TypeOK, CallType
<1>2. call[c] \in CallType
  BY <1>1
<1>3. CASE ~Matches(c, r)
  BY <1>3, ThrowFacts DEF Claimed
<1>4. CASE Matches(c, r)
  <2>1. [call[c] EXCEPT !.pc = "record", !.id = r.id] \in CallType
    BY Zenon, <1>2 DEF CallType, Steps
  <2>2. call' = [call EXCEPT ![c] = [call[c] EXCEPT !.pc = "record", !.id = r.id]]
    BY Zenon, <1>1, <1>4 DEF Claimed
  <2> QED
    BY <1>1, <1>4, <2>1, <2>2 DEF Others
<1> QED
  BY <1>3, <1>4

\* A reservation is never empty and never passes the last identity.
LEMMA CountFacts ==
    ASSUME NEW high \in 0..MaxId, high < MaxId
    PROVE  Count(high) \in 1..MaxId /\ high + Count(high) <= MaxId
BY DEF Count

\* Taking an identity from a block leaves the others of the block.
LEMMA TakenFacts ==
    ASSUME NEW b \in [next : Ids, remaining : Ids], b.next + b.remaining - 1 <= MaxId
    PROVE  /\ Taken(b) \in [next : 0..MaxId, remaining : 0..MaxId]
           /\ Rest(Taken(b)) = Rest(b) \ {b.next}
           /\ b.next \in Rest(b)
<1>1. /\ b.next \in 1..MaxId /\ b.remaining \in 1..MaxId
  BY DEF Ids
<1>2. CASE b.remaining > 1
  <2>1. Taken(b).next = b.next + 1 /\ Taken(b).remaining = b.remaining - 1
    BY <1>2 DEF Taken
  <2> QED
    BY <1>1, <1>2, <2>1 DEF Taken, Rest
<1>3. CASE b.remaining = 1
  <2>1. Taken(b).next = b.next /\ Taken(b).remaining = 0
    BY <1>3 DEF Taken
  <2> QED
    BY <1>1, <1>3, <2>1 DEF Taken, Rest
<1> QED
  BY <1>1, <1>2, <1>3

\* Allocating an identity counts it and takes it to the claim.
LEMMA MintFacts ==
    ASSUME TypeOK, NEW c \in Catalogs, NEW b \in [next : Ids, remaining : Ids],
           b.next + b.remaining - 1 <= MaxId, Mint(c, b)
    PROVE  /\ call' \in [Catalogs -> CallType] /\ Others(c)
           /\ call'[c] = [call[c] EXCEPT !.pc = "putclaim", !.id = b.next]
           /\ block' \in [Catalogs -> [next : 0..MaxId, remaining : 0..MaxId]]
           /\ block'[c] = Taken(b) /\ \A d \in Catalogs : d # c => block'[d] = block[d]
           /\ minted' \in [Ids -> Nat] /\ minted'[b.next] = minted[b.next] + 1
           /\ \A i \in Ids : i # b.next => minted'[i] = minted[i]
<1>1. call \in [Catalogs -> CallType]
  BY DEF TypeOK, CallType
<1>2. call[c] \in CallType /\ b.next \in Ids /\ b.next \in 0..MaxId
  BY <1>1 DEF Ids
<1>3. [call[c] EXCEPT !.pc = "putclaim", !.id = b.next] \in CallType
  BY Zenon, <1>2 DEF CallType, Steps
<1>4. call' = [call EXCEPT ![c] = [call[c] EXCEPT !.pc = "putclaim", !.id = b.next]]
  BY Zenon, <1>1 DEF Mint
<1>5. /\ call' \in [Catalogs -> CallType] /\ Others(c)
      /\ call'[c] = [call[c] EXCEPT !.pc = "putclaim", !.id = b.next]
  BY <1>1, <1>3, <1>4 DEF Others
<1>6. /\ block' \in [Catalogs -> [next : 0..MaxId, remaining : 0..MaxId]]
      /\ block'[c] = Taken(b) /\ \A d \in Catalogs : d # c => block'[d] = block[d]
  <2>1. Taken(b) \in [next : 0..MaxId, remaining : 0..MaxId]
    BY TakenFacts
  <2>2. block \in [Catalogs -> [next : 0..MaxId, remaining : 0..MaxId]]
    BY DEF TypeOK
  <2>3. block' = [block EXCEPT ![c] = Taken(b)]
    BY DEF Mint
  <2> QED
    BY <2>1, <2>2, <2>3
<1>7. /\ minted' \in [Ids -> Nat] /\ minted'[b.next] = minted[b.next] + 1
      /\ \A i \in Ids : i # b.next => minted'[i] = minted[i]
  <2>1. minted \in [Ids -> Nat] /\ minted' = [minted EXCEPT ![b.next] = @ + 1]
    BY DEF Mint, TypeOK
  <2> QED
    BY <1>2, <2>1
<1> QED
  BY <1>5, <1>6, <1>7
-----------------------------------------------------------------------------
\* The blocks stay apart when a step leaves them alone; a creation that is about to
\* reserve has just read the high-water mark (the get of allocate()).
LEMMA BlockKept ==
    ASSUME IInv, NEW c \in Catalogs, Others(c), UNCHANGED <<sequence, block, minted>>,
           call'[c].pc = "reserve" =>
               /\ call'[c].version = sequence.version /\ call'[c].high = sequence.high
               /\ sequence.high < MaxId
    PROVE  BlockInv'
<1>1. sequence.version \in Nat
  BY DEF IInv, TypeOK
<1>2. ASSUME NEW d \in Catalogs, call'[d].pc = "reserve"
      PROVE  /\ call'[d].version <= sequence.version /\ call'[d].high < MaxId
             /\ call'[d].version = sequence.version => call'[d].high = sequence.high
  <2>1. CASE d = c
    BY <1>1, <1>2, <2>1
  <2>2. CASE d # c
    BY <1>2, <2>2 DEF Others, IInv, BlockInv
  <2> QED
    BY <2>1, <2>2
<1> QED
  BY <1>2 DEF IInv, BlockInv

\* Who holds which identity stays as it is when nothing is claimed or allocated.
LEMMA HeldKept ==
    ASSUME IInv, NEW c \in Catalogs, Others(c), UNCHANGED <<claim, minted>>,
           call'[c].pc # "putclaim"
    PROVE  HeldInv'
<1>1. ASSUME NEW d \in Catalogs, call'[d].pc = "putclaim"
      PROVE  /\ d # c /\ call'[d] = call[d]
             /\ call[d].id \in Ids /\ minted[call[d].id] = 1
             /\ \A k \in Keys : claim[k].id # call[d].id
  <2>1. d # c /\ call'[d] = call[d]
    BY <1>1 DEF Others
  <2> QED
    BY <1>1, <2>1 DEF IInv, HeldInv
<1>2. ASSUME NEW d \in Catalogs, NEW e \in Catalogs, call'[d].pc = "putclaim",
             call'[e].pc = "putclaim", call'[e].id = call'[d].id
      PROVE  d = e
  BY <1>1, <1>2 DEF IInv, HeldInv
<1> QED
  BY <1>1, <1>2 DEF IInv, HeldInv

\* What one creation has established.
CallOne(c) ==
    /\ call[c].pc # "idle" => call[c].key \in Keys /\ call[c].print \in Creations
    /\ call[c].pc \notin {"corrupt", "collision", "disappeared"}
    /\ call[c].pc = "reclaim" => claim[call[c].key] # NoClaim
    /\ call[c].pc \in {"record", "putrecord", "rerecord"} => claim[call[c].key] = MyClaim(c)
    /\ call[c].pc = "rerecord" => entity[call[c].id] # NoEntity

\* A claim is never changed, and a record is never removed (compare_exchange with
\* version 0 for both).
Durable ==
    /\ \A k \in Keys : claim[k] # NoClaim => claim'[k] = claim[k]
    /\ \A i \in Ids : entity[i] # NoEntity =>
        entity'[i] # NoEntity /\ entity'[i].print = entity[i].print

\* The identity of a creation that found its claim.
LEMMA ClaimFound ==
    ASSUME IInv, NEW c \in Catalogs, call[c].pc \in {"record", "putrecord", "rerecord"}
    PROVE  /\ call[c].key \in Keys /\ call[c].print \in Creations /\ call[c].id \in Ids
           /\ claim[call[c].key] = MyClaim(c) /\ claim[call[c].key] # NoClaim
           /\ \A k \in Keys : claim[k].id = call[c].id => k = call[c].key
<1>1. /\ call[c].key \in Keys /\ call[c].print \in Creations
      /\ claim[call[c].key] = MyClaim(c)
  BY DEF IInv, CallInv
<1>2. claim[call[c].key].id = call[c].id /\ claim[call[c].key].print = call[c].print
  BY <1>1 DEF MyClaim
<1>3. claim[call[c].key] # NoClaim
  BY <1>1, <1>2 DEF NoClaim
<1> QED
  BY <1>1, <1>2, <1>3 DEF IInv, HeldInv

\* What is durable stays established for the creations that do not move.
LEMMA CallsKept ==
    ASSUME IInv, NEW c \in Catalogs, Others(c), Durable, CallOne(c)'
    PROVE  CallInv'
<1> SUFFICES ASSUME NEW d \in Catalogs, d # c PROVE CallOne(d)'
  BY DEF CallInv, CallOne
<1>1. call'[d] = call[d] /\ CallOne(d)
  BY DEF Others, IInv, CallInv, CallOne
<1>2. call[d].pc \in {"record", "putrecord", "rerecord"} => claim'[call[d].key] = MyClaim(d)
  BY ClaimFound DEF Durable
<1>3. call[d].pc = "rerecord" => entity'[call[d].id] # NoEntity
  BY <1>1, ClaimFound DEF Durable, CallOne
<1>4. call[d].pc = "reclaim" => claim'[call[d].key] # NoClaim
  BY <1>1 DEF Durable, CallOne
<1> QED
  BY <1>1, <1>2, <1>3, <1>4 DEF CallOne, MyClaim

\* What is durable keeps the records under their claims, and what was returned stored;
\* a new record or a new return has to bring its claim.
LEMMA StoredKept ==
    ASSUME IInv, Durable,
           \A i \in Ids : entity'[i] # NoEntity =>
               \/ entity[i] # NoEntity
               \/ \E k \in Keys : claim'[k] = [id |-> i, print |-> entity'[i].print],
           \A r \in returned' : r \in returned \/
               (claim'[r.key] = [id |-> r.id, print |-> r.print] /\ entity'[r.id].print = r.print)
    PROVE  StoredInv'
<1>1. ASSUME NEW i \in Ids, entity'[i] # NoEntity
      PROVE  \E k \in Keys : claim'[k] = [id |-> i, print |-> entity'[i].print]
  <2>1. CASE entity[i] # NoEntity
    <3>1. PICK k \in Keys : claim[k] = [id |-> i, print |-> entity[i].print]
      BY <2>1 DEF IInv, StoredInv
    <3>2. claim[k].id = i
      BY <3>1
    <3>3. claim[k] # NoClaim
      BY <3>2 DEF NoClaim, Ids
    <3> QED
      BY <2>1, <3>1, <3>3 DEF Durable
  <2> QED
    BY <1>1, <2>1
<1>2. ASSUME NEW r \in returned
      PROVE  claim'[r.key] = [id |-> r.id, print |-> r.print] /\ entity'[r.id].print = r.print
  <2>1. /\ r.key \in Keys /\ r.print \in Creations /\ r.id \in Ids
    BY DEF IInv, TypeOK
  <2>2. claim[r.key] = [id |-> r.id, print |-> r.print] /\ entity[r.id].print = r.print
    BY DEF IInv, StoredInv
  <2>3. claim[r.key].id = r.id
    BY <2>2
  <2>4. claim[r.key] # NoClaim /\ entity[r.id] # NoEntity
    BY <2>1, <2>2, <2>3 DEF NoClaim, NoEntity, Ids
  <2> QED
    BY <2>1, <2>2, <2>4 DEF Durable
<1> QED
  BY <1>1, <1>2 DEF StoredInv
-----------------------------------------------------------------------------
\* A step that changes nothing but its call.
LEMMA OnlyCall ==
    ASSUME IInv, NEW c \in Catalogs, UNCHANGED <<storage, block, minted, returned>>,
           up' \in [Catalogs -> BOOLEAN], calls' \in [Catalogs -> Nat],
           call' \in [Catalogs -> CallType], Others(c), call'[c].pc # "putclaim",
           call'[c].pc = "reserve" =>
               /\ call'[c].version = sequence.version /\ call'[c].high = sequence.high
               /\ sequence.high < MaxId,
           CallOne(c)'
    PROVE  IInv'
<1>1. TypeOK'
  BY DEF IInv, TypeOK, storage, CallType
<1>2. BlockInv'
  BY BlockKept DEF storage
<1>3. HeldInv'
  BY HeldKept DEF storage
<1>4. Durable
  BY DEF Durable, storage
<1>5. CallInv'
  BY <1>4, CallsKept
<1>6. StoredInv'
  BY <1>4, StoredKept DEF storage
<1> QED
  BY <1>1, <1>2, <1>3, <1>5, <1>6 DEF IInv

\* A creation that fails keeps nothing: create() threw before any effect.
LEMMA Fails ==
    ASSUME IInv, NEW c \in Catalogs, Throw(c),
           UNCHANGED <<storage, block, up, calls, minted, returned>>
    PROVE  IInv'
<1>1. call' \in [Catalogs -> CallType] /\ Others(c) /\ call'[c] = NoCall
  BY ThrowFacts DEF IInv
<1>2. call'[c].pc = "idle"
  BY <1>1 DEF NoCall
<1>3. CallOne(c)'
  BY <1>2 DEF CallOne
<1>4. up' \in [Catalogs -> BOOLEAN] /\ calls' \in [Catalogs -> Nat]
  BY DEF IInv, TypeOK
<1> QED
  BY <1>1, <1>2, <1>3, <1>4, OnlyCall

\* A step to a place where nothing more has to be established.
LEMMA Goes ==
    ASSUME IInv, NEW c \in Catalogs, NEW pc \in Steps, Goto(c, pc), call[c].pc # "idle",
           pc \notin {"putclaim", "reserve", "corrupt", "collision", "disappeared"},
           pc = "reclaim" => claim[call[c].key] # NoClaim,
           pc \in {"record", "putrecord", "rerecord"} => claim[call[c].key] = MyClaim(c),
           pc = "rerecord" => entity[call[c].id] # NoEntity,
           UNCHANGED <<storage, block, up, calls, minted, returned>>
    PROVE  IInv'
<1>1. /\ call' \in [Catalogs -> CallType] /\ Others(c)
      /\ call'[c] = [call[c] EXCEPT !.pc = pc]
  BY GotoFacts DEF IInv
<1>2. call[c] \in CallType
  BY DEF IInv, TypeOK, CallType
<1>3. /\ call'[c].pc = pc /\ call'[c].key = call[c].key /\ call'[c].id = call[c].id
      /\ call'[c].print = call[c].print
  BY <1>1, <1>2 DEF CallType
<1>4. call[c].key \in Keys /\ call[c].print \in Creations
  BY DEF IInv, CallInv
<1>5. CallOne(c)'
  BY <1>3, <1>4 DEF CallOne, storage, MyClaim
<1>6. up' \in [Catalogs -> BOOLEAN] /\ calls' \in [Catalogs -> Nat]
  BY DEF IInv, TypeOK
<1> QED
  BY Zenon, <1>1, <1>3, <1>5, <1>6, OnlyCall

\* A creation that goes on with a claim that is stored under its key.
LEMMA GoesOn ==
    ASSUME IInv, NEW c \in Catalogs, call[c].pc # "idle", claim[call[c].key] # NoClaim,
           Claimed(c, claim[call[c].key]),
           UNCHANGED <<storage, block, up, calls, minted, returned>>
    PROVE  IInv'
<1> DEFINE r == claim[call[c].key]
<1>1. call[c].key \in Keys /\ call[c].print \in Creations
  BY DEF IInv, CallInv
<1>2. r \in [id : 0..MaxId, print : Creations \cup {None}]
  BY <1>1 DEF IInv, TypeOK
<1>3. /\ call' \in [Catalogs -> CallType] /\ Others(c)
      /\ \/ call'[c] = NoCall
         \/ Matches(c, r) /\ call'[c] = [call[c] EXCEPT !.pc = "record", !.id = r.id]
  BY Zenon, <1>2, ClaimedFacts DEF IInv
<1>4. call[c] \in CallType
  BY DEF IInv, TypeOK, CallType
<1>5. up' \in [Catalogs -> BOOLEAN] /\ calls' \in [Catalogs -> Nat]
  BY DEF IInv, TypeOK
<1>6. CASE call'[c] = NoCall
  <2>1. call'[c].pc = "idle"
    BY <1>6 DEF NoCall
  <2>2. CallOne(c)'
    BY <2>1 DEF CallOne
  <2> QED
    BY <1>3, <1>5, <2>1, <2>2, OnlyCall
<1>7. CASE Matches(c, r) /\ call'[c] = [call[c] EXCEPT !.pc = "record", !.id = r.id]
  <2>1. /\ call'[c].pc = "record" /\ call'[c].key = call[c].key /\ call'[c].id = r.id
        /\ call'[c].print = call[c].print
    BY <1>4, <1>7 DEF CallType
  <2>2. r = [id |-> r.id, print |-> r.print] /\ r.print = call[c].print
    BY <1>2, <1>7 DEF Matches
  <2>3. CallOne(c)'
    BY <1>1, <2>1, <2>2 DEF CallOne, MyClaim, storage
  <2> QED
    BY <1>3, <1>5, <2>1, <2>3, OnlyCall
<1> QED
  BY <1>3, <1>6, <1>7
-----------------------------------------------------------------------------
\* allocate() gives out an identity that nobody holds, and the blocks stay apart, when
\* the block it takes from lies below the mark that is stored now, is unused and apart
\* from the blocks of the others.
LEMMA Mints ==
    ASSUME IInv, NEW c \in Catalogs, call[c].pc # "idle",
           NEW b \in [next : Ids, remaining : Ids], b.next + b.remaining - 1 <= MaxId,
           Mint(c, b), UNCHANGED <<claim, entity, up, calls, returned>>,
           sequence' \in [version : Nat, high : 0..MaxId],
           sequence.high <= sequence'.high, Rest(b) \subseteq 1..sequence'.high,
           \A i \in Rest(b) : minted[i] = 0,
           \A d \in Catalogs : d # c => Rest(b) \cap Rest(block[d]) = {},
           sequence' = sequence \/ sequence'.version > sequence.version
    PROVE  IInv'
<1>1. /\ call' \in [Catalogs -> CallType] /\ Others(c)
      /\ call'[c] = [call[c] EXCEPT !.pc = "putclaim", !.id = b.next]
      /\ block' \in [Catalogs -> [next : 0..MaxId, remaining : 0..MaxId]]
      /\ block'[c] = Taken(b) /\ \A d \in Catalogs : d # c => block'[d] = block[d]
      /\ minted' \in [Ids -> Nat] /\ minted'[b.next] = minted[b.next] + 1
      /\ \A i \in Ids : i # b.next => minted'[i] = minted[i]
  BY Zenon, MintFacts DEF IInv
<1>2. /\ b.next \in Ids /\ b.next \in Rest(b) /\ Rest(Taken(b)) = Rest(b) \ {b.next}
  BY TakenFacts
<1>3. /\ call[c] \in CallType /\ sequence.version \in Nat /\ sequence.high \in 0..MaxId
      /\ sequence'.high \in 0..MaxId
  BY DEF IInv, TypeOK, CallType
<1>4. /\ call'[c].pc = "putclaim" /\ call'[c].id = b.next /\ call'[c].key = call[c].key
      /\ call'[c].print = call[c].print
  BY <1>1, <1>3 DEF CallType
<1>5. minted[b.next] = 0 /\ minted'[b.next] = 1 /\ b.next <= sequence'.high
  BY <1>1, <1>2
<1>6. TypeOK'
  BY <1>1 DEF IInv, TypeOK, CallType
<1>7. BlockInv'
  <2>1. ASSUME NEW d \in Catalogs
        PROVE  /\ Rest(block'[d]) \subseteq 1..sequence'.high
               /\ \A i \in Rest(block'[d]) : minted'[i] = 0
               /\ b.next \notin Rest(block'[d])
    <3>1. CASE d = c
      <4>1. Rest(block'[d]) = Rest(b) \ {b.next}
        BY <1>1, <1>2, <3>1
      <4>2. \A i \in Rest(b) : i \in Ids
        BY DEF Ids
      <4> QED
        BY <1>1, <4>1, <4>2
    <3>2. CASE d # c
      <4>1. block'[d] = block[d]
        BY <1>1, <3>2
      <4>2. /\ Rest(block[d]) \subseteq 1..sequence.high
            /\ \A i \in Rest(block[d]) : minted[i] = 0
        BY DEF IInv, BlockInv
      <4>3. b.next \notin Rest(block[d])
        BY <1>2, <3>2
      <4>4. \A i \in Rest(block[d]) : i \in 1..sequence'.high /\ i \in Ids
        BY <1>3, <4>2 DEF Ids
      <4> QED
        BY <1>1, <4>1, <4>2, <4>3, <4>4
    <3> QED
      BY <3>1, <3>2
  <2>2. ASSUME NEW d \in Catalogs, NEW e \in Catalogs, d # e
        PROVE  Rest(block'[d]) \cap Rest(block'[e]) = {}
    <3>1. Rest(block'[c]) \subseteq Rest(b)
      BY <1>1, <1>2
    <3>2. \A x \in Catalogs : x # c => Rest(b) \cap Rest(block'[x]) = {}
      BY <1>1
    <3>3. CASE d # c /\ e # c
      BY Zenon, <1>1, <2>2, <3>3 DEF IInv, BlockInv
    <3> QED
      BY <2>2, <3>1, <3>2, <3>3
  <2>3. ASSUME NEW d \in Catalogs, call'[d].pc = "reserve"
        PROVE  /\ call'[d].version <= sequence'.version /\ call'[d].high < MaxId
               /\ call'[d].version = sequence'.version => call'[d].high = sequence'.high
    <3>1. call'[d] = call[d]
      BY Zenon, <1>1, <1>4, <2>3 DEF Others
    <3>2. /\ call[d].version <= sequence.version /\ call[d].high < MaxId
          /\ call[d].version = sequence.version => call[d].high = sequence.high
      BY <2>3, <3>1 DEF IInv, BlockInv
    <3>3. call[d].version \in Nat /\ sequence'.version \in Nat
      BY DEF IInv, TypeOK
    <3> QED
      BY <1>3, <3>1, <3>2, <3>3
  <2>4. ASSUME NEW i \in Ids
        PROVE  minted'[i] <= 1 /\ (i > sequence'.high => minted'[i] = 0)
    <3>1. minted[i] <= 1 /\ (i > sequence.high => minted[i] = 0)
      BY DEF IInv, BlockInv
    <3>2. CASE i = b.next
      BY <1>5, <3>2 DEF Ids
    <3>3. CASE i # b.next
      <4>1. minted'[i] = minted[i]
        BY <1>1, <3>3
      <4>2. i > sequence'.high => i > sequence.high
        BY <1>3 DEF Ids
      <4> QED
        BY <3>1, <4>1, <4>2
    <3> QED
      BY <3>2, <3>3
  <2> QED
    BY <2>1, <2>2, <2>3, <2>4 DEF BlockInv
<1>8. HeldInv'
  <2>1. \A k \in Keys : claim[k] # NoClaim => claim[k].id # b.next
    BY <1>5 DEF IInv, HeldInv
  <2>2. \A k \in Keys : claim[k].id # b.next
    BY <1>2, <2>1 DEF NoClaim, Ids
  <2>3. \A d \in Catalogs : d # c /\ call[d].pc = "putclaim" => call[d].id # b.next
    BY <1>5 DEF IInv, HeldInv
  <2>4. ASSUME NEW d \in Catalogs, call'[d].pc = "putclaim"
        PROVE  /\ call'[d].id \in Ids /\ minted'[call'[d].id] = 1
               /\ \A k \in Keys : claim'[k].id # call'[d].id
               /\ \A e \in Catalogs : call'[e].pc = "putclaim" /\ call'[e].id = call'[d].id => d = e
    <3>1. CASE d = c
      BY Zenon, <1>1, <1>2, <1>4, <1>5, <2>2, <2>3, <3>1 DEF Others
    <3>2. CASE d # c
      <4>1. call'[d] = call[d] /\ call[d].pc = "putclaim"
        BY <1>1, <2>4, <3>2 DEF Others
      <4>2. /\ call[d].id \in Ids /\ minted[call[d].id] = 1
            /\ \A k \in Keys : claim[k].id # call[d].id
            /\ \A e \in Catalogs : call[e].pc = "putclaim" /\ call[e].id = call[d].id => d = e
        BY <4>1 DEF IInv, HeldInv
      <4>3. call[d].id # b.next
        BY <2>3, <3>2, <4>1
      <4>4. minted'[call[d].id] = 1
        BY <1>1, <4>2, <4>3
      <4>5. ASSUME NEW e \in Catalogs, call'[e].pc = "putclaim", call'[e].id = call[d].id
            PROVE  d = e
        <5>1. e # c
          BY <1>4, <4>3, <4>5
        <5>2. call'[e] = call[e]
          BY <1>1, <5>1 DEF Others
        <5> QED
          BY <4>2, <4>5, <5>2
      <4> QED
        BY <4>1, <4>2, <4>4, <4>5
    <3> QED
      BY <3>1, <3>2
  <2>5. ASSUME NEW k \in Keys, claim[k] # NoClaim
        PROVE  minted'[claim[k].id] = 1
    BY <1>1, <2>1, <2>5 DEF IInv, HeldInv
  <2> QED
    BY <2>4, <2>5 DEF IInv, HeldInv
<1>9. Durable
  BY DEF Durable
<1>10. CallOne(c)'
  BY <1>4 DEF CallOne, IInv, CallInv
<1>11. CallInv'
  BY <1>1, <1>9, <1>10, CallsKept
<1>12. StoredInv'
  BY <1>9, StoredKept
<1> QED
  BY <1>6, <1>7, <1>8, <1>11, <1>12 DEF IInv

\* The identities left of a block come before anything else.
LEMMA AllocatesLocal ==
    ASSUME IInv, NEW c \in Catalogs, AllocateLocal(c)
    PROVE  IInv'
<1> DEFINE b == block[c]
<1>1. b \in [next : 0..MaxId, remaining : 0..MaxId] /\ sequence.high \in 0..MaxId
  BY DEF IInv, TypeOK
<1>2. b.remaining > 0 /\ call[c].pc # "idle" /\ Mint(c, b)
  BY DEF AllocateLocal, At
<1>3. Rest(b) \subseteq 1..sequence.high
  BY DEF IInv, BlockInv
<1>4. b.next \in Rest(b) /\ b.next + b.remaining - 1 \in Rest(b)
  BY <1>1, <1>2 DEF Rest
<1>5. /\ b.next \in Ids /\ b.remaining \in Ids /\ b.next + b.remaining - 1 <= MaxId
  BY <1>1, <1>2, <1>3, <1>4 DEF Ids
<1>6. b \in [next : Ids, remaining : Ids]
  BY <1>1, <1>5
<1>7. /\ \A i \in Rest(b) : minted[i] = 0
      /\ \A d \in Catalogs : d # c => Rest(b) \cap Rest(block[d]) = {}
  BY DEF IInv, BlockInv
<1>8. /\ UNCHANGED <<claim, entity, up, calls, returned>> /\ sequence' = sequence
  BY DEF AllocateLocal, storage
<1>9. /\ sequence' \in [version : Nat, high : 0..MaxId] /\ sequence.high <= sequence'.high
      /\ Rest(b) \subseteq 1..sequence'.high
  BY <1>1, <1>3, <1>8 DEF IInv, TypeOK
<1> HIDE DEF b
<1> QED
  BY <1>2, <1>5, <1>6, <1>7, <1>8, <1>9, Mints

\* The high-water mark after the compare_exchange of a reservation, and the block that
\* lies between the old mark and the new one.
LEMMA ReservedFacts ==
    ASSUME IInv, NEW c \in Catalogs, call[c].pc = "reserve", sequence.version = call[c].version,
           NEW b, b = [next |-> First(call[c].high), remaining |-> Count(call[c].high)],
           sequence' = Reserved(call[c].high)
    PROVE  /\ sequence' \in [version : Nat, high : 0..MaxId]
           /\ sequence.high < sequence'.high /\ sequence'.version = sequence.version + 1
           /\ b \in [next : Ids, remaining : Ids] /\ b.next + b.remaining - 1 <= MaxId
           /\ Rest(b) = (sequence.high + 1)..sequence'.high
<1>1. /\ sequence.version \in Nat /\ sequence.high \in 0..MaxId
  BY DEF IInv, TypeOK
<1>2. call[c].high = sequence.high /\ sequence.high < MaxId
  BY <1>1 DEF IInv, BlockInv
<1> DEFINE n == Count(sequence.high)
<1>3. n \in 1..MaxId /\ sequence.high + n <= MaxId
  BY <1>1, <1>2, CountFacts
<1>4. sequence' = [version |-> sequence.version + 1, high |-> sequence.high + n]
  BY <1>2 DEF Reserved
<1>5. b.next = sequence.high + 1 /\ b.remaining = n
  BY <1>2 DEF First
<1> HIDE DEF n
<1>6. b \in [next : Ids, remaining : Ids]
  BY <1>1, <1>2, <1>3, <1>5 DEF Ids
<1>7. sequence'.high = sequence.high + n /\ sequence'.version = sequence.version + 1
  BY <1>4
<1>8. sequence' \in [version : Nat, high : 0..MaxId]
  BY <1>1, <1>3, <1>4
<1> QED
  BY <1>1, <1>3, <1>5, <1>6, <1>7, <1>8 DEF Rest

\* The compare_exchange that reserves a block wins or has to try again.
LEMMA Reserves ==
    ASSUME IInv, NEW c \in Catalogs, Reserve(c)
    PROVE  IInv'
<1>1. call[c].pc = "reserve"
  BY DEF Reserve, At
<1>2. CASE sequence.version = call[c].version
  <2> DEFINE b == [next |-> First(call[c].high), remaining |-> Count(call[c].high)]
  <2>1. /\ sequence' = Reserved(call[c].high) /\ Mint(c, b)
        /\ UNCHANGED <<claim, entity, up, calls, returned>>
    BY <1>2 DEF Reserve
  <2>2. /\ sequence' \in [version : Nat, high : 0..MaxId]
        /\ sequence.high < sequence'.high /\ sequence'.version = sequence.version + 1
        /\ b \in [next : Ids, remaining : Ids] /\ b.next + b.remaining - 1 <= MaxId
        /\ Rest(b) = (sequence.high + 1)..sequence'.high
    BY <1>1, <1>2, <2>1, ReservedFacts
  <2> HIDE DEF b
  <2>3. sequence.version \in Nat /\ sequence.high \in 0..MaxId /\ sequence'.high \in 0..MaxId
    BY <2>2 DEF IInv, TypeOK
  <2>4. /\ sequence.high <= sequence'.high /\ Rest(b) \subseteq 1..sequence'.high
        /\ sequence'.version > sequence.version
    BY <2>2, <2>3
  <2>5. \A i \in Rest(b) : i \in Ids /\ i > sequence.high
    BY <2>2, <2>3 DEF Ids
  <2>6. \A i \in Rest(b) : minted[i] = 0
    BY <2>5 DEF IInv, BlockInv
  <2>7. ASSUME NEW d \in Catalogs PROVE Rest(b) \cap Rest(block[d]) = {}
    <3>1. \A i \in Rest(block[d]) : ~(i > sequence.high)
      BY <2>3 DEF IInv, BlockInv
    <3> QED
      BY <2>5, <3>1
  <2> QED
    BY Zenon, <1>1, <2>1, <2>2, <2>4, <2>6, <2>7, Mints
<1>3. CASE sequence.version # call[c].version
  <2>1. /\ UNCHANGED <<storage, block, up, calls, minted, returned>>
        /\ \/ call' = [call EXCEPT ![c].pc = "allocate", ![c].attempt = call[c].attempt + 1]
           \/ Throw(c)
    BY <1>3 DEF Reserve, storage
  <2>2. CASE Throw(c)
    BY <2>1, <2>2, Fails
  <2>3. CASE call' = [call EXCEPT ![c].pc = "allocate", ![c].attempt = call[c].attempt + 1]
    <3> DEFINE r == [call[c] EXCEPT !.pc = "allocate", !.attempt = call[c].attempt + 1]
    <3>1. call \in [Catalogs -> CallType] /\ call[c] \in CallType
      BY DEF IInv, TypeOK, CallType
    <3>2. r \in CallType
      <4>1. call[c].attempt + 1 \in Nat /\ "allocate" \in Steps
        BY <3>1 DEF CallType, Steps
      <4> QED
        BY Zenon, <3>1, <4>1 DEF CallType
    <3>3. call' = [call EXCEPT ![c] = r]
      BY Zenon, <2>3, <3>1
    <3>4. /\ r.pc = "allocate" /\ r.key = call[c].key /\ r.print = call[c].print
      BY <3>1 DEF CallType
    <3> HIDE DEF r
    <3>5. call' \in [Catalogs -> CallType] /\ Others(c) /\ call'[c] = r
      BY <3>1, <3>2, <3>3 DEF Others
    <3>6. call[c].key \in Keys /\ call[c].print \in Creations
      BY <1>1 DEF IInv, CallInv
    <3>7. CallOne(c)'
      BY <3>4, <3>5, <3>6 DEF CallOne
    <3>8. up' \in [Catalogs -> BOOLEAN] /\ calls' \in [Catalogs -> Nat]
      BY <2>1 DEF IInv, TypeOK
    <3> QED
      BY <2>1, <3>4, <3>5, <3>7, <3>8, OnlyCall
  <2> QED
    BY <2>1, <2>2, <2>3
<1> QED
  BY <1>2, <1>3

\* create() begins.
LEMMA Creates ==
    ASSUME IInv, NEW c \in Catalogs, NEW k \in Keys, NEW p \in Creations, Create(c, k, p)
    PROVE  IInv'
<1> DEFINE r == [NoCall EXCEPT !.pc = "claim", !.key = k, !.print = p]
<1>1. call \in [Catalogs -> CallType]
  BY DEF IInv, TypeOK, CallType
<1>2. r \in CallType /\ r.pc = "claim" /\ r.key = k /\ r.print = p
  <2>1. NoCall \in CallType /\ "claim" \in Steps
    BY DEF NoCall, CallType, Steps
  <2>2. r \in CallType
    BY Zenon, <2>1 DEF CallType
  <2> QED
    BY <2>2 DEF NoCall
<1>3. call' = [call EXCEPT ![c] = r] /\ UNCHANGED <<storage, block, up, minted, returned>>
  BY DEF Create
<1> HIDE DEF r
<1>4. call' \in [Catalogs -> CallType] /\ Others(c) /\ call'[c] = r
  BY <1>1, <1>2, <1>3 DEF Others
<1>5. CallOne(c)'
  BY <1>2, <1>4 DEF CallOne
<1>6. up' \in [Catalogs -> BOOLEAN] /\ calls' \in [Catalogs -> Nat]
  BY DEF IInv, TypeOK, Create
<1> QED
  BY Zenon, <1>2, <1>3, <1>4, <1>5, <1>6, OnlyCall

\* allocate() reads the high-water mark, or finds that there are no identities left.
LEMMA GetsSequence ==
    ASSUME IInv, NEW c \in Catalogs, GetSequence(c)
    PROVE  IInv'
<1>1. call[c].pc = "allocate" /\ UNCHANGED <<storage, block, up, calls, minted, returned>>
  BY DEF GetSequence, At
<1>2. CASE sequence.high = MaxId
  BY <1>1, <1>2, Fails DEF GetSequence
<1>3. CASE sequence.high # MaxId
  <2> DEFINE r == [call[c] EXCEPT !.pc = "reserve", !.version = sequence.version,
                                  !.high = sequence.high]
  <2>1. /\ call \in [Catalogs -> CallType] /\ call[c] \in CallType
        /\ sequence.version \in Nat /\ sequence.high \in 0..MaxId /\ sequence.high < MaxId
    <3>1. /\ call \in [Catalogs -> CallType] /\ sequence \in [version : Nat, high : 0..MaxId]
      BY DEF IInv, TypeOK, CallType
    <3>2. sequence.version \in Nat /\ sequence.high \in 0..MaxId
      BY <3>1
    <3>3. sequence.high < MaxId
      BY <1>3, <3>2
    <3> QED
      BY <3>1, <3>2, <3>3
  <2>2. r \in CallType
    BY Zenon, <2>1 DEF CallType, Steps
  <2>3. call' = [call EXCEPT ![c] = r]
    BY Zenon, <1>3, <2>1 DEF GetSequence
  <2>4. /\ r.pc = "reserve" /\ r.version = sequence.version /\ r.high = sequence.high
        /\ r.key = call[c].key /\ r.print = call[c].print
    BY <2>1 DEF CallType
  <2> HIDE DEF r
  <2>5. call' \in [Catalogs -> CallType] /\ Others(c) /\ call'[c] = r
    BY <2>1, <2>2, <2>3 DEF Others
  <2>6. CallOne(c)'
    <3>1. call[c].key \in Keys /\ call[c].print \in Creations
      BY <1>1 DEF IInv, CallInv
    <3> QED
      BY <2>4, <2>5, <3>1 DEF CallOne
  <2>7. up' \in [Catalogs -> BOOLEAN] /\ calls' \in [Catalogs -> Nat]
    BY <1>1 DEF IInv, TypeOK
  <2> QED
    BY Zenon, <1>1, <2>1, <2>4, <2>5, <2>6, <2>7, OnlyCall
<1> QED
  BY <1>2, <1>3
-----------------------------------------------------------------------------
\* The claim that a compare_exchange puts, whether its answer arrives or not: the
\* identity that the creation held is now the claim's.
LEMMA Claims ==
    ASSUME IInv, NEW c \in Catalogs, call[c].pc = "putclaim", claim[call[c].key] = NoClaim,
           claim' = [claim EXCEPT ![call[c].key] = MyClaim(c)],
           UNCHANGED <<sequence, entity, block, up, calls, minted, returned>>,
           call' \in [Catalogs -> CallType], Others(c),
           \/ call'[c] = NoCall
           \/ call'[c] = [call[c] EXCEPT !.pc = "record"]
    PROVE  IInv'
<1>1. /\ call[c].key \in Keys /\ call[c].print \in Creations
  BY DEF IInv, CallInv
<1>2. /\ call[c].id \in Ids /\ minted[call[c].id] = 1
      /\ \A k \in Keys : claim[k].id # call[c].id
      /\ \A d \in Catalogs : call[d].pc = "putclaim" /\ call[d].id = call[c].id => c = d
  BY DEF IInv, HeldInv
<1>3. claim \in [Keys -> [id : 0..MaxId, print : Creations \cup {None}]]
  BY DEF IInv, TypeOK
<1>4. MyClaim(c) \in [id : 0..MaxId, print : Creations \cup {None}] /\ MyClaim(c).id = call[c].id
      /\ MyClaim(c).print = call[c].print /\ MyClaim(c) # NoClaim
  BY <1>1, <1>2 DEF MyClaim, NoClaim, Ids
<1>5. /\ claim' \in [Keys -> [id : 0..MaxId, print : Creations \cup {None}]]
      /\ claim'[call[c].key] = MyClaim(c)
      /\ \A k \in Keys : k # call[c].key => claim'[k] = claim[k]
  BY <1>1, <1>3, <1>4
<1>6. /\ call'[c].pc \in {"idle", "record"}
      /\ call'[c].pc = "record" =>
          /\ call'[c].key = call[c].key /\ call'[c].id = call[c].id
          /\ call'[c].print = call[c].print
  <2>1. call[c] \in CallType
    BY DEF IInv, TypeOK, CallType
  <2>2. CASE call'[c] = NoCall
    BY <2>2 DEF NoCall
  <2>3. CASE call'[c] = [call[c] EXCEPT !.pc = "record"]
    BY <2>1, <2>3 DEF CallType
  <2> QED
    BY <2>2, <2>3
<1>7. TypeOK'
  BY <1>5 DEF IInv, TypeOK, CallType
<1>8. BlockInv'
  BY <1>6, BlockKept
<1>9. HeldInv'
  <2>1. ASSUME NEW d \in Catalogs, call'[d].pc = "putclaim"
        PROVE  /\ call'[d] = call[d] /\ call[d].pc = "putclaim" /\ call[d].id # call[c].id
    BY <1>2, <1>6, <2>1 DEF Others
  <2>2. ASSUME NEW d \in Catalogs, call'[d].pc = "putclaim"
        PROVE  /\ call'[d].id \in Ids /\ minted'[call'[d].id] = 1
               /\ \A k \in Keys : claim'[k].id # call'[d].id
    <3>1. /\ call[d].id \in Ids /\ minted[call[d].id] = 1
          /\ \A k \in Keys : claim[k].id # call[d].id
      BY <2>1, <2>2 DEF IInv, HeldInv
    <3> QED
      BY <1>4, <1>5, <2>1, <2>2, <3>1
  <2>3. ASSUME NEW d \in Catalogs, NEW e \in Catalogs, call'[d].pc = "putclaim",
               call'[e].pc = "putclaim", call'[e].id = call'[d].id
        PROVE  d = e
    BY <2>1, <2>3 DEF IInv, HeldInv
  <2>4. ASSUME NEW k \in Keys, claim'[k] # NoClaim
        PROVE  claim'[k].id \in Ids /\ claim'[k].print \in Creations /\ minted'[claim'[k].id] = 1
    <3>1. CASE k = call[c].key
      BY <1>1, <1>2, <1>4, <1>5, <3>1
    <3>2. CASE k # call[c].key
      BY <1>5, <2>4, <3>2 DEF IInv, HeldInv
    <3> QED
      BY <3>1, <3>2
  <2>5. ASSUME NEW k \in Keys, NEW l \in Keys, claim'[k] # NoClaim, claim'[l].id = claim'[k].id
        PROVE  k = l
    <3>1. CASE k # call[c].key /\ l # call[c].key
      BY <1>5, <2>5, <3>1 DEF IInv, HeldInv
    <3>2. CASE k = call[c].key \/ l = call[c].key
      BY <1>2, <1>4, <1>5, <2>5, <3>2
    <3> QED
      BY <3>1, <3>2
  <2> QED
    BY <2>2, <2>3, <2>4, <2>5 DEF HeldInv
<1>10. Durable
  BY <1>5 DEF Durable
<1>11. CallOne(c)'
  BY <1>1, <1>5, <1>6 DEF CallOne, MyClaim
<1>12. CallInv'
  BY <1>10, <1>11, CallsKept
<1>13. StoredInv'
  BY <1>10, StoredKept
<1> QED
  BY <1>7, <1>8, <1>9, <1>12, <1>13 DEF IInv

\* The claim is put, or another creation was first.
LEMMA PutsClaim ==
    ASSUME IInv, NEW c \in Catalogs, PutClaim(c)
    PROVE  IInv'
<1>1. /\ call[c].pc = "putclaim"
      /\ UNCHANGED <<sequence, entity, block, up, calls, minted, returned>>
  BY DEF PutClaim, At
<1>2. CASE claim[call[c].key] = NoClaim
  <2>1. claim' = [claim EXCEPT ![call[c].key] = MyClaim(c)] /\ Goto(c, "record")
    BY <1>2 DEF PutClaim
  <2>2. /\ call' \in [Catalogs -> CallType] /\ Others(c)
        /\ call'[c] = [call[c] EXCEPT !.pc = "record"]
    BY Zenon, <2>1, GotoFacts DEF IInv, Steps
  <2> QED
    BY Zenon, <1>1, <1>2, <2>1, <2>2, Claims
<1>3. CASE claim[call[c].key] # NoClaim
  <2>1. Goto(c, "reclaim") /\ UNCHANGED <<storage, block, up, calls, minted, returned>>
    BY <1>1, <1>3 DEF PutClaim, storage
  <2>2. "reclaim" \in Steps
    BY DEF Steps
  <2> QED
    BY <1>1, <1>3, <2>1, <2>2, Goes
<1> QED
  BY <1>2, <1>3

\* The claim is read: before anything is allocated, and again after a lost race.
LEMMA GetsClaim ==
    ASSUME IInv, NEW c \in Catalogs, GetClaim(c) \/ Reclaim(c)
    PROVE  IInv'
<1>1. /\ call[c].pc \in {"claim", "reclaim"}
      /\ UNCHANGED <<storage, block, up, calls, minted, returned>>
  BY DEF GetClaim, Reclaim, At
<1>2. call[c].pc = "reclaim" => claim[call[c].key] # NoClaim
  BY DEF IInv, CallInv
<1>3. CASE claim[call[c].key] = NoClaim
  <2>1. Goto(c, "allocate") /\ "allocate" \in Steps
    BY <1>1, <1>2, <1>3 DEF GetClaim, Reclaim, At, Steps
  <2> QED
    BY <1>1, <2>1, Goes
<1>4. CASE claim[call[c].key] # NoClaim
  <2>1. Claimed(c, claim[call[c].key])
    BY <1>4 DEF GetClaim, Reclaim, Winner
  <2> QED
    BY Zenon, <1>1, <1>4, <2>1, GoesOn
<1> QED
  BY <1>3, <1>4
-----------------------------------------------------------------------------
\* A record that a compare_exchange put, or that was there already: the creation may
\* return it, or die before it does.
LEMMA Returns ==
    ASSUME IInv, NEW c \in Catalogs, call[c].pc \in {"record", "putrecord", "rerecord"}, Throw(c),
           UNCHANGED <<sequence, claim, block, up, calls, minted>>,
           \/ entity' = entity
           \/ Vacant(c) /\ entity' = [entity EXCEPT ![call[c].id] = Initial(c)],
           \/ returned' = returned
           \/ Return(c) /\ entity'[call[c].id].print = call[c].print
    PROVE  IInv'
<1>1. call' \in [Catalogs -> CallType] /\ Others(c) /\ call'[c] = NoCall
  BY ThrowFacts DEF IInv
<1>2. call'[c].pc = "idle"
  BY <1>1 DEF NoCall
<1>3. /\ call[c].key \in Keys /\ call[c].print \in Creations /\ call[c].id \in Ids
      /\ claim[call[c].key] = MyClaim(c)
  BY ClaimFound
<1>4. entity \in [Ids -> [print : Creations \cup {None}, destroyed : BOOLEAN]]
  BY DEF IInv, TypeOK
<1>5. Initial(c) \in [print : Creations \cup {None}, destroyed : BOOLEAN]
      /\ Initial(c).print = call[c].print
  BY <1>3 DEF Initial
<1>6. /\ entity' \in [Ids -> [print : Creations \cup {None}, destroyed : BOOLEAN]]
      /\ \A i \in Ids : entity'[i] = entity[i] \/
             (i = call[c].id /\ entity[i] = NoEntity /\ entity'[i] = Initial(c))
  BY <1>3, <1>4, <1>5 DEF Vacant
<1>7. returned' = returned \/ returned' = returned \cup
          {[key |-> call[c].key, print |-> call[c].print, id |-> call[c].id]}
  BY DEF Return
<1>8. TypeOK'
  <2>1. returned' \subseteq [key : Keys, print : Creations, id : Ids]
    BY <1>3, <1>7 DEF IInv, TypeOK
  <2> QED
    BY <1>1, <1>6, <2>1 DEF IInv, TypeOK, CallType
<1>9. BlockInv'
  BY <1>1, <1>2, BlockKept
<1>10. HeldInv'
  BY <1>1, <1>2, HeldKept
<1>11. Durable
  BY <1>6 DEF Durable
<1>12. CallOne(c)'
  BY <1>2 DEF CallOne
<1>13. CallInv'
  BY <1>1, <1>11, <1>12, CallsKept
<1>14. StoredInv'
  <2>1. ASSUME NEW i \in Ids, entity'[i] # NoEntity, entity[i] = NoEntity
        PROVE  \E k \in Keys : claim'[k] = [id |-> i, print |-> entity'[i].print]
    <3>1. i = call[c].id /\ entity'[i].print = call[c].print
      BY <1>5, <1>6, <2>1
    <3> QED
      BY <1>3, <3>1 DEF MyClaim
  <2>2. ASSUME NEW r \in returned', r \notin returned
        PROVE  claim'[r.key] = [id |-> r.id, print |-> r.print] /\ entity'[r.id].print = r.print
    <3>1. /\ r = [key |-> call[c].key, print |-> call[c].print, id |-> call[c].id]
          /\ entity'[call[c].id].print = call[c].print
      BY <1>7, <2>2
    <3>2. r.key = call[c].key /\ r.print = call[c].print /\ r.id = call[c].id
      BY <3>1
    <3> QED
      BY <1>3, <3>1, <3>2 DEF MyClaim
  <2> QED
    BY <1>11, <2>1, <2>2, StoredKept
<1> QED
  BY <1>8, <1>9, <1>10, <1>13, <1>14 DEF IInv

\* A record that exists under the identity of the claim is that of this creation: the
\* error for a collision is not raised.
LEMMA Recognises ==
    ASSUME IInv, NEW c \in Catalogs, call[c].pc \in {"record", "putrecord", "rerecord"},
           entity[call[c].id] # NoEntity
    PROVE  entity[call[c].id].print = call[c].print
<1>1. /\ call[c].id \in Ids /\ claim[call[c].key] = MyClaim(c)
      /\ \A k \in Keys : claim[k].id = call[c].id => k = call[c].key
  BY ClaimFound
<1>2. PICK k \in Keys : claim[k] = [id |-> call[c].id, print |-> entity[call[c].id].print]
  BY <1>1 DEF IInv, StoredInv
<1>3. claim[k].id = call[c].id /\ claim[k].print = entity[call[c].id].print
  BY <1>2
<1> QED
  BY <1>1, <1>3 DEF MyClaim

\* The record is read, before the compare_exchange or after one that lost.
LEMMA GetsRecord ==
    ASSUME IInv, NEW c \in Catalogs, GetRecord(c) \/ GetAgain(c)
    PROVE  IInv'
<1>1. /\ call[c].pc \in {"record", "rerecord"} /\ UNCHANGED <<storage, block, up, calls, minted>>
  BY DEF GetRecord, GetAgain, At
<1>2. call[c].pc = "rerecord" => entity[call[c].id] # NoEntity
  BY DEF IInv, CallInv
<1>3. CASE entity[call[c].id] = NoEntity
  <2>1. Goto(c, "putrecord") /\ UNCHANGED returned /\ "putrecord" \in Steps
    BY <1>1, <1>2, <1>3 DEF GetRecord, GetAgain, At, Steps
  <2>2. claim[call[c].key] = MyClaim(c)
    BY <1>1, ClaimFound
  <2> QED
    BY <1>1, <2>1, <2>2, Goes
<1>4. CASE entity[call[c].id] # NoEntity
  <2>1. entity[call[c].id].print = call[c].print
    BY <1>1, <1>4, Recognises
  <2>2. Return(c)
    BY <1>4, <2>1 DEF GetRecord, GetAgain, Recognise
  <2>3. UNCHANGED <<sequence, claim, block, up, calls, minted>> /\ entity' = entity /\ Throw(c)
    BY <1>1, <2>2 DEF storage, Return
  <2> QED
    BY <1>1, <2>1, <2>2, <2>3, Returns
<1> QED
  BY <1>3, <1>4

\* The record is put, or another creation of the same key was first.
LEMMA PutsRecord ==
    ASSUME IInv, NEW c \in Catalogs, PutRecord(c)
    PROVE  IInv'
<1>1. /\ call[c].pc = "putrecord" /\ UNCHANGED <<sequence, claim, block, up, calls, minted>>
  BY DEF PutRecord, At
<1>2. call[c].id \in Ids /\ claim[call[c].key] = MyClaim(c)
  BY <1>1, ClaimFound
<1>3. CASE Vacant(c)
  <2>1. entity' = [entity EXCEPT ![call[c].id] = Initial(c)] /\ Return(c) /\ Throw(c)
    BY <1>3 DEF PutRecord, Return
  <2>2. entity'[call[c].id].print = call[c].print
    BY <1>2, <2>1 DEF IInv, TypeOK, Initial
  <2> QED
    BY Zenon, <1>1, <1>3, <2>1, <2>2, Returns
<1>4. CASE ~Vacant(c)
  <2>1. /\ Goto(c, "rerecord") /\ UNCHANGED <<storage, block, up, calls, minted, returned>>
        /\ entity[call[c].id] # NoEntity /\ "rerecord" \in Steps
    BY <1>1, <1>4 DEF PutRecord, storage, Vacant, Steps
  <2> QED
    BY <1>1, <1>2, <2>1, Goes
<1> QED
  BY <1>3, <1>4
-----------------------------------------------------------------------------
\* A reservation whose answer is lost: its block belongs to nobody.
LEMMA LosesBlock ==
    ASSUME IInv, NEW c \in Catalogs, call[c].pc = "reserve", sequence.version = call[c].version,
           sequence' = Reserved(call[c].high), Throw(c),
           UNCHANGED <<claim, entity, block, up, calls, minted, returned>>
    PROVE  IInv'
<1>1. call' \in [Catalogs -> CallType] /\ Others(c) /\ call'[c] = NoCall
  BY ThrowFacts DEF IInv
<1>2. call'[c].pc = "idle"
  BY <1>1 DEF NoCall
<1>3. /\ sequence' \in [version : Nat, high : 0..MaxId]
      /\ sequence.high < sequence'.high /\ sequence'.version = sequence.version + 1
  BY Zenon, ReservedFacts
<1>4. /\ sequence.version \in Nat /\ sequence.high \in 0..MaxId /\ sequence'.high \in 0..MaxId
  BY <1>3 DEF IInv, TypeOK
<1>5. TypeOK'
  BY <1>1, <1>3 DEF IInv, TypeOK, CallType
<1>6. BlockInv'
  <2>1. ASSUME NEW d \in Catalogs PROVE Rest(block[d]) \subseteq 1..sequence'.high
    <3>1. Rest(block[d]) \subseteq 1..sequence.high
      BY DEF IInv, BlockInv
    <3> QED
      BY <1>3, <1>4, <3>1
  <2>2. ASSUME NEW d \in Catalogs, call'[d].pc = "reserve"
        PROVE  /\ call'[d].version <= sequence'.version /\ call'[d].high < MaxId
               /\ call'[d].version # sequence'.version
    <3>1. call'[d] = call[d]
      BY <1>1, <1>2, <2>2 DEF Others
    <3>2. call[d].version <= sequence.version /\ call[d].high < MaxId
      BY <2>2, <3>1 DEF IInv, BlockInv
    <3>3. call[d].version \in Nat
      BY DEF IInv, TypeOK
    <3> QED
      BY <1>3, <1>4, <3>1, <3>2, <3>3
  <2>3. ASSUME NEW i \in Ids, i > sequence'.high PROVE minted[i] = 0
    <3>1. i > sequence.high
      BY <1>3, <1>4, <2>3 DEF Ids
    <3> QED
      BY <3>1 DEF IInv, BlockInv
  <2> QED
    BY <2>1, <2>2, <2>3 DEF IInv, BlockInv
<1>7. HeldInv'
  BY <1>1, <1>2, HeldKept
<1>8. Durable
  BY DEF Durable
<1>9. CallOne(c)'
  BY <1>2 DEF CallOne
<1>10. CallInv'
  BY <1>1, <1>8, <1>9, CallsKept
<1>11. StoredInv'
  BY <1>8, StoredKept
<1> QED
  BY <1>5, <1>6, <1>7, <1>10, <1>11 DEF IInv

\* An operation that throws, with or without its effect.
LEMMA Errs ==
    ASSUME IInv, NEW c \in Catalogs, Error(c) \/ ErrorApplied(c)
    PROVE  IInv'
<1>1. CASE Error(c)
  BY <1>1, Fails DEF Error
<1>2. CASE ErrorApplied(c)
  <2>1. Throw(c) /\ UNCHANGED <<block, up, calls, minted, returned>>
    BY <1>2 DEF ErrorApplied
  <2>2. CASE /\ call[c].pc = "reserve" /\ sequence.version = call[c].version
             /\ sequence' = Reserved(call[c].high) /\ UNCHANGED <<claim, entity>>
    BY Zenon, <2>1, <2>2, LosesBlock
  <2>3. CASE /\ call[c].pc = "putclaim" /\ claim[call[c].key] = NoClaim
             /\ claim' = [claim EXCEPT ![call[c].key] = MyClaim(c)]
             /\ UNCHANGED <<sequence, entity>>
    <3>1. call' \in [Catalogs -> CallType] /\ Others(c) /\ call'[c] = NoCall
      BY <2>1, ThrowFacts DEF IInv
    <3> QED
      BY Zenon, <2>1, <2>3, <3>1, Claims
  <2>4. CASE /\ call[c].pc = "putrecord" /\ Vacant(c)
             /\ entity' = [entity EXCEPT ![call[c].id] = Initial(c)]
             /\ UNCHANGED <<sequence, claim>>
    BY Zenon, <2>1, <2>4, Returns
  <2> QED
    BY <1>2, <2>2, <2>3, <2>4 DEF ErrorApplied
<1> QED
  BY <1>1, <1>2

\* A process that dies takes its block and its creation with it: the identities of the
\* block are lost, and what is stored stays.
LEMMA Crashes ==
    ASSUME IInv, NEW c \in Catalogs, Crash(c)
    PROVE  IInv'
<1>0. /\ Throw(c) /\ block' = [block EXCEPT ![c] = NoBlock]
      /\ up' = [up EXCEPT ![c] = FALSE]
      /\ UNCHANGED <<sequence, claim, entity, calls, minted, returned>>
  BY DEF Crash, storage
<1>1. call' \in [Catalogs -> CallType] /\ Others(c) /\ call'[c] = NoCall
  BY <1>0, ThrowFacts DEF IInv
<1>2. call'[c].pc = "idle"
  BY <1>1 DEF NoCall
<1>3. /\ \A d \in Catalogs : d # c => block'[d] = block[d]
      /\ block'[c] = NoBlock
  BY <1>0 DEF IInv, TypeOK
<1>4. TypeOK'
  <2>1. up' \in [Catalogs -> BOOLEAN]
    BY <1>0 DEF IInv, TypeOK
  <2>2. NoBlock \in [next : 0..MaxId, remaining : 0..MaxId]
    BY DEF NoBlock
  <2>3. block' \in [Catalogs -> [next : 0..MaxId, remaining : 0..MaxId]]
    BY <1>0, <2>2 DEF IInv, TypeOK
  <2> QED
    BY <1>0, <1>1, <2>1, <2>3 DEF IInv, TypeOK, CallType
<1>5. BlockInv'
  <2>1. Rest(block'[c]) = {}
    BY <1>3 DEF Rest, NoBlock
  <2>2. ASSUME NEW d \in Catalogs
        PROVE  /\ Rest(block'[d]) \subseteq 1..sequence.high
               /\ \A i \in Rest(block'[d]) : minted[i] = 0
               /\ \A e \in Catalogs : d # e => Rest(block'[d]) \cap Rest(block'[e]) = {}
    <3>1. CASE d = c
      BY <2>1, <3>1
    <3>2. CASE d # c
      BY <1>3, <2>1, <3>2 DEF IInv, BlockInv
    <3> QED
      BY <3>1, <3>2
  <2>3. ASSUME NEW d \in Catalogs, call'[d].pc = "reserve"
        PROVE  /\ call'[d].version <= sequence.version /\ call'[d].high < MaxId
               /\ call'[d].version = sequence.version => call'[d].high = sequence.high
    BY <1>1, <1>2, <2>3 DEF Others, IInv, BlockInv
  <2>4. \A i \in Ids : minted[i] <= 1 /\ (i > sequence.high => minted[i] = 0)
    BY DEF IInv, BlockInv
  <2> QED
    BY <1>0, <2>2, <2>3, <2>4 DEF BlockInv
<1>6. HeldInv'
  BY <1>0, <1>1, <1>2, HeldKept
<1>7. Durable
  BY <1>0 DEF Durable
<1>8. CallInv'
  <2>1. CallOne(c)'
    BY <1>2 DEF CallOne
  <2> QED
    BY <1>1, <1>7, <2>1, CallsKept
<1>9. StoredInv'
  BY <1>0, <1>7, StoredKept
<1> QED
  BY <1>4, <1>5, <1>6, <1>8, <1>9 DEF IInv

\* A tombstone keeps the record of its creation.
LEMMA Destroys ==
    ASSUME IInv, NEW i \in Ids, Destroy(i)
    PROVE  IInv'
<1>1. entity \in [Ids -> [print : Creations \cup {None}, destroyed : BOOLEAN]]
  BY DEF IInv, TypeOK
<1> DEFINE r == [entity[i] EXCEPT !.destroyed = TRUE]
<1>2. /\ r \in [print : Creations \cup {None}, destroyed : BOOLEAN]
      /\ r.print = entity[i].print /\ r.destroyed = TRUE
  BY Zenon, <1>1
<1>3. r # NoEntity
  BY <1>2 DEF NoEntity
<1>4. /\ entity' = [entity EXCEPT ![i] = r] /\ entity[i] # NoEntity
      /\ UNCHANGED <<sequence, claim, block, call, up, calls, minted, returned>>
  BY <1>1 DEF Destroy
<1> HIDE DEF r
<1>5. /\ entity' \in [Ids -> [print : Creations \cup {None}, destroyed : BOOLEAN]]
      /\ \A j \in Ids : entity'[j] = entity[j] \/ (j = i /\ entity'[j] = r)
  BY <1>1, <1>2, <1>4
<1>6. Durable
  BY <1>2, <1>3, <1>4, <1>5 DEF Durable
<1>7. TypeOK'
  BY <1>4, <1>5 DEF IInv, TypeOK
<1>8. BlockInv' /\ HeldInv'
  BY <1>4 DEF IInv, BlockInv, HeldInv
<1>9. ASSUME NEW c \in Catalogs PROVE CallOne(c)'
  <2>1. CallOne(c) /\ UNCHANGED <<call, claim>>
    BY <1>4 DEF IInv, CallInv, CallOne
  <2>2. call[c].pc = "rerecord" => entity'[call[c].id] # NoEntity
    BY <2>1, <1>6, ClaimFound DEF Durable, CallOne
  <2> QED
    BY <2>1, <2>2 DEF CallOne, MyClaim
<1>10. CallInv'
  BY <1>9 DEF CallInv, CallOne
<1>11. StoredInv'
  BY <1>4, <1>5, <1>6, StoredKept
<1> QED
  BY <1>7, <1>8, <1>10, <1>11 DEF IInv

\* Every step keeps the invariant.
LEMMA Inductive == IInv /\ [Next]_vars => IInv'
<1> SUFFICES ASSUME IInv, [Next]_vars PROVE IInv'
  OBVIOUS
<1>1. ASSUME NEW c \in Catalogs, NEW k \in Keys, NEW p \in Creations, Create(c, k, p)
      PROVE  IInv'
  BY <1>1, Creates
<1>2. ASSUME NEW c \in Catalogs, Step(c) PROVE IInv'
  BY <1>2, GetsClaim, AllocatesLocal, GetsSequence, Reserves, PutsClaim, GetsRecord, PutsRecord
     DEF Step
<1>3. ASSUME NEW c \in Catalogs, Error(c) \/ ErrorApplied(c) PROVE IInv'
  BY <1>3, Errs
<1>4. ASSUME NEW c \in Catalogs, Crash(c) PROVE IInv'
  BY <1>4, Crashes
<1>5. ASSUME NEW i \in Ids, Destroy(i) PROVE IInv'
  BY <1>5, Destroys
<1>6. CASE UNCHANGED vars
  <2>1. UNCHANGED <<sequence, claim, entity, block, call, up, calls, minted, returned>>
    BY <1>6 DEF vars, storage
  <2>2. TypeOK'
    BY <2>1 DEF IInv, TypeOK
  <2>3. BlockInv'
    BY <2>1 DEF IInv, BlockInv
  <2>4. HeldInv'
    BY <2>1 DEF IInv, HeldInv
  <2>5. CallInv'
    BY <2>1 DEF IInv, CallInv, MyClaim
  <2>6. StoredInv'
    BY <2>1 DEF IInv, StoredInv
  <2> QED
    BY <2>2, <2>3, <2>4, <2>5, <2>6 DEF IInv
<1> QED
  BY <1>1, <1>2, <1>3, <1>4, <1>5, <1>6 DEF Next

\* It holds before the first creation.
LEMMA Initially == Init => IInv
<1> SUFFICES ASSUME Init PROVE IInv
  OBVIOUS
<1>1. \A c \in Catalogs : call[c] = NoCall /\ call[c].pc = "idle" /\ block[c] = NoBlock
  BY DEF Init, NoCall
<1>2. TypeOK
  <2>1. NoCall \in CallType
    BY DEF NoCall, CallType, Steps
  <2>2. call \in [Catalogs -> CallType]
    BY <2>1 DEF Init
  <2> QED
    BY <2>2 DEF Init, TypeOK, NoBlock, NoClaim, NoEntity, CallType
<1>3. BlockInv
  <2>1. \A c \in Catalogs : Rest(block[c]) = {}
    BY <1>1 DEF Rest, NoBlock
  <2> QED
    BY <1>1, <2>1 DEF Init, BlockInv, Ids
<1>4. HeldInv
  BY <1>1 DEF Init, HeldInv
<1>5. CallInv
  BY <1>1 DEF CallInv
<1>6. StoredInv
  BY DEF Init, StoredInv
<1> QED
  BY <1>2, <1>3, <1>4, <1>5, <1>6 DEF IInv

\* create() keeps what it promises, for any number of catalogs, keys and identities:
\* no identity is allocated twice, a creation key names one entity for ever, what is
\* returned is stored, and no error for damaged records is ever raised.
THEOREM CreationIsSafe == Spec => []CatalogSafe
<1>1. IInv => CatalogSafe
  <2> SUFFICES ASSUME IInv PROVE CatalogSafe
    OBVIOUS
  <2>1. TypeOK /\ UniqueIds
    BY DEF IInv, BlockInv, UniqueIds
  <2>2. ReturnedIsStored /\ Recognisable
    BY Zenon DEF IInv, StoredInv, CallInv, ReturnedIsStored, Recognisable
  <2>3. ASSUME NEW r \in returned, NEW s \in returned
        PROVE  /\ r.key = s.key => r.id = s.id /\ r.print = s.print
               /\ r.id = s.id => r.key = s.key
    <3>1. /\ claim[r.key] = [id |-> r.id, print |-> r.print]
          /\ claim[s.key] = [id |-> s.id, print |-> s.print]
      BY DEF IInv, StoredInv
    <3>2. /\ claim[r.key].id = r.id /\ claim[r.key].print = r.print
          /\ claim[s.key].id = s.id /\ claim[s.key].print = s.print
      BY <3>1
    <3>3. /\ r.key \in Keys /\ s.key \in Keys /\ r.id \in Ids
      BY DEF IInv, TypeOK
    <3>4. claim[r.key] # NoClaim
      BY <3>2, <3>3 DEF NoClaim, Ids
    <3> QED
      BY <3>2, <3>3, <3>4 DEF IInv, HeldInv
  <2> QED
    BY <2>1, <2>2, <2>3 DEF CatalogSafe, OneEntityPerKey
<1> QED
  BY <1>1, Initially, Inductive, PTL DEF Spec

\* A stored record is never written again by a creation, and a destroyed identity stays
\* destroyed, whatever creations retry under its key.
THEOREM NothingIsResurrected == Spec => NeverResurrected
<1> DEFINE Kept == \A i \in Ids : entity[i] # NoEntity =>
               entity'[i] \in {entity[i], [entity[i] EXCEPT !.destroyed = TRUE]}
<1>1. IInv /\ [Next]_vars => [Kept]_vars
  <2> SUFFICES ASSUME IInv, Next PROVE Kept
    OBVIOUS
  <2>1. entity \in [Ids -> [print : Creations \cup {None}, destroyed : BOOLEAN]]
    BY DEF IInv, TypeOK
  <2>2. ASSUME NEW c \in Catalogs, Vacant(c),
               entity' = [entity EXCEPT ![call[c].id] = Initial(c)]
        PROVE  Kept
    BY <2>1, <2>2 DEF Vacant
  <2>3. ASSUME NEW i \in Ids, Destroy(i) PROVE Kept
    BY Zenon, <2>1, <2>3 DEF Destroy
  <2>4. CASE entity' = entity
    BY <2>4
  <2>5. \/ entity' = entity \/ \E i \in Ids : Destroy(i)
        \/ \E c \in Catalogs : Vacant(c) /\ entity' = [entity EXCEPT ![call[c].id] = Initial(c)]
    BY Zenon DEF Next, Step, Create, GetClaim, AllocateLocal, GetSequence, Reserve, PutClaim, Reclaim,
           GetRecord, PutRecord, GetAgain, Error, ErrorApplied, Crash, storage
  <2> QED
    BY <2>2, <2>3, <2>4, <2>5
<1> QED
  BY <1>1, Initially, Inductive, PTL DEF Spec, NeverResurrected
=============================================================================
