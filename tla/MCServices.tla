----------------------------- MODULE MCServices -----------------------------
(***************************************************************************)
(* The services that act on entities from outside of their hosts, side by  *)
(* side: creations by two catalogs; commands from one entity to another    *)
(* with two workers; handoffs and creations among three nodes.  They share *)
(* nothing, so a behaviour moves one of them, named by part, and the       *)
(* others stay in their initial states.                                    *)
(***************************************************************************)
EXTENDS EntityCatalog, Sequences

CONSTANTS c1, c2, k1, k2, v1, v2, e1, e2, j1, j2, w1, w2, n1, n2, n3

VARIABLES
    part,
    record, registry, holder, job, attempt, sources, budget, received,
    xRecord, slot, draining, op, asked, starts, faults, homes, answers

D == INSTANCE EntityDelivery WITH
    Entities <- {e1, e2}, Routes <- {<<e1, e2>>}, Mortal <- {e1, e2},
    Workers <- {w1, w2}, Jobs <- {j1, j2}, MaxSends <- 2, MaxCalls <- 2, MaxFaults <- 1

X == INSTANCE EntityTransfer WITH
    Nodes <- {n1, n2, n3}, MaxStarts <- 2, MaxFaults <- 1, record <- xRecord, calls <- asked

deliveryVars == <<record, registry, holder, job, attempt, sources, budget, received>>
transferVars == <<xRecord, slot, draining, op, asked, starts, faults, homes, answers>>
allVars == <<part, vars, deliveryVars, transferVars>>

\* Only the transfers have a choice of initial states.
AllInit ==
    /\ part \in {"catalog", "delivery", "transfer"}
    /\ Init /\ D!Init /\ X!Init
    /\ part # "transfer" => xRecord.placement = None

\* Catalogs, keys and creations are alike: the first to create is c1, v1 under k1.
FirstNamed ==
    (\A c \in Catalogs : calls[c] = 0) /\ calls' # calls =>
        calls'[c1] = 1 /\ call'[c1].key = k1 /\ call'[c1].print = v1

AllNext ==
    \/ part = "catalog" /\ Next /\ FirstNamed /\ UNCHANGED <<part, deliveryVars, transferVars>>
    \/ part = "delivery" /\ D!Next /\ UNCHANGED <<part, vars, transferVars>>
    \/ part = "transfer" /\ X!Next /\ UNCHANGED <<part, vars, deliveryVars>>

AllSpec == AllInit /\ [][AllNext]_allVars
-----------------------------------------------------------------------------
\* EntityDelivery: the target commits each command once and in order, a result that the
\* source sees is the one the target committed, and every source with an outbox is in the
\* registry, whatever is retried, duplicated, lost or destroyed.
DeliverySafe == part = "delivery" =>
    D!TypeOK /\ D!ExactlyOnceInOrder /\ D!TruthfulResult /\ D!Discoverable

\* EntityTransfer: ok means that the target activated the entity under the handoff that
\* the operation released or resumed.
TransferSafe == part = "transfer" =>
    X!TypeOK /\ X!OkMeansActivated

\* EntityDelivery: a command leaves the outbox only when it was acknowledged or its source
\* was destroyed. EntityTransfer: a committed destination is changed only by a release on
\* that node.
CommittedIsKept == D!KeptUntilDone /\ X!OnlyHomeReleases
=============================================================================
