---------------------------- MODULE MCEntityHost ----------------------------
(* Instances of EntityHost for TLC: the attempts each run offers. *)
EXTENDS EntityHost, FiniteSetsExt, TLC

CONSTANTS h1, h2, n1, n2, a1, a2, a3, a4, a5

OneNode == [h \in Hosts |-> n1]
TwoNodes == [h \in Hosts |-> IF h = h1 THEN n1 ELSE n2]
ToSecond == [a \in Attempts |-> n2]
NoIds == [a \in Attempts |-> None]
Plain == [a \in Attempts |-> "p"]

\* Two attempts of one write, and other writes with receipts of other sizes: the receipt of
\* a3 leaves no room for another.
RetryKind == [a \in Attempts |-> "write"]
RetryId == a1 :> "x" @@ a2 :> "x" @@ a3 :> "y" @@ a4 :> "z"
RetryBody == a1 :> "p" @@ a2 :> "p" @@ a3 :> "q" @@ a4 :> "q"
RetryBytes == a1 :> 1 @@ a2 :> 1 @@ a3 :> 3 @@ a4 :> 1
RetryFitting == {S \in SUBSET Attempts : MapThenSumSet(LAMBDA a : RetryBytes[a], S) <= 3}
RetrySymmetry == Permutations({h1, h2}) \cup Permutations({a1, a2})

\* Elsewhere the bytes of receipts never matter.
AllFit == SUBSET Attempts

\* A handoff to the second node, its acceptance, the destruction, and calls around them.
HandoffKind ==
    a1 :> "write" @@ a2 :> "handoff" @@ a3 :> "accept" @@ a4 :> "read" @@ a5 :> "destroy"

\* Deactivation, a destruction and calls that race with them.
ReleaseKind == a1 :> "write" @@ a2 :> "deactivate" @@ a3 :> "destroy" @@ a4 :> "read"

\* Metadata-only commits between calls.
BindKind == a1 :> "write" @@ a2 :> "bind" @@ a3 :> "read" @@ a4 :> "read"
HostSymmetry == Permutations({h1, h2})

\* A retry that overlaps the eviction of its receipt.
EvictKind == a1 :> "write" @@ a2 :> "write" @@ a3 :> "write" @@ a4 :> "read"
EvictId == a1 :> "x" @@ a2 :> "x" @@ a3 :> "y" @@ a4 :> None
=============================================================================
