--------------------------- MODULE AttributeDelta ---------------------------
(***************************************************************************)
(* Updates of attribute images: how attribute_delta() describes the change *)
(* between two images, and how AttributeReplica::apply() carries it out.   *)
(*                                                                         *)
(* A value is a scalar, a struct (fixed keys), a map (any keys) or an      *)
(* array. The code picks, at each subtree, the cheapest description by its *)
(* encoded size. Here every choice it compares is possible: what is shown  *)
(* does not depend on the encoding.                                        *)
(***************************************************************************)
EXTENDS Integers, Sequences, FiniteSets, SequencesExt, Functions, TLC

Scalar(x) == [kind |-> "scalar", content |-> x]
Struct(f) == [kind |-> "struct", content |-> f]
Map(f) == [kind |-> "map", content |-> f]
Array(s) == [kind |-> "array", content |-> s]

\* AttributePatch: at a path, a replacement, an entry of a map, or a splice of an array.
Replace(path, v) == [op |-> "replace", path |-> path, value |-> v]
Put(path, k, v) == [op |-> "put", path |-> path, key |-> k, value |-> v]
Erase(path, k) == [op |-> "erase", path |-> path, key |-> k]
Splice(path, at, count, items) ==
    [op |-> "splice", path |-> path, index |-> at, remove |-> count, insert |-> items]
-----------------------------------------------------------------------------
(***************************************************************************)
(* Describing a change.                                                    *)
(***************************************************************************)
\* The lengths of the common prefix, and of the common suffix after it.
Common(s, t, n) == CHOOSE m \in 0..n : (\A k \in 1..m : s[k] = t[k]) /\ (m = n \/ s[m + 1] # t[m + 1])
Least(a, b) == IF a < b THEN a ELSE b
PrefixLength(old, new) == Common(old, new, Least(Len(old), Len(new)))
SuffixLengthMutant(old, new) == Common(Reverse(old), Reverse(new), Least(Len(old), Len(new)))
SuffixLength(old, new) ==
    Common(Reverse(old), Reverse(new), Least(Len(old), Len(new)) - PrefixLength(old, new))

SpliceOf(path, old, new) ==
    LET p == PrefixLength(old, new)
        s == SuffixLength(old, new)
    IN Splice(path, p, Len(old) - p - s, SubSeq(new, p + 1, Len(new) - s))

\* All ways to put one description after another.
Joined(A, B) == {a \o b : a \in A, b \in B}

\* diff_fields(): the descriptions it may return, each a sequence of patches.
RECURSIVE DiffFields(_, _, _)
RECURSIVE Fields(_, _, _, _)

\* The edits of the entries at the keys in ks.
Fields(path, old, new, ks) ==
    IF ks = <<>> THEN {<<>>}
    ELSE Joined(DiffFields(Append(path, Head(ks)), old[Head(ks)], new[Head(ks)]),
                Fields(path, old, new, Tail(ks)))

Sorted(S) == SetToSortSeq(S, <)

MapEdits(path, old, new) ==
    LET erased == Sorted(DOMAIN old \ DOMAIN new)
        added == Sorted(DOMAIN new \ DOMAIN old)
    IN Joined({[i \in DOMAIN erased |-> Erase(path, erased[i])]},
              Joined(Fields(path, old, new, Sorted(DOMAIN old \cap DOMAIN new)),
                     {[i \in DOMAIN added |-> Put(path, added[i], new[added[i]])]}))

ArrayEdits(path, old, new) ==
    {<<SpliceOf(path, old, new)>>}
    \cup (IF Len(old) = Len(new) THEN Fields(path, old, new, [i \in DOMAIN old |-> i]) ELSE {})

DiffFields(path, old, new) ==
    IF old = new THEN {<<>>}
    ELSE {<<Replace(path, new)>>} \cup
         (CASE old.kind # new.kind \/ old.kind = "scalar" -> {}
            [] old.kind = "struct" ->
                 IF DOMAIN old.content = DOMAIN new.content
                 THEN Fields(path, old.content, new.content, Sorted(DOMAIN old.content)) ELSE {}
            [] old.kind = "map" -> MapEdits(path, old.content, new.content)
            [] old.kind = "array" -> ArrayEdits(path, old.content, new.content))

\* container_delta(): a root container is spliced, or its entries are replaced.
ContainerEdits(old, new) ==
    CASE old.kind = "array" /\ new.kind = "array" -> <<SpliceOf(<<>>, old.content, new.content)>>
      [] old.kind = "map" /\ new.kind = "map" ->
           LET erased == Sorted(DOMAIN old.content \ DOMAIN new.content)
               put == Sorted({k \in DOMAIN new.content :
                                ~(k \in DOMAIN old.content /\ old.content[k] = new.content[k])})
           IN [i \in DOMAIN erased |-> Erase(<<>>, erased[i])]
              \o [i \in DOMAIN put |-> Put(<<>>, put[i], new.content[put[i]])]
      [] OTHER -> <<Replace(<<>>, new)>>

\* An update: the attributes it replaces, and patches of others.
Update(snapshot, values, patches) == [snapshot |-> snapshot, values |-> values, patches |-> patches]

Changed(old, new) == {n \in DOMAIN new : ~(n \in DOMAIN old /\ old[n] = new[n])}

\* The update that describes attributes by patches as in edits, and replaces the others.
Described(new, changed, edits) ==
    LET whole == {n \in changed : n \notin DOMAIN edits \/ edits[n] = <<Replace(<<>>, new[n])>>}
        ns == SetToSeq(changed \ whole)
        Of(n) == [j \in DOMAIN edits[n] |-> [at |-> n, patch |-> edits[n][j]]]
    IN Update(FALSE, Restrict(new, whole), FlattenSeq([i \in DOMAIN ns |-> Of(ns[i])]))

\* attribute_delta(): the updates it may return; a full image if an attribute is gone.
\* What an update is based on is modelled in AttributeReplication.
AttributeDeltas(prev, next) ==
    LET changed == Changed(prev, next)
        kept == changed \cap DOMAIN prev
        choices == {f \in [kept -> UNION {DiffFields(<<>>, prev[n], next[n]) : n \in kept}] :
                      \A n \in kept : f[n] \in DiffFields(<<>>, prev[n], next[n])}
    IN IF ~(DOMAIN prev \subseteq DOMAIN next) THEN {Update(TRUE, next, <<>>)}
       ELSE {Update(FALSE, Restrict(next, changed), <<>>),
             Described(next, changed, [n \in kept |-> ContainerEdits(prev[n], next[n])])}
            \cup {Described(next, changed, f) : f \in choices}

\* attribute_write_delta(): the proposals for the values a client submits; attributes
\* that it submits unchanged stay in them.
AttributeWriteDeltas(confirmed, values) ==
    LET before == Restrict(confirmed, DOMAIN confirmed \cap DOMAIN values)
        same == {n \in DOMAIN before : before[n] = values[n]}
    IN {Update(FALSE, values, <<>>)} \cup
       {[u EXCEPT !.values = @ @@ Restrict(values, same)] : u \in AttributeDeltas(before, values)}
-----------------------------------------------------------------------------
(***************************************************************************)
(* Carrying it out.                                                        *)
(***************************************************************************)
Patched(v, p) ==
    CASE p.op = "replace" -> p.value
      [] p.op = "put" -> [v EXCEPT !.content = (p.key :> p.value) @@ @]
      [] p.op = "erase" -> [v EXCEPT !.content = Restrict(@, DOMAIN @ \ {p.key})]
      [] p.op = "splice" ->
           [v EXCEPT !.content = SubSeq(@, 1, p.index) \o p.insert \o SubSeq(@, p.index + p.remove + 1, Len(@))]

\* The value with the patch carried out at the end of a path.
RECURSIVE At(_, _, _)
At(v, path, p) ==
    IF path = <<>> THEN Patched(v, p)
    ELSE [v EXCEPT !.content = [@ EXCEPT ![Head(path)] = At(@, Tail(path), p)]]

\* Materialized one patch after the other, on top of the attributes that are replaced.
Materialized(values, u) ==
    FoldLeft(LAMBDA acc, q : (q.at :> At(IF q.at \in DOMAIN acc THEN acc[q.at] ELSE values[q.at],
                                         q.patch.path, q.patch)) @@ acc,
             u.values, u.patches)

\* AttributeReplica::apply(), of an update that is not refused.
Apply(values, u) == IF u.snapshot THEN u.values ELSE Materialized(values, u) @@ values

\* stage_attribute_proposal(): the server's values of the attributes that a proposal names.
Staged(values, u) ==
    Restrict(Apply(values, u), DOMAIN u.values \cup {u.patches[i].at : i \in DOMAIN u.patches})
-----------------------------------------------------------------------------
(***************************************************************************)
(* The images that are tried: an array, and a struct with a map, which may *)
(* be hidden from the replica. The replica follows commits of the server   *)
(* and proposes values of its own.                                         *)
(***************************************************************************)
CONSTANT MaxLength   \* bound: the length of the array

VARIABLES
    image,     \* the server's image, as far as the replica may see it
    replica,   \* the client's replica
    asked      \* the values of the last proposal

vars == <<image, replica, asked>>

Partial(K, V) == UNION {[S -> V] : S \in SUBSET K}
Arrays == {Array(s) : s \in SeqOf({Map(<<>>), Map(<<Scalar(0)>>)}, MaxLength)}
Structs == {Struct(<<Map(f)>>) : f \in Partial({1, 2}, {Scalar(0), Array(<<Scalar(0)>>)})}
Visible == [{"a"} -> Arrays] \cup {[a |-> x, b |-> y] : x \in Arrays, y \in Structs}
Proposals == [{"a"} -> Arrays] \cup [{"b"} -> Structs]

Init == image \in Visible /\ replica = image /\ asked = <<>>

\* A commit, and the update the replica is sent for it.
Commit ==
    /\ image' \in Visible
    /\ replica' \in {Apply(replica, u) : u \in AttributeDeltas(image, image')}
    /\ asked' = <<>>

\* A client's write: staged by the server, committed, and replicated.
Write ==
    \E values \in Proposals :
       /\ DOMAIN values \subseteq DOMAIN image
       /\ \E u \in AttributeWriteDeltas(replica, values) : image' = Staged(image, u) @@ image
       /\ replica' \in {Apply(replica, u) : u \in AttributeDeltas(image, image')}
       /\ asked' = values

Next == Commit \/ Write

Spec == Init /\ [][Next]_vars

\* A replica that applied the update for a commit has the committed image: whichever of
\* the descriptions attribute_delta() finds cheapest, patches of nested values included.
ReplicaFollows == replica = image

\* What a client proposes is what the server stages, although it is sent as patches of
\* what the client believes the values to be.
ProposalMeansValues == \A n \in DOMAIN asked : image[n] = asked[n]
=============================================================================
