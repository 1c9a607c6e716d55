----------------------------- MODULE Provenance -----------------------------
(***************************************************************************)
(* The pure rules of libs/trust: which two members of a Story depend on    *)
(* each other, how members collapse into independent origins, and which    *)
(* trust state the evidence implies.  No state: Node gives the provenance  *)
(* projection of every item, fixed when the item is enriched.              *)
(*                                                                         *)
(* An absent string is None.  A simhash is the set of its bits that are 1  *)
(* (the empty set is "no usable text"), a source is its alphabetical rank  *)
(* (0 is the empty name), every other field is an opaque value.            *)
(***************************************************************************)
EXTENDS Integers, FiniteSets

CONSTANTS Items,            \* item ids
          Node,             \* [Items -> ProvNode]
          None,             \* an absent string
          CopyHammingMax,   \* COPY_HAMMING_MAX
          CorroborationN,   \* CORROBORATION_N
          MinSources        \* CORROBORATION_SOURCES

SourceClasses ==
    {"social", "authoritative", "primary", "mainstream", "local_news"}

ASSUME ItemsAssumption == IsFiniteSet(Items)

ASSUME NodeAssumption ==
    \A i \in Items : /\ Node[i].class \in SourceClasses
                     /\ Node[i].source \in Nat

ASSUME ThresholdAssumption == CorroborationN \in Nat /\ MinSources \in Nat

----------------------------------------------------------------------------
(* Dependency edges                                                        *)

\* ProvNode.origin_key
OriginKey(i) ==
    LET n == Node[i] IN
    IF n.wire # None /\ n.class \in {"local_news", "mainstream"}
    THEN <<"wire", n.wire>>
    ELSE IF n.author # None THEN <<"author", n.author>>
    ELSE IF n.class # "social" THEN <<"src", n.source>>
    ELSE None

Hamming(x, y) == Cardinality((x \ y) \cup (y \ x))

\* One disjunct per edge type: REF, COPY, URL, AUTHOR.
Depends(i, j) ==
    LET x == Node[i]
        y == Node[j]
    IN  \/ x.parent # None /\ x.parent = y.hash
        \/ y.parent # None /\ y.parent = x.hash
        \/ x.bits # {} /\ y.bits # {} /\ Hamming(x.bits, y.bits) <= CopyHammingMax
        \/ x.urls \cap y.urls # {}
        \/ x.author # None /\ x.author = y.author

\* Mutant: only explicit references make an edge, copies and shared links do not.
ReferencesOnly(new, members) ==
    {<<new, m>> : m \in {x \in members \ {new} : Node[new].parent # None
                                                /\ Node[new].parent = Node[x].hash}}

\* The type of an edge is stored and never read by the count, so it is left out.
DetectEdges(new, members) ==
    {<<new, m>> : m \in {x \in members \ {new} : Depends(new, x)}}

----------------------------------------------------------------------------
(* Independent origins                                                     *)

\* The pairs of members that one origin holds together: a stored edge whose
\* two ends are members, or an origin key in common.
Linked(members, edges) ==
    {p \in members \X members :
        \/ p \in edges
        \/ <<p[2], p[1]>> \in edges
        \/ OriginKey(p[1]) # None /\ OriginKey(p[1]) = OriginKey(p[2])}

\* The origin of i: what every set holding i and closed under Linked contains.
Component(i, members, edges) ==
    LET linked == Linked(members, edges)
        Closed(S) == \A p \in linked : p[1] \in S => p[2] \in S
    IN  {j \in members :
            \A S \in SUBSET members : (i \in S /\ Closed(S)) => j \in S}

OriginComponents(members, edges) ==
    {Component(i, members, edges) : i \in members}

IndependentOrigins(members, edges) ==
    Cardinality(OriginComponents(members, edges))

\* Every origin stands for one source, the alphabetically first it spans.
DistinctOriginSources(members, edges) ==
    LET Named(comp) == {Node[i].source : i \in comp} \ {0}
        First(S)    == CHOOSE x \in S : \A y \in S : x <= y
    IN  Cardinality({First(Named(comp)) :
            comp \in {k \in OriginComponents(members, edges) : Named(k) # {}}})

----------------------------------------------------------------------------
(* Trust states                                                            *)

TrustStates == {"rumor", "corroborated", "primary_backed"}

Rank == [rumor |-> 0, corroborated |-> 1, primary_backed |-> 2]

\* Mutant: any record in the Story is a match, a social claim is not asked for.
AnyRecordMatches(members) ==
    \E i \in members : Node[i].class \in {"authoritative", "primary"}

InStoryPrimaryMatch(members) ==
    /\ \E i \in members : Node[i].class = "social"
    /\ \E i \in members : Node[i].class \in {"authoritative", "primary"}

\* The state the evidence implies, before the floor.
Implied(origins, sources, primaryMatched) ==
    IF primaryMatched THEN "primary_backed"
    ELSE IF origins >= CorroborationN /\ sources >= MinSources
    THEN "corroborated"
    ELSE "rumor"

\* Mutant: the state is recomputed from the evidence, without the floor.
UnflooredState(current, implied) == implied

\* next_state: what the evidence implies, floored at the current state.
NextState(current, implied) ==
    IF Rank[implied] > Rank[current] THEN implied ELSE current

IsCandidate(origins) == origins >= 2
=============================================================================
