------------------------------ MODULE MCCluster ------------------------------
(***************************************************************************)
(* Small instances of Cluster.  a and b are social posts of two platforms, *)
(* b a copy of a; c is a local report from a third feed, which b links to, *)
(* so b ties a and c into one origin; r is an authoritative record whose   *)
(* page c cites, which clusters with c only and backs what a claims.       *)
(***************************************************************************)
EXTENDS Cluster, TLC

CONSTANTS a, b, c, r, link, page

Post(source, class, author, bits, urls) ==
    [source |-> source, class |-> class, author |-> author, bits |-> bits,
     urls |-> urls, parent |-> None, hash |-> None, wire |-> None]

MCNode ==
    (a :> Post(1, "social", "alice", {1, 2}, {})) @@
    (b :> Post(2, "social", "bob", {1, 2, 3}, {link})) @@
    (c :> Post(3, "local_news", "kxyz", {7, 8, 9}, {link, page})) @@
    (r :> Post(4, "authoritative", None, {4, 5, 6}, {page}))

MCBacks == [i \in Items |-> IF i = a THEN {r} \cap Items ELSE {}]

NoBacks == [i \in Items |-> {}]

MCMergeable == {{i, j} : i, j \in Items} \ {{a, r}, {b, r}}

Symmetry == Permutations(Stories)
=============================================================================
