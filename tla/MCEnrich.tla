------------------------------ MODULE MCEnrich ------------------------------
(* u and v are two deliveries of one authoritative record, p is a post.     *)
EXTENDS Enrich, TLC

CONSTANTS u, v, p, quake, post

MCKeyOf == (u :> quake) @@ (v :> quake) @@ (p :> post)

MCClassOf == (u :> "authoritative") @@ (v :> "authoritative") @@ (p :> "social")

OneNak    == [k \in FaultKinds |-> IF k = "nak" THEN 1 ELSE 0]
OneOfEach == [k \in FaultKinds |-> IF k \in {"stop", "flush", "insert"} THEN 0 ELSE 1]
=============================================================================
