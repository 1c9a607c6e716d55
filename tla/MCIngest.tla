------------------------------ MODULE MCIngest ------------------------------
(* The second record of a is the post that b shows first; the third raises, *)
(* as a press release does whose guid is longer than the schema allows.     *)
(* With what b shows there is one post more than the LRU holds: mastodon    *)
(* reads the fourth record again when it is forgotten.                      *)
EXTENDS Ingest, TLC

CONSTANTS a, b

MCHosts == <<a, b>>

MCSupply == (a :> 4) @@ (b :> 3)

MCPost == [r \in Records |-> IF r = <<b, 1>> THEN <<a, 2>> ELSE r]

MCWorth == [r \in Records |-> CASE r = <<a, 3>> -> "raises"
                                [] r = <<a, 1>> -> "unusable"
                                [] OTHER -> "item"]

OneOfEach == [k \in FaultKinds |-> 1]
=============================================================================
