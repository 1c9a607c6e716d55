----------------------------- MODULE StoryLedger -----------------------------
(***************************************************************************)
(* What the clustering path promises, with no workers and no steps in      *)
(* between: every item is filed once, in a Story that is open; a Story     *)
(* once open stays open; the trust level of a Story rises, and falls only  *)
(* where the trust worker's grant, not the clusterer, had raised it.       *)
(***************************************************************************)
EXTENDS Integers

CONSTANTS Items, Stories, NoStory

VARIABLES filed,    \* [Items -> Stories \cup {NoStory}]
          opened,   \* Stories that exist
          level,    \* [Stories -> 0..2]
          granted   \* Stories the trust worker ever put on the top level

ledger == <<filed, opened, level, granted>>

Init ==
    /\ filed = [i \in Items |-> NoStory]
    /\ opened = {}
    /\ level = [s \in Stories |-> 0]
    /\ granted = {}

Open(s) ==
    /\ s \notin opened
    /\ opened' = opened \cup {s}
    /\ UNCHANGED <<filed, level, granted>>

File(i, s) ==
    /\ filed[i] = NoStory
    /\ s \in opened
    /\ filed' = [filed EXCEPT ![i] = s]
    /\ UNCHANGED <<opened, level, granted>>

Rise(s) ==
    /\ s \in opened
    /\ \E l \in 0..2 : l > level[s] /\ level' = [level EXCEPT ![s] = l]
    /\ UNCHANGED <<filed, opened, granted>>

Grant(s) ==
    /\ s \in opened
    /\ level' = [level EXCEPT ![s] = 2]
    /\ granted' = granted \cup {s}
    /\ UNCHANGED <<filed, opened>>

\* The grant is overwritten by a clusterer that had read an older state.
LoseGrant(s) ==
    /\ s \in granted
    /\ level[s] = 2
    /\ \E l \in 0..1 : level' = [level EXCEPT ![s] = l]
    /\ UNCHANGED <<filed, opened, granted>>

Next == \E s \in Stories : \/ Open(s) \/ Rise(s) \/ Grant(s) \/ LoseGrant(s)
                            \/ \E i \in Items : File(i, s)

Spec == Init /\ [][Next]_ledger
=============================================================================
