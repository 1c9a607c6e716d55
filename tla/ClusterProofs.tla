---------------------------- MODULE ClusterProofs ----------------------------
(***************************************************************************)
(* What holds of Cluster for every set of items, Stories and instances.    *)
(***************************************************************************)
EXTENDS Cluster, FiniteSetTheorems, TLAPS

----------------------------------------------------------------------------
(* Operators                                                               *)

\* next_state never ranks below the state it starts from.
LEMMA NextStateFloor ==
    ASSUME NEW s \in TrustStates, NEW t \in TrustStates
    PROVE  /\ NextState(s, t) \in TrustStates
           /\ Rank[NextState(s, t)] >= Rank[s]
  BY DEF NextState, TrustStates, Rank

\* The state the evidence implies is one of the three.
LEMMA ImpliedType ==
    ASSUME NEW n, NEW m, NEW b
    PROVE  Implied(n, m, b) \in TrustStates
  BY DEF Implied, TrustStates

\* Counting origins of a set of items gives a number.
LEMMA OriginCountType ==
    ASSUME NEW members \in SUBSET Items, NEW stars
    PROVE  IndependentOrigins(members, stars) \in Nat
<1>1. IsFiniteSet(members)
  BY ItemsAssumption, FS_Subset
<1>2. OriginComponents(members, stars) \in SUBSET (SUBSET members)
  BY DEF OriginComponents, Component
<1>3. IsFiniteSet(OriginComponents(members, stars))
  BY <1>1, <1>2, FS_SUBSET, FS_Subset
<1> QED
  BY <1>3, FS_CardinalityType DEF IndependentOrigins

\* nearest and choose_story return the Story of some item, or none.
LEMMA TargetIsStory ==
    ASSUME NEW i \in Items, NEW target \in Targets(i)
    PROVE  target = NoStory \/ \E j \in Items : target = storyOf[j]
  BY Zenon DEF Targets

----------------------------------------------------------------------------
(* Types                                                                   *)

\* A handler that runs has a message, and past the assignment it has a Story; the
\* trust worker has a claim whenever it is busy.
Located ==
    /\ \A c \in Clusterers :
          /\ pc[c] # "idle" => msg[c] \in Items
          /\ pc[c] \notin {"idle", "assign"} => sid[c] \in Stories
    /\ wpc # "idle" => wclaim \in Claim

Typed == TypeOK /\ Located

\* The steps of a clusterer keep the types.
LEMMA ClustererType ==
    ASSUME Typed, NEW c \in Clusterers, Clusterer(c) \/ Fail(c)
    PROVE  Typed'
<1> USE DEF Typed, Located, TypeOK, Goto, Release, Fault, db, local, worker,
            PCs, TrustStates, Claim
<1>1. ASSUME NEW i \in Items, Nearest(c, i) PROVE Typed'
  <2>1. ASSUME NEW t \in Targets(i) PROVE t \in Stories \cup {NoStory}
    BY <2>1, TargetIsStory
  <2>2. PICK target \in Targets(i) : sid' = [sid EXCEPT ![c] = target]
    BY <1>1 DEF Nearest
  <2>3. faults' \in 0..MaxFaults
    BY <1>1, FaultAssumption DEF Nearest
  <2>4. /\ msg' \in [Clusterers -> Items \cup {NoItem}]
        /\ pc' \in [Clusterers -> PCs]
        /\ pc'[c] = "assign" /\ msg'[c] = i
        /\ \A d \in Clusterers \ {c} :
              pc'[d] = pc[d] /\ msg'[d] = msg[d] /\ sid'[d] = sid[d]
    BY <1>1 DEF Nearest
  <2> QED
    BY <1>1, <2>1, <2>2, <2>3, <2>4 DEF Nearest
<1>2. ASSUME AssignMissing(c) PROVE Typed'
  BY <1>2 DEF AssignMissing
<1>3. ASSUME AssignJoin(c) PROVE Typed'
  BY <1>3 DEF AssignJoin
<1>4. ASSUME AssignNew(c) PROVE Typed'
  BY <1>4 DEF AssignNew
<1>5. ASSUME CreateStory(c) PROVE Typed'
  BY <1>5 DEF CreateStory
<1>6. ASSUME TouchRead(c) PROVE Typed'
  BY <1>6 DEF TouchRead
<1>7. ASSUME TouchWrite(c) PROVE Typed'
  BY <1>7 DEF TouchWrite
<1>8. ASSUME StoryProv(c) PROVE Typed'
  <2>1. Members(sid[c]) \in SUBSET Items
    BY DEF Members
  <2>2. Cardinality(Members(sid[c])) \in Nat
    BY <2>1, ItemsAssumption, FS_Subset, FS_CardinalityType
  <2> QED
    BY <1>8, <2>1, <2>2 DEF StoryProv
<1>9. ASSUME InsertEdges(c) PROVE Typed'
  BY <1>9 DEF InsertEdges, DetectEdges
<1>10. ASSUME ReadEdges(c) PROVE Typed'
  <2>1. snap[c] \in SUBSET Items
    OBVIOUS
  <2>2. IndependentOrigins(snap[c], StoryEdges(sid[c])) \in Nat
    BY <2>1, OriginCountType
  <2> QED
    BY <1>10, <2>2, ImpliedType DEF ReadEdges
<1>11. ASSUME ReadState(c) PROVE Typed'
  BY <1>11, NextStateFloor DEF ReadState
<1>12. ASSUME UpdateTrust(c) PROVE Typed'
  BY <1>12 DEF UpdateTrust
<1>13. ASSUME PublishClaim(c) PROVE Typed'
  BY <1>13 DEF PublishClaim
<1>14. ASSUME Ack(c) PROVE Typed'
  BY <1>14 DEF Ack
<1>15. ASSUME Fail(c) PROVE Typed'
  BY <1>15, FaultAssumption DEF Fail
<1> QED
  BY <1>1, <1>2, <1>3, <1>4, <1>5, <1>6, <1>7,
     <1>8, <1>9, <1>10, <1>11, <1>12, <1>13, <1>14, <1>15 DEF Clusterer

\* The steps of the db-writer, claimx and the trust worker keep the types.
LEMMA WorkerType ==
    ASSUME Typed
    PROVE  /\ \A i \in Items : InsertItem(i) \/ PublishAgain(i) => Typed'
           /\ \A cl \in Claim : BlankClaim(cl) \/ ClaimItem(cl) => Typed'
           /\ MatchRecord \/ PromotePrimaryBacked \/ WorkerAck \/ WorkerFail => Typed'
<1> USE DEF Typed, Located, TypeOK, Fault, db, local, worker, TrustStates, Claim
<1>1. ASSUME NEW i \in Items, InsertItem(i) PROVE Typed'
  BY <1>1 DEF InsertItem
<1>2. ASSUME NEW cl \in Claim, BlankClaim(cl) PROVE Typed'
  BY <1>2 DEF BlankClaim
<1>3. ASSUME NEW cl \in Claim, ClaimItem(cl) PROVE Typed'
  BY <1>3 DEF ClaimItem
<1>4. ASSUME MatchRecord PROVE Typed'
  BY <1>4 DEF MatchRecord
<1>5. ASSUME PromotePrimaryBacked PROVE Typed'
  BY <1>5 DEF PromotePrimaryBacked
<1>6. ASSUME WorkerAck PROVE Typed'
  BY <1>6 DEF WorkerAck
<1>7. ASSUME WorkerFail PROVE Typed'
  BY <1>7, FaultAssumption DEF WorkerFail
<1>8. ASSUME NEW i \in Items, PublishAgain(i) PROVE Typed'
  BY <1>8, FaultAssumption DEF PublishAgain
<1> QED
  BY <1>1, <1>2, <1>3, <1>4, <1>5, <1>6, <1>7, <1>8

\* Every reachable state is typed, and a handler that runs knows what it works on.
THEOREM AlwaysTyped == Spec => []Typed
<1>1. Init => Typed
  BY FaultAssumption DEF Init, Typed, TypeOK, Located, PCs, TrustStates
<1>2. Typed /\ [Next]_vars => Typed'
  <2> SUFFICES ASSUME Typed, [Next]_vars PROVE Typed'
    OBVIOUS
  <2>1. CASE Next
    BY <2>1, ClustererType, WorkerType DEF Next, TrustWorker
  <2>2. CASE UNCHANGED vars
    BY <2>2 DEF vars, db, local, worker, Typed, TypeOK, Located
  <2> QED
    BY <2>1, <2>2
<1> QED
  BY <1>1, <1>2, PTL DEF Spec

\* The variables of Cluster keep the types that TypeOK gives them.
THEOREM TypeCorrect == Spec => []TypeOK
<1>1. Typed => TypeOK
  BY DEF Typed
<1> QED
  BY <1>1, AlwaysTyped, PTL

----------------------------------------------------------------------------
(* Filing                                                                  *)

\* Past the assignment the handler's item is in a Story, and nothing ever takes
\* an item out of all Stories.
Filed ==
    /\ \A c \in Clusterers :
          pc[c] \notin {"idle", "assign"} => storyOf[msg[c]] # NoStory
    /\ SettledIsFiled

\* Filed is inductive.
LEMMA AlwaysFiled == Spec => []Filed
<1>1. Init => Filed
  BY DEF Init, Filed, SettledIsFiled, Settled
<1>2. Typed /\ Filed /\ [Next]_vars => Filed'
  <2> SUFFICES ASSUME Typed, Filed, [Next]_vars PROVE Filed'
    OBVIOUS
  <2> USE NoStoryAssumption
      DEF Typed, Located, TypeOK, Filed, SettledIsFiled, Settled, Goto, Release, db,
          local, worker
  <2>1. ASSUME NEW c \in Clusterers, NEW i \in Items, Nearest(c, i) PROVE Filed'
    BY <2>1 DEF Nearest
  <2>2. ASSUME NEW c \in Clusterers, AssignMissing(c) PROVE Filed'
    BY <2>2 DEF AssignMissing
  <2>3. ASSUME NEW c \in Clusterers, AssignJoin(c) PROVE Filed'
    BY <2>3 DEF AssignJoin
  <2>4. ASSUME NEW c \in Clusterers, AssignNew(c) PROVE Filed'
    BY <2>4 DEF AssignNew
  <2>5. ASSUME NEW c \in Clusterers, CreateStory(c) PROVE Filed'
    BY <2>5 DEF CreateStory
  <2>6. ASSUME NEW c \in Clusterers, TouchRead(c) PROVE Filed'
    BY <2>6 DEF TouchRead
  <2>7. ASSUME NEW c \in Clusterers, TouchWrite(c) PROVE Filed'
    BY <2>7 DEF TouchWrite
  <2>8. ASSUME NEW c \in Clusterers, StoryProv(c) PROVE Filed'
    BY <2>8 DEF StoryProv
  <2>9. ASSUME NEW c \in Clusterers, InsertEdges(c) PROVE Filed'
    BY <2>9 DEF InsertEdges
  <2>10. ASSUME NEW c \in Clusterers, ReadEdges(c) PROVE Filed'
    BY <2>10 DEF ReadEdges
  <2>11. ASSUME NEW c \in Clusterers, ReadState(c) PROVE Filed'
    BY <2>11 DEF ReadState
  <2>12. ASSUME NEW c \in Clusterers, UpdateTrust(c) PROVE Filed'
    BY <2>12 DEF UpdateTrust
  <2>13. ASSUME NEW c \in Clusterers, PublishClaim(c) PROVE Filed'
    BY <2>13 DEF PublishClaim
  <2>14. ASSUME NEW c \in Clusterers, Ack(c) PROVE Filed'
    BY <2>14 DEF Ack
  <2>15. ASSUME NEW c \in Clusterers, Fail(c) PROVE Filed'
    BY <2>15 DEF Fail
  <2>16. ASSUME NEW i \in Items, InsertItem(i) PROVE Filed'
    BY <2>16 DEF InsertItem
  <2>17. ASSUME NEW cl \in Claim, BlankClaim(cl) PROVE Filed'
    BY <2>17 DEF BlankClaim
  <2>18. ASSUME NEW cl \in Claim, ClaimItem(cl) PROVE Filed'
    BY <2>18 DEF ClaimItem
  <2>19. ASSUME MatchRecord PROVE Filed'
    BY <2>19 DEF MatchRecord
  <2>20. ASSUME PromotePrimaryBacked PROVE Filed'
    BY <2>20 DEF PromotePrimaryBacked
  <2>21. ASSUME WorkerAck PROVE Filed'
    BY <2>21 DEF WorkerAck
  <2>22. ASSUME WorkerFail PROVE Filed'
    BY <2>22 DEF WorkerFail
  <2>23. ASSUME NEW i \in Items, PublishAgain(i) PROVE Filed'
    BY <2>23 DEF PublishAgain
  <2>24. CASE UNCHANGED vars
    BY <2>24 DEF vars
  <2> QED
    BY <2>1, <2>2, <2>3, <2>4, <2>5, <2>6, <2>7, <2>8, <2>9, <2>10, <2>11,
       <2>12, <2>13, <2>14, <2>15, <2>16, <2>17, <2>18, <2>19, <2>20, <2>21,
       <2>22, <2>23, <2>24
       DEF Next, Clusterer, TrustWorker
<1> QED
  BY <1>1, <1>2, AlwaysTyped, PTL DEF Spec

\* No message is acked before its item is in a Story, for any number of
\* instances and failures (cluster/main.py: a lost race with the writer raises).
THEOREM AckedIsFiled == Spec => []SettledIsFiled
<1>1. Filed => SettledIsFiled
  BY DEF Filed
<1> QED
  BY <1>1, AlwaysFiled, PTL

----------------------------------------------------------------------------
(* One instance of the cluster service, as deployed                        *)

Solo == \A c, d \in Clusterers : c = d

\* The message a lone handler works on is still in the queue: nobody else acks.
Holding == \A c \in Clusterers : pc[c] # "idle" => msg[c] \in queue

LEMMA AlwaysHolding == ASSUME Solo PROVE Spec => []Holding
<1>1. Init => Holding
  BY DEF Init, Holding
<1>2. Typed /\ Holding /\ [Next]_vars => Holding'
  <2> SUFFICES ASSUME Typed, Holding, [Next]_vars PROVE Holding'
    OBVIOUS
  <2> USE DEF Solo, Typed, TypeOK, Holding, Goto, Release, db, local, worker
  <2>1. ASSUME NEW c \in Clusterers, NEW i \in Items, Nearest(c, i) PROVE Holding'
    BY <2>1 DEF Nearest
  <2>2. ASSUME NEW c \in Clusterers, AssignMissing(c) PROVE Holding'
    BY <2>2 DEF AssignMissing
  <2>3. ASSUME NEW c \in Clusterers, AssignJoin(c) PROVE Holding'
    BY <2>3 DEF AssignJoin
  <2>4. ASSUME NEW c \in Clusterers, AssignNew(c) PROVE Holding'
    BY <2>4 DEF AssignNew
  <2>5. ASSUME NEW c \in Clusterers, CreateStory(c) PROVE Holding'
    BY <2>5 DEF CreateStory
  <2>6. ASSUME NEW c \in Clusterers, TouchRead(c) PROVE Holding'
    BY <2>6 DEF TouchRead
  <2>7. ASSUME NEW c \in Clusterers, TouchWrite(c) PROVE Holding'
    BY <2>7 DEF TouchWrite
  <2>8. ASSUME NEW c \in Clusterers, StoryProv(c) PROVE Holding'
    BY <2>8 DEF StoryProv
  <2>9. ASSUME NEW c \in Clusterers, InsertEdges(c) PROVE Holding'
    BY <2>9 DEF InsertEdges
  <2>10. ASSUME NEW c \in Clusterers, ReadEdges(c) PROVE Holding'
    BY <2>10 DEF ReadEdges
  <2>11. ASSUME NEW c \in Clusterers, ReadState(c) PROVE Holding'
    BY <2>11 DEF ReadState
  <2>12. ASSUME NEW c \in Clusterers, UpdateTrust(c) PROVE Holding'
    BY <2>12 DEF UpdateTrust
  <2>13. ASSUME NEW c \in Clusterers, PublishClaim(c) PROVE Holding'
    BY <2>13 DEF PublishClaim
  <2>14. ASSUME NEW c \in Clusterers, Ack(c) PROVE Holding'
    BY <2>14 DEF Ack
  <2>15. ASSUME NEW c \in Clusterers, Fail(c) PROVE Holding'
    BY <2>15 DEF Fail
  <2>16. ASSUME NEW i \in Items, InsertItem(i) PROVE Holding'
    BY <2>16 DEF InsertItem
  <2>17. ASSUME NEW cl \in Claim, BlankClaim(cl) PROVE Holding'
    BY <2>17 DEF BlankClaim
  <2>18. ASSUME NEW cl \in Claim, ClaimItem(cl) PROVE Holding'
    BY <2>18 DEF ClaimItem
  <2>19. ASSUME MatchRecord PROVE Holding'
    BY <2>19 DEF MatchRecord
  <2>20. ASSUME PromotePrimaryBacked PROVE Holding'
    BY <2>20 DEF PromotePrimaryBacked
  <2>21. ASSUME WorkerAck PROVE Holding'
    BY <2>21 DEF WorkerAck
  <2>22. ASSUME WorkerFail PROVE Holding'
    BY <2>22 DEF WorkerFail
  <2>23. ASSUME NEW i \in Items, PublishAgain(i) PROVE Holding'
    BY <2>23 DEF PublishAgain
  <2>24. CASE UNCHANGED vars
    BY <2>24 DEF vars
  <2> QED
    BY <2>1, <2>2, <2>3, <2>4, <2>5, <2>6, <2>7, <2>8, <2>9, <2>10, <2>11,
       <2>12, <2>13, <2>14, <2>15, <2>16, <2>17, <2>18, <2>19, <2>20, <2>21,
       <2>22, <2>23, <2>24
       DEF Next, Clusterer, TrustWorker
<1> QED
  BY <1>1, <1>2, AlwaysTyped, PTL DEF Spec

\* With one instance an item moves only while a message about it is unacked, however
\* often enrich publishes it: only the handler that holds such a message assigns it.
THEOREM SoloSettledStays == ASSUME Solo PROVE Spec => SettledStays
<1> DEFINE Stays == \A i \in Items : Settled(i) => storyOf'[i] = storyOf[i]
<1>1. Typed /\ Holding /\ [Next]_vars => [Stays]_vars
  <2> SUFFICES ASSUME Typed, Holding, [Next]_vars PROVE Stays
    OBVIOUS
  <2> USE DEF Typed, Located, TypeOK, Holding, Settled, Goto, Release, db, local,
            worker
  <2>1. ASSUME NEW c \in Clusterers, NEW i \in Items, Nearest(c, i) PROVE Stays
    BY <2>1 DEF Nearest
  <2>2. ASSUME NEW c \in Clusterers, AssignMissing(c) PROVE Stays
    BY <2>2 DEF AssignMissing
  <2>3. ASSUME NEW c \in Clusterers, AssignJoin(c) PROVE Stays
    BY <2>3 DEF AssignJoin
  <2>4. ASSUME NEW c \in Clusterers, AssignNew(c) PROVE Stays
    BY <2>4 DEF AssignNew
  <2>5. ASSUME NEW c \in Clusterers, CreateStory(c) PROVE Stays
    BY <2>5 DEF CreateStory
  <2>6. ASSUME NEW c \in Clusterers, TouchRead(c) PROVE Stays
    BY <2>6 DEF TouchRead
  <2>7. ASSUME NEW c \in Clusterers, TouchWrite(c) PROVE Stays
    BY <2>7 DEF TouchWrite
  <2>8. ASSUME NEW c \in Clusterers, StoryProv(c) PROVE Stays
    BY <2>8 DEF StoryProv
  <2>9. ASSUME NEW c \in Clusterers, InsertEdges(c) PROVE Stays
    BY <2>9 DEF InsertEdges
  <2>10. ASSUME NEW c \in Clusterers, ReadEdges(c) PROVE Stays
    BY <2>10 DEF ReadEdges
  <2>11. ASSUME NEW c \in Clusterers, ReadState(c) PROVE Stays
    BY <2>11 DEF ReadState
  <2>12. ASSUME NEW c \in Clusterers, UpdateTrust(c) PROVE Stays
    BY <2>12 DEF UpdateTrust
  <2>13. ASSUME NEW c \in Clusterers, PublishClaim(c) PROVE Stays
    BY <2>13 DEF PublishClaim
  <2>14. ASSUME NEW c \in Clusterers, Ack(c) PROVE Stays
    BY <2>14 DEF Ack
  <2>15. ASSUME NEW c \in Clusterers, Fail(c) PROVE Stays
    BY <2>15 DEF Fail
  <2>16. ASSUME NEW i \in Items, InsertItem(i) PROVE Stays
    BY <2>16 DEF InsertItem
  <2>17. ASSUME NEW cl \in Claim, BlankClaim(cl) PROVE Stays
    BY <2>17 DEF BlankClaim
  <2>18. ASSUME NEW cl \in Claim, ClaimItem(cl) PROVE Stays
    BY <2>18 DEF ClaimItem
  <2>19. ASSUME MatchRecord PROVE Stays
    BY <2>19 DEF MatchRecord
  <2>20. ASSUME PromotePrimaryBacked PROVE Stays
    BY <2>20 DEF PromotePrimaryBacked
  <2>21. ASSUME WorkerAck PROVE Stays
    BY <2>21 DEF WorkerAck
  <2>22. ASSUME WorkerFail PROVE Stays
    BY <2>22 DEF WorkerFail
  <2>23. ASSUME NEW i \in Items, PublishAgain(i) PROVE Stays
    BY <2>23 DEF PublishAgain
  <2>24. CASE UNCHANGED vars
    BY <2>24 DEF vars
  <2> QED
    BY <2>1, <2>2, <2>3, <2>4, <2>5, <2>6, <2>7, <2>8, <2>9, <2>10, <2>11,
       <2>12, <2>13, <2>14, <2>15, <2>16, <2>17, <2>18, <2>19, <2>20, <2>21,
       <2>22, <2>23, <2>24
       DEF Next, Clusterer, TrustWorker
<1> QED
  BY <1>1, AlwaysTyped, AlwaysHolding, PTL DEF Spec, SettledStays

\* What a Story's state may become: no lower, unless the state it has came from
\* the trust worker.
NoLower(s, t) ==
    \/ Rank[t] >= Rank[trust[s]]
    \/ trust[s] = "primary_backed" /\ s \in promoted

\* What a lone handler is about to write was floored at the state it read, and
\* only the trust worker can have raised that state since.
Floored ==
    \A c \in Clusterers : pc[c] = "update" => NoLower(sid[c], state[c])

LEMMA AlwaysFloored == ASSUME Solo PROVE Spec => []Floored
<1>1. Init => Floored
  BY DEF Init, Floored
<1>2. Typed /\ Floored /\ [Next]_vars => Floored'
  <2> SUFFICES ASSUME Typed, Floored, [Next]_vars PROVE Floored'
    OBVIOUS
  <2> USE DEF Solo, Typed, Located, TypeOK, Floored, NoLower, TrustStates, Rank,
              Goto, Release, db, local, worker
  <2>1. ASSUME NEW c \in Clusterers, NEW i \in Items, Nearest(c, i) PROVE Floored'
    BY <2>1 DEF Nearest
  <2>2. ASSUME NEW c \in Clusterers, AssignMissing(c) PROVE Floored'
    BY <2>2 DEF AssignMissing
  <2>3. ASSUME NEW c \in Clusterers, AssignJoin(c) PROVE Floored'
    BY <2>3 DEF AssignJoin
  <2>4. ASSUME NEW c \in Clusterers, AssignNew(c) PROVE Floored'
    BY <2>4 DEF AssignNew
  <2>5. ASSUME NEW c \in Clusterers, CreateStory(c) PROVE Floored'
    BY <2>5 DEF CreateStory
  <2>6. ASSUME NEW c \in Clusterers, TouchRead(c) PROVE Floored'
    BY <2>6 DEF TouchRead
  <2>7. ASSUME NEW c \in Clusterers, TouchWrite(c) PROVE Floored'
    BY <2>7 DEF TouchWrite
  <2>8. ASSUME NEW c \in Clusterers, StoryProv(c) PROVE Floored'
    BY <2>8 DEF StoryProv
  <2>9. ASSUME NEW c \in Clusterers, InsertEdges(c) PROVE Floored'
    BY <2>9 DEF InsertEdges
  <2>10. ASSUME NEW c \in Clusterers, ReadEdges(c) PROVE Floored'
    BY <2>10 DEF ReadEdges
  <2>11. ASSUME NEW c \in Clusterers, ReadState(c) PROVE Floored'
    BY <2>11, NextStateFloor DEF ReadState
  <2>12. ASSUME NEW c \in Clusterers, UpdateTrust(c) PROVE Floored'
    BY <2>12 DEF UpdateTrust
  <2>13. ASSUME NEW c \in Clusterers, PublishClaim(c) PROVE Floored'
    BY <2>13 DEF PublishClaim
  <2>14. ASSUME NEW c \in Clusterers, Ack(c) PROVE Floored'
    BY <2>14 DEF Ack
  <2>15. ASSUME NEW c \in Clusterers, Fail(c) PROVE Floored'
    BY <2>15 DEF Fail
  <2>16. ASSUME NEW i \in Items, InsertItem(i) PROVE Floored'
    BY <2>16 DEF InsertItem
  <2>17. ASSUME NEW cl \in Claim, BlankClaim(cl) PROVE Floored'
    BY <2>17 DEF BlankClaim
  <2>18. ASSUME NEW cl \in Claim, ClaimItem(cl) PROVE Floored'
    BY <2>18 DEF ClaimItem
  <2>19. ASSUME MatchRecord PROVE Floored'
    BY <2>19 DEF MatchRecord
  <2>20. ASSUME PromotePrimaryBacked PROVE Floored'
    BY <2>20 DEF PromotePrimaryBacked
  <2>21. ASSUME WorkerAck PROVE Floored'
    BY <2>21 DEF WorkerAck
  <2>22. ASSUME WorkerFail PROVE Floored'
    BY <2>22 DEF WorkerFail
  <2>23. ASSUME NEW i \in Items, PublishAgain(i) PROVE Floored'
    BY <2>23 DEF PublishAgain
  <2>24. CASE UNCHANGED vars
    BY <2>24 DEF vars
  <2> QED
    BY <2>1, <2>2, <2>3, <2>4, <2>5, <2>6, <2>7, <2>8, <2>9, <2>10, <2>11,
       <2>12, <2>13, <2>14, <2>15, <2>16, <2>17, <2>18, <2>19, <2>20, <2>21,
       <2>22, <2>23, <2>24
       DEF Next, Clusterer, TrustWorker
<1> QED
  BY <1>1, <1>2, AlwaysTyped, PTL DEF Spec

\* With one instance a Story loses nothing that the clusterer established: the
\* only thing its stale write can take away is a promotion of the trust worker.
THEOREM SoloTrustIsKept == ASSUME Solo PROVE Spec => OnlyPromotionsAreLost
<1> DEFINE Kept == \A s \in Stories : NoLower(s, trust'[s])
<1>1. Typed /\ Floored /\ [Next]_vars => [Kept]_vars
  <2> SUFFICES ASSUME Typed, Floored, [Next]_vars PROVE Kept
    OBVIOUS
  <2> USE DEF Typed, Located, TypeOK, Floored, NoLower, TrustStates, Rank, db,
              local, worker
  <2>1. ASSUME NEW c \in Clusterers, NEW i \in Items, Nearest(c, i) PROVE Kept
    BY <2>1 DEF Nearest
  <2>2. ASSUME NEW c \in Clusterers, AssignMissing(c) PROVE Kept
    BY <2>2 DEF AssignMissing
  <2>3. ASSUME NEW c \in Clusterers, AssignJoin(c) PROVE Kept
    BY <2>3 DEF AssignJoin
  <2>4. ASSUME NEW c \in Clusterers, AssignNew(c) PROVE Kept
    BY <2>4 DEF AssignNew
  <2>5. ASSUME NEW c \in Clusterers, CreateStory(c) PROVE Kept
    BY <2>5 DEF CreateStory
  <2>6. ASSUME NEW c \in Clusterers, TouchRead(c) PROVE Kept
    BY <2>6 DEF TouchRead
  <2>7. ASSUME NEW c \in Clusterers, TouchWrite(c) PROVE Kept
    BY <2>7 DEF TouchWrite
  <2>8. ASSUME NEW c \in Clusterers, StoryProv(c) PROVE Kept
    BY <2>8 DEF StoryProv
  <2>9. ASSUME NEW c \in Clusterers, InsertEdges(c) PROVE Kept
    BY <2>9 DEF InsertEdges
  <2>10. ASSUME NEW c \in Clusterers, ReadEdges(c) PROVE Kept
    BY <2>10 DEF ReadEdges
  <2>11. ASSUME NEW c \in Clusterers, ReadState(c) PROVE Kept
    BY <2>11 DEF ReadState
  <2>12. ASSUME NEW c \in Clusterers, UpdateTrust(c) PROVE Kept
    BY <2>12 DEF UpdateTrust
  <2>13. ASSUME NEW c \in Clusterers, PublishClaim(c) PROVE Kept
    BY <2>13 DEF PublishClaim
  <2>14. ASSUME NEW c \in Clusterers, Ack(c) PROVE Kept
    BY <2>14 DEF Ack
  <2>15. ASSUME NEW c \in Clusterers, Fail(c) PROVE Kept
    BY <2>15 DEF Fail
  <2>16. ASSUME NEW i \in Items, InsertItem(i) PROVE Kept
    BY <2>16 DEF InsertItem
  <2>17. ASSUME NEW cl \in Claim, BlankClaim(cl) PROVE Kept
    BY <2>17 DEF BlankClaim
  <2>18. ASSUME NEW cl \in Claim, ClaimItem(cl) PROVE Kept
    BY <2>18 DEF ClaimItem
  <2>19. ASSUME MatchRecord PROVE Kept
    BY <2>19 DEF MatchRecord
  <2>20. ASSUME PromotePrimaryBacked PROVE Kept
    BY <2>20 DEF PromotePrimaryBacked
  <2>21. ASSUME WorkerAck PROVE Kept
    BY <2>21 DEF WorkerAck
  <2>22. ASSUME WorkerFail PROVE Kept
    BY <2>22 DEF WorkerFail
  <2>23. ASSUME NEW i \in Items, PublishAgain(i) PROVE Kept
    BY <2>23 DEF PublishAgain
  <2>24. CASE UNCHANGED vars
    BY <2>24 DEF vars
  <2> QED
    BY <2>1, <2>2, <2>3, <2>4, <2>5, <2>6, <2>7, <2>8, <2>9, <2>10, <2>11,
       <2>12, <2>13, <2>14, <2>15, <2>16, <2>17, <2>18, <2>19, <2>20, <2>21,
       <2>22, <2>23, <2>24
       DEF Next, Clusterer, TrustWorker
<1> QED
  BY <1>1, AlwaysTyped, AlwaysFloored, PTL DEF Spec, OnlyPromotionsAreLost, NoLower

----------------------------------------------------------------------------
(* Dependency edges                                                        *)

\* Depending on each other is symmetric, so either member may detect it.
LEMMA DependsIsSymmetric ==
    ASSUME NEW i \in Items, NEW j \in Items
    PROVE  Depends(i, j) <=> Depends(j, i)
<1>1. \A x, y : Hamming(x, y) = Hamming(y, x)
  <2>1. ASSUME NEW x, NEW y PROVE (x \ y) \cup (y \ x) = (y \ x) \cup (x \ y)
    OBVIOUS
  <2> QED
    BY <2>1, Zenon DEF Hamming
<1>2. \A x, y : x \cap y = y \cap x
  OBVIOUS
<1>3. /\ Hamming(Node[i].bits, Node[j].bits) = Hamming(Node[j].bits, Node[i].bits)
      /\ Node[i].urls \cap Node[j].urls = Node[j].urls \cap Node[i].urls
  BY <1>1, <1>2
<1> QED
  BY <1>3, Zenon DEF Depends

\* Only drawn uuids are in use, so a fresh one has no members.
OnlyMinted ==
    /\ \A i \in Items : storyOf[i] \in minted \cup {NoStory}
    /\ \A c \in Clusterers : sid[c] \in minted \cup {NoStory}

\* Stories are drawn in the step that first uses them.
LEMMA AlwaysMinted == Spec => []OnlyMinted
<1>1. Init => OnlyMinted
  BY DEF Init, OnlyMinted
<1>2. Typed /\ OnlyMinted /\ [Next]_vars => OnlyMinted'
  <2> SUFFICES ASSUME Typed, OnlyMinted, [Next]_vars PROVE OnlyMinted'
    OBVIOUS
  <2> USE DEF Typed, Located, TypeOK, OnlyMinted, Goto, Release, db, local, worker
  <2>1. ASSUME NEW c \in Clusterers, NEW k \in Items, Nearest(c, k) PROVE OnlyMinted'
    <3>1. PICK target \in Targets(k) : sid' = [sid EXCEPT ![c] = target]
      BY <2>1 DEF Nearest
    <3>2. target \in minted \cup {NoStory}
      BY TargetIsStory
    <3> QED
      BY <2>1, <3>1, <3>2 DEF Nearest
  <2>2. ASSUME NEW c \in Clusterers, AssignMissing(c) PROVE OnlyMinted'
    BY <2>2 DEF AssignMissing
  <2>3. ASSUME NEW c \in Clusterers, AssignJoin(c) PROVE OnlyMinted'
    BY <2>3 DEF AssignJoin
  <2>4. ASSUME NEW c \in Clusterers, AssignNew(c) PROVE OnlyMinted'
    BY <2>4 DEF AssignNew
  <2>5. ASSUME NEW c \in Clusterers, CreateStory(c) PROVE OnlyMinted'
    BY <2>5 DEF CreateStory
  <2>6. ASSUME NEW c \in Clusterers, TouchRead(c) PROVE OnlyMinted'
    BY <2>6 DEF TouchRead
  <2>7. ASSUME NEW c \in Clusterers, TouchWrite(c) PROVE OnlyMinted'
    BY <2>7 DEF TouchWrite
  <2>8. ASSUME NEW c \in Clusterers, StoryProv(c) PROVE OnlyMinted'
    BY <2>8 DEF StoryProv
  <2>9. ASSUME NEW c \in Clusterers, InsertEdges(c) PROVE OnlyMinted'
    BY <2>9 DEF InsertEdges
  <2>10. ASSUME NEW c \in Clusterers, ReadEdges(c) PROVE OnlyMinted'
    BY <2>10 DEF ReadEdges
  <2>11. ASSUME NEW c \in Clusterers, ReadState(c) PROVE OnlyMinted'
    BY <2>11 DEF ReadState
  <2>12. ASSUME NEW c \in Clusterers, UpdateTrust(c) PROVE OnlyMinted'
    BY <2>12 DEF UpdateTrust
  <2>13. ASSUME NEW c \in Clusterers, PublishClaim(c) PROVE OnlyMinted'
    BY <2>13 DEF PublishClaim
  <2>14. ASSUME NEW c \in Clusterers, Ack(c) PROVE OnlyMinted'
    BY <2>14 DEF Ack
  <2>15. ASSUME NEW c \in Clusterers, Fail(c) PROVE OnlyMinted'
    BY <2>15 DEF Fail
  <2>16. ASSUME NEW k \in Items, InsertItem(k) PROVE OnlyMinted'
    BY <2>16 DEF InsertItem
  <2>17. ASSUME NEW cl \in Claim, BlankClaim(cl) PROVE OnlyMinted'
    BY <2>17 DEF BlankClaim
  <2>18. ASSUME NEW cl \in Claim, ClaimItem(cl) PROVE OnlyMinted'
    BY <2>18 DEF ClaimItem
  <2>19. ASSUME MatchRecord PROVE OnlyMinted'
    BY <2>19 DEF MatchRecord
  <2>20. ASSUME PromotePrimaryBacked PROVE OnlyMinted'
    BY <2>20 DEF PromotePrimaryBacked
  <2>21. ASSUME WorkerAck PROVE OnlyMinted'
    BY <2>21 DEF WorkerAck
  <2>22. ASSUME WorkerFail PROVE OnlyMinted'
    BY <2>22 DEF WorkerFail
  <2>23. ASSUME NEW k \in Items, PublishAgain(k) PROVE OnlyMinted'
    BY <2>23 DEF PublishAgain
  <2>24. CASE UNCHANGED vars
    BY <2>24 DEF vars
  <2> QED
    BY <2>1, <2>2, <2>3, <2>4, <2>5, <2>6, <2>7, <2>8, <2>9, <2>10, <2>11, <2>12,
       <2>13, <2>14, <2>15, <2>16, <2>17, <2>18, <2>19, <2>20, <2>21, <2>22, <2>23, <2>24
       DEF Next, Clusterer, TrustWorker
<1> QED
  BY <1>1, <1>2, AlwaysTyped, PTL DEF Spec

\* The next handler of i has yet to assign it, and will write its edges then.
Pending(i) == i \in queue /\ \A c \in Clusterers : msg[c] = i => pc[c] = "assign"

\* The handler c of i will write the edge between i and j.
Owes(c, i, j) ==
    /\ msg[c] = i
    /\ sid[c] = storyOf[i]
    /\ pc[c] \in Unlinked
    /\ pc[c] = "edges" => j \in snap[c]

\* The edge between i and j is there or somebody is bound to write it.
Attended(i, j) ==
    \/ <<storyOf[i], i, j>> \in edges
    \/ <<storyOf[i], j, i>> \in edges
    \/ Pending(i)
    \/ Pending(j)
    \/ \E c \in Clusterers : Owes(c, i, j) \/ Owes(c, j, i)

AllAttended ==
    \A i, j \in Items :
        i # j /\ storyOf[i] # NoStory /\ storyOf[i] = storyOf[j] /\ Depends(i, j)
        => Attended(i, j)

\* Every step keeps the edges attended: a cut leaves the message to the next handler.
LEMMA AttendedStep ==
    ASSUME Typed, OnlyMinted, AllAttended, [Next /\ CutsAreUncontested]_vars
    PROVE  AllAttended'
<1> SUFFICES ASSUME NEW i \in Items, NEW j \in Items,
                    i # j, storyOf'[i] # NoStory, storyOf'[i] = storyOf'[j], Depends(i, j)
             PROVE Attended(i, j)'
  BY DEF AllAttended
<1> USE NoStoryAssumption, NoItemAssumption
    DEF Typed, Located, TypeOK, OnlyMinted, AllAttended, Attended, Owes, Pending,
        Unlinked, Goto, Release, db, local, worker, PCs
<1>0. Depends(j, i)
  BY DependsIsSymmetric
<1>1. ASSUME NEW c \in Clusterers, NEW k \in Items, Nearest(c, k) PROVE Attended(i, j)'
  BY <1>1 DEF Nearest
<1>2. ASSUME NEW c \in Clusterers, AssignMissing(c) PROVE Attended(i, j)'
  BY <1>2 DEF AssignMissing
<1>3. ASSUME NEW c \in Clusterers, AssignJoin(c) PROVE Attended(i, j)'
  BY <1>3 DEF AssignJoin
<1>4. ASSUME NEW c \in Clusterers, AssignNew(c) PROVE Attended(i, j)'
  BY <1>4 DEF AssignNew
<1>5. ASSUME NEW c \in Clusterers, CreateStory(c) PROVE Attended(i, j)'
  BY <1>5 DEF CreateStory
<1>6. ASSUME NEW c \in Clusterers, TouchRead(c) PROVE Attended(i, j)'
  BY <1>6 DEF TouchRead
<1>7. ASSUME NEW c \in Clusterers, TouchWrite(c) PROVE Attended(i, j)'
  BY <1>7 DEF TouchWrite
<1>8. ASSUME NEW c \in Clusterers, StoryProv(c) PROVE Attended(i, j)'
  BY <1>8 DEF StoryProv, Members
<1>9. ASSUME NEW c \in Clusterers, InsertEdges(c) PROVE Attended(i, j)'
  <2>1. /\ \A e \in edges : e \in edges'
        /\ \A m \in snap[c] : m # msg[c] /\ Depends(msg[c], m)
              => <<sid[c], msg[c], m>> \in edges'
    <3> DEFINE Written == {<<sid[c], e[1], e[2]>> : e \in DetectEdges(msg[c], snap[c])}
    <3>1. edges' = edges \cup Written
      BY <1>9 DEF InsertEdges
    <3>2. ASSUME NEW m \in snap[c], m # msg[c], Depends(msg[c], m)
          PROVE  <<sid[c], msg[c], m>> \in Written
      <4>1. <<msg[c], m>> \in DetectEdges(msg[c], snap[c])
        BY <3>2, Zenon DEF DetectEdges
      <4> QED
        BY <4>1
    <3> QED
      BY <3>1, <3>2
  <2>2. CASE Owes(c, i, j) \/ Owes(c, j, i)
    BY <1>0, <1>9, <2>1, <2>2 DEF InsertEdges
  <2>3. CASE ~Owes(c, i, j) /\ ~Owes(c, j, i)
    BY <1>9, <2>1, <2>3 DEF InsertEdges
  <2> QED
    BY <2>2, <2>3
<1>10. ASSUME NEW c \in Clusterers, ReadEdges(c) PROVE Attended(i, j)'
  BY <1>10 DEF ReadEdges
<1>11. ASSUME NEW c \in Clusterers, ReadState(c) PROVE Attended(i, j)'
  BY <1>11 DEF ReadState
<1>12. ASSUME NEW c \in Clusterers, UpdateTrust(c) PROVE Attended(i, j)'
  BY <1>12 DEF UpdateTrust
<1>13. ASSUME NEW c \in Clusterers, PublishClaim(c) PROVE Attended(i, j)'
  BY <1>13 DEF PublishClaim
<1>14. ASSUME NEW c \in Clusterers, Ack(c) PROVE Attended(i, j)'
  BY <1>14 DEF Ack
<1>15. ASSUME NEW c \in Clusterers, Fail(c) PROVE Attended(i, j)'
  <2>1. CASE pc[c] \in Unlinked
    <3>1. SoleHolder(c)
      BY <1>15, <2>1 DEF Fail, CutsAreUncontested, vars
    <3> QED
      BY <1>15, <2>1, <3>1 DEF Fail, SoleHolder
  <2>2. CASE pc[c] \notin Unlinked
    BY <1>15, <2>2 DEF Fail
  <2> QED
    BY <2>1, <2>2
<1>16. ASSUME NEW k \in Items, InsertItem(k) PROVE Attended(i, j)'
  BY <1>16 DEF InsertItem
<1>17. ASSUME NEW cl \in Claim, BlankClaim(cl) PROVE Attended(i, j)'
  BY <1>17 DEF BlankClaim
<1>18. ASSUME NEW cl \in Claim, ClaimItem(cl) PROVE Attended(i, j)'
  BY <1>18 DEF ClaimItem
<1>19. ASSUME MatchRecord PROVE Attended(i, j)'
  BY <1>19 DEF MatchRecord
<1>20. ASSUME PromotePrimaryBacked PROVE Attended(i, j)'
  BY <1>20 DEF PromotePrimaryBacked
<1>21. ASSUME WorkerAck PROVE Attended(i, j)'
  BY <1>21 DEF WorkerAck
<1>22. ASSUME WorkerFail PROVE Attended(i, j)'
  BY <1>22 DEF WorkerFail
<1>23. ASSUME NEW k \in Items, PublishAgain(k) PROVE Attended(i, j)'
  BY <1>23 DEF PublishAgain
<1>24. CASE UNCHANGED vars
  BY <1>24 DEF vars
<1> QED
  BY <1>1, <1>2, <1>3, <1>4, <1>5, <1>6, <1>7, <1>8, <1>9, <1>10, <1>11, <1>12,
     <1>13, <1>14, <1>15, <1>16, <1>17, <1>18, <1>19, <1>20, <1>21, <1>22, <1>23, <1>24
     DEF Next, Clusterer, TrustWorker

\* No edge is ever forgotten.
LEMMA AlwaysAttended == UncontestedSpec => []AllAttended
<1>1. Init => AllAttended
  BY DEF Init, AllAttended
<1>2. Typed /\ OnlyMinted /\ AllAttended /\ [Next /\ CutsAreUncontested]_vars
      => AllAttended'
  BY AttendedStep
<1>3. [Next /\ CutsAreUncontested]_vars => [Next]_vars
  OBVIOUS
<1>4. UncontestedSpec => Spec
  BY <1>3, PTL DEF UncontestedSpec, Spec
<1> QED
  BY <1>1, <1>2, <1>4, AlwaysTyped, AlwaysMinted, PTL DEF UncontestedSpec

\* No edge between settled members is missed, for any number of items, instances
\* and failures, as long as a handler that is cut off was alone with its message:
\* the last of two members to be assigned writes their edge (_update_trust).
THEOREM EdgesAreComplete == UncontestedSpec => []EdgesComplete
<1>1. SettledIsFiled /\ AllAttended => EdgesComplete
  <2> SUFFICES ASSUME SettledIsFiled, AllAttended,
                      NEW i \in Items, NEW j \in Items,
                      Settled(i), Settled(j), ~Held(i), ~Held(j), i # j,
                      storyOf[i] = storyOf[j], Depends(i, j)
               PROVE  \/ <<i, j>> \in StoryEdges(storyOf[i])
                      \/ <<j, i>> \in StoryEdges(storyOf[i])
    BY DEF EdgesComplete
  <2>1. Attended(i, j)
    BY DEF SettledIsFiled, AllAttended
  <2>2. \/ <<storyOf[i], i, j>> \in edges
        \/ <<storyOf[i], j, i>> \in edges
    BY <2>1 DEF Attended, Pending, Owes, Held, Settled
  <2>3. ASSUME NEW x, NEW y, <<storyOf[i], x, y>> \in edges
        PROVE  <<x, y>> \in StoryEdges(storyOf[i])
    BY <2>3 DEF StoryEdges
  <2> QED
    BY <2>2, <2>3
<1>2. [Next /\ CutsAreUncontested]_vars => [Next]_vars
  OBVIOUS
<1>3. UncontestedSpec => Spec
  BY <1>2, PTL DEF UncontestedSpec, Spec
<1> QED
  BY <1>1, <1>3, AckedIsFiled, AlwaysAttended, PTL

\* One instance only ever cuts off a handler that was alone with its message.
LEMMA SoloIsUncontested == ASSUME Solo PROVE Spec => UncontestedSpec
<1>1. Typed /\ Holding /\ [Next]_vars => [Next /\ CutsAreUncontested]_vars
  BY DEF Typed, TypeOK, Holding, Solo, CutsAreUncontested, Unlinked, SoleHolder
<1> QED
  BY <1>1, AlwaysTyped, AlwaysHolding, PTL DEF Spec, UncontestedSpec

\* The deployed cluster service, one instance, never misses an edge whatever fails:
\* a member without its edges is still in the queue (detect_edges on redelivery).
THEOREM SoloEdgesAreComplete == ASSUME Solo PROVE Spec => []EdgesComplete
  BY SoloIsUncontested, EdgesAreComplete, PTL

----------------------------------------------------------------------------
(* The calm system: one instance and nothing fails                         *)

Calm == Solo /\ MaxFaults = 0

\* A Story has its row once its first handler is past create_story, and gets its
\* members one handler at a time; an item is assigned once.
Orderly ==
    /\ \A c \in Clusterers :
          /\ pc[c] = "assign" => sid[c] \in row \cup {NoStory}
          /\ pc[c] \notin {"idle", "assign"} => storyOf[msg[c]] = sid[c]
          /\ pc[c] \notin {"idle", "assign", "create"} => sid[c] \in row
          /\ pc[c] = "create" => /\ sid[c] \notin row
                                 /\ \A i \in Items : storyOf[i] = sid[c] => i = msg[c]
    /\ \A i \in Items :
          /\ storyOf[i] # NoStory =>
                /\ i \in stored
                /\ \/ storyOf[i] \in row
                   \/ \E c \in Clusterers : pc[c] = "create" /\ msg[c] = i
          /\ i \in queue =>
                \/ storyOf[i] = NoStory
                \/ \E c \in Clusterers : msg[c] = i /\ pc[c] \notin {"idle", "assign"}
    /\ \A s \in row : \E i \in Items : storyOf[i] = s

\* Every step of the calm system keeps it orderly.
LEMMA OrderlyStep ==
    ASSUME Calm, Typed, OnlyMinted, Holding, Orderly, [Next]_vars
    PROVE  Orderly'
<1> USE NoStoryAssumption
    DEF Calm, Solo, Typed, Located, TypeOK, OnlyMinted, Holding, Orderly, Goto,
        Release, db, local, worker, PCs
<1>1. ASSUME NEW c \in Clusterers, NEW k \in Items, Nearest(c, k) PROVE Orderly'
  <2>1. PICK target \in Targets(k) : sid' = [sid EXCEPT ![c] = target]
    BY <1>1 DEF Nearest
  <2>2. target = NoStory \/ \E j \in Items : target = storyOf[j]
    BY TargetIsStory
  <2>3. target \in row \cup {NoStory}
    BY <1>1, <2>2 DEF Nearest
  <2> QED
    BY <1>1, <2>1, <2>3 DEF Nearest
<1>2. ASSUME NEW c \in Clusterers, AssignMissing(c) PROVE Orderly'
  BY <1>2 DEF AssignMissing
<1>3. ASSUME NEW c \in Clusterers, AssignJoin(c) PROVE Orderly'
  BY <1>3 DEF AssignJoin
<1>4. ASSUME NEW c \in Clusterers, AssignNew(c) PROVE Orderly'
  BY <1>4 DEF AssignNew
<1>5. ASSUME NEW c \in Clusterers, CreateStory(c) PROVE Orderly'
  BY <1>5 DEF CreateStory
<1>6. ASSUME NEW c \in Clusterers, TouchRead(c) PROVE Orderly'
  BY <1>6 DEF TouchRead
<1>7. ASSUME NEW c \in Clusterers, TouchWrite(c) PROVE Orderly'
  BY <1>7 DEF TouchWrite
<1>8. ASSUME NEW c \in Clusterers, StoryProv(c) PROVE Orderly'
  BY <1>8 DEF StoryProv
<1>9. ASSUME NEW c \in Clusterers, InsertEdges(c) PROVE Orderly'
  BY <1>9 DEF InsertEdges
<1>10. ASSUME NEW c \in Clusterers, ReadEdges(c) PROVE Orderly'
  BY <1>10 DEF ReadEdges
<1>11. ASSUME NEW c \in Clusterers, ReadState(c) PROVE Orderly'
  BY <1>11 DEF ReadState
<1>12. ASSUME NEW c \in Clusterers, UpdateTrust(c) PROVE Orderly'
  BY <1>12 DEF UpdateTrust
<1>13. ASSUME NEW c \in Clusterers, PublishClaim(c) PROVE Orderly'
  BY <1>13 DEF PublishClaim
<1>14. ASSUME NEW c \in Clusterers, Ack(c) PROVE Orderly'
  BY <1>14 DEF Ack
<1>15. ASSUME NEW c \in Clusterers, Fail(c) PROVE Orderly'
  BY <1>15 DEF Fail, Fault
<1>16. ASSUME NEW k \in Items, InsertItem(k) PROVE Orderly'
  BY <1>16 DEF InsertItem
<1>17. ASSUME NEW cl \in Claim, BlankClaim(cl) PROVE Orderly'
  BY <1>17 DEF BlankClaim
<1>18. ASSUME NEW cl \in Claim, ClaimItem(cl) PROVE Orderly'
  BY <1>18 DEF ClaimItem
<1>19. ASSUME MatchRecord PROVE Orderly'
  BY <1>19 DEF MatchRecord
<1>20. ASSUME PromotePrimaryBacked PROVE Orderly'
  BY <1>20 DEF PromotePrimaryBacked
<1>21. ASSUME WorkerAck PROVE Orderly'
  BY <1>21 DEF WorkerAck
<1>22. ASSUME WorkerFail PROVE Orderly'
  BY <1>22 DEF WorkerFail, Fault
<1>23. ASSUME NEW k \in Items, PublishAgain(k) PROVE Orderly'
  BY <1>23 DEF PublishAgain, Fault
<1>24. CASE UNCHANGED vars
  BY <1>24 DEF vars
<1> QED
  BY <1>1, <1>2, <1>3, <1>4, <1>5, <1>6, <1>7, <1>8, <1>9, <1>10, <1>11, <1>12,
     <1>13, <1>14, <1>15, <1>16, <1>17, <1>18, <1>19, <1>20, <1>21, <1>22, <1>23, <1>24
     DEF Next, Clusterer, TrustWorker

\* Members depend on nothing but the assignments.
LEMMA MembersAreKept ==
    ASSUME UNCHANGED storyOf
    PROVE  \A s : Members(s)' = Members(s)
  BY DEF Members

\* Every member is folded into its row, but the one a handler is about to fold.
Folding ==
    /\ \A s \in row :
          (\A c \in Clusterers : sid[c] = s => pc[c] \notin {"touch_read", "touch_write"})
          => folded[s] = Members(s)
    /\ \A c \in Clusterers :
          /\ pc[c] \in {"touch_read", "touch_write"}
             => folded[sid[c]] \cup {msg[c]} = Members(sid[c])
          /\ pc[c] = "touch_write" => snap[c] = folded[sid[c]]

\* Every step of the calm system keeps the folds.
LEMMA FoldingStep ==
    ASSUME Calm, Typed, OnlyMinted, Holding, Orderly, Folding, [Next]_vars
    PROVE  Folding'
<1> USE NoStoryAssumption
    DEF Calm, Solo, Typed, Located, TypeOK, OnlyMinted, Holding, Orderly, Folding,
        Goto, Release, db, local, worker, PCs
<1>1. ASSUME NEW c \in Clusterers, NEW k \in Items, Nearest(c, k) PROVE Folding'
  BY <1>1, MembersAreKept DEF Nearest
<1>2. ASSUME NEW c \in Clusterers, AssignMissing(c) PROVE Folding'
  BY <1>2, MembersAreKept DEF AssignMissing
<1>3. ASSUME NEW c \in Clusterers, AssignJoin(c) PROVE Folding'
  <2>1. /\ \A s \in row : s # sid[c] => Members(s)' = Members(s)
        /\ sid[c] # NoStory => Members(sid[c])' = Members(sid[c]) \cup {msg[c]}
        /\ sid[c] # NoStory => msg[c] \notin Members(sid[c])
    BY <1>3 DEF AssignJoin, Members
  <2> QED
    BY <1>3, <2>1 DEF AssignJoin
<1>4. ASSUME NEW c \in Clusterers, AssignNew(c) PROVE Folding'
  <2>1. \A s \in row : Members(s)' = Members(s)
    BY <1>4 DEF AssignNew, Members
  <2>2. sid'[c] \notin row
    BY <1>4 DEF AssignNew
  <2> QED
    BY <1>4, <2>1, <2>2 DEF AssignNew
<1>5. ASSUME NEW c \in Clusterers, CreateStory(c) PROVE Folding'
  <2>1. Members(sid[c]) = {msg[c]}
    BY <1>5 DEF CreateStory, Members
  <2> QED
    BY <1>5, <2>1, MembersAreKept DEF CreateStory
<1>6. ASSUME NEW c \in Clusterers, TouchRead(c) PROVE Folding'
  BY <1>6, MembersAreKept DEF TouchRead
<1>7. ASSUME NEW c \in Clusterers, TouchWrite(c) PROVE Folding'
  BY <1>7, MembersAreKept DEF TouchWrite
<1>8. ASSUME NEW c \in Clusterers, StoryProv(c) PROVE Folding'
  BY <1>8, MembersAreKept DEF StoryProv
<1>9. ASSUME NEW c \in Clusterers, InsertEdges(c) PROVE Folding'
  BY <1>9, MembersAreKept DEF InsertEdges
<1>10. ASSUME NEW c \in Clusterers, ReadEdges(c) PROVE Folding'
  BY <1>10, MembersAreKept DEF ReadEdges
<1>11. ASSUME NEW c \in Clusterers, ReadState(c) PROVE Folding'
  BY <1>11, MembersAreKept DEF ReadState
<1>12. ASSUME NEW c \in Clusterers, UpdateTrust(c) PROVE Folding'
  BY <1>12, MembersAreKept DEF UpdateTrust
<1>13. ASSUME NEW c \in Clusterers, PublishClaim(c) PROVE Folding'
  BY <1>13, MembersAreKept DEF PublishClaim
<1>14. ASSUME NEW c \in Clusterers, Ack(c) PROVE Folding'
  BY <1>14, MembersAreKept DEF Ack
<1>15. ASSUME NEW c \in Clusterers, Fail(c) PROVE Folding'
  BY <1>15 DEF Fail, Fault
<1>16. ASSUME NEW k \in Items, InsertItem(k) PROVE Folding'
  BY <1>16, MembersAreKept DEF InsertItem
<1>17. ASSUME NEW cl \in Claim, BlankClaim(cl) PROVE Folding'
  BY <1>17, MembersAreKept DEF BlankClaim
<1>18. ASSUME NEW cl \in Claim, ClaimItem(cl) PROVE Folding'
  BY <1>18, MembersAreKept DEF ClaimItem
<1>19. ASSUME MatchRecord PROVE Folding'
  BY <1>19, MembersAreKept DEF MatchRecord
<1>20. ASSUME PromotePrimaryBacked PROVE Folding'
  BY <1>20, MembersAreKept DEF PromotePrimaryBacked
<1>21. ASSUME WorkerAck PROVE Folding'
  BY <1>21, MembersAreKept DEF WorkerAck
<1>22. ASSUME WorkerFail PROVE Folding'
  BY <1>22 DEF WorkerFail, Fault
<1>23. ASSUME NEW k \in Items, PublishAgain(k) PROVE Folding'
  BY <1>23 DEF PublishAgain, Fault
<1>24. CASE UNCHANGED vars
  BY <1>24, MembersAreKept DEF vars
<1> QED
  BY <1>1, <1>2, <1>3, <1>4, <1>5, <1>6, <1>7, <1>8, <1>9, <1>10, <1>11, <1>12,
     <1>13, <1>14, <1>15, <1>16, <1>17, <1>18, <1>19, <1>20, <1>21, <1>22, <1>23, <1>24
     DEF Next, Clusterer, TrustWorker

\* The origin count reads the edges only through Linked.
LEMMA LinkedDecides ==
    ASSUME NEW M, NEW E, NEW F, Linked(M, E) = Linked(M, F)
    PROVE  IndependentOrigins(M, E) = IndependentOrigins(M, F)
<1>1. \A i : Component(i, M, E) = Component(i, M, F)
  BY DEF Component
<1>2. OriginComponents(M, E) = OriginComponents(M, F)
  BY <1>1 DEF OriginComponents
<1> QED
  BY <1>2 DEF IndependentOrigins

\* A Story of one member has one origin.
LEMMA OneOrigin ==
    ASSUME NEW i, NEW E
    PROVE  IndependentOrigins({i}, E) = 1
<1>1. OriginComponents({i}, E) = {Component(i, {i}, E)}
  BY DEF OriginComponents
<1> QED
  BY <1>1, FS_Singleton DEF IndependentOrigins

\* Edges join different items that depend on each other.
EdgesAreSound == \A s \in Stories : \A i, j \in Items :
    <<s, i, j>> \in edges => i # j /\ Depends(i, j)

\* The edges of a Story say what its dependencies say once nobody owes an edge.
LEMMA CountIsExact ==
    ASSUME Calm, Typed, Orderly, AllAttended, EdgesAreSound,
           NEW c \in Clusterers, pc[c] = "read_edges"
    PROVE  IndependentOrigins(Members(sid[c]), StoryEdges(sid[c])) = TrueOrigins(sid[c])
<1> DEFINE s == sid[c]
<1>1. ASSUME NEW i \in Members(s), NEW j \in Members(s), i # j, Depends(i, j)
      PROVE  <<s, i, j>> \in edges \/ <<s, j, i>> \in edges
  <2>1. i \in Items /\ j \in Items /\ storyOf[i] = s /\ storyOf[j] = s /\ s \in Stories
    BY <1>1 DEF Members, Typed, Located
  <2>2. Attended(i, j)
    BY <1>1, <2>1, NoStoryAssumption DEF AllAttended
  <2>3. ~Pending(i) /\ ~Pending(j)
    BY <2>1, NoStoryAssumption DEF Pending, Orderly
  <2>4. \A d \in Clusterers : ~Owes(d, i, j) /\ ~Owes(d, j, i)
    BY DEF Owes, Unlinked, Calm, Solo
  <2> QED
    BY <2>1, <2>2, <2>3, <2>4 DEF Attended
<1>2. ASSUME NEW i \in Members(s), NEW j \in Members(s)
      PROVE  /\ <<i, j>> \in StoryEdges(s) <=> <<s, i, j>> \in edges
             /\ <<i, j>> \in Dependencies(s) <=> i # j /\ Depends(i, j)
  <2>1. s \in Stories
    BY DEF Typed, Located
  <2>2. <<i, j>> \in StoryEdges(s) <=> <<s, i, j>> \in edges
    BY <2>1 DEF StoryEdges, Typed, TypeOK
  <2> QED
    BY <2>2 DEF Dependencies
<1>3. ASSUME NEW i \in Members(s), NEW j \in Members(s)
      PROVE  <<i, j>> \in StoryEdges(s) \/ <<j, i>> \in StoryEdges(s)
             <=> <<i, j>> \in Dependencies(s) \/ <<j, i>> \in Dependencies(s)
  <2>1. i \in Items /\ j \in Items /\ s \in Stories
    BY DEF Members, Typed, Located
  <2> QED
    BY <1>1, <1>2, <2>1, DependsIsSymmetric DEF EdgesAreSound
<1>4. Linked(Members(s), StoryEdges(s)) = Linked(Members(s), Dependencies(s))
  BY <1>3 DEF Linked
<1> QED
  BY <1>4, LinkedDecides DEF TrueOrigins

\* The true origin count changes with the members only.
LEMMA OriginsAreKept ==
    ASSUME NEW s, Members(s)' = Members(s)
    PROVE  TrueOrigins(s)' = TrueOrigins(s)
  BY DEF TrueOrigins, Dependencies

\* Both in one.
LEMMA AllKept ==
    ASSUME UNCHANGED storyOf
    PROVE  \A s : Members(s)' = Members(s) /\ TrueOrigins(s)' = TrueOrigins(s)
  BY MembersAreKept, OriginsAreKept

\* Rows nobody works on have the true count, and so has the handler about to write it.
Counting ==
    /\ \A s \in row :
          (\A c \in Clusterers : sid[c] = s => pc[c] \in {"idle", "assign", "claim", "ack"})
          => origins[s] = TrueOrigins(s)
    /\ \A c \in Clusterers :
          /\ pc[c] \in {"edges", "read_edges", "read_state", "update"}
             => snap[c] = Members(sid[c])
          /\ pc[c] \in {"read_state", "update"} => count[c] = TrueOrigins(sid[c])

\* Every step of the calm system keeps the counts.
LEMMA CountingStep ==
    ASSUME Calm, Typed, OnlyMinted, Holding, Orderly, AllAttended, EdgesAreSound,
           Counting, [Next]_vars
    PROVE  Counting'
<1> USE NoStoryAssumption
    DEF Calm, Solo, Typed, Located, TypeOK, OnlyMinted, Holding, Orderly, Counting,
        Goto, Release, db, local, worker, PCs
<1>1. ASSUME NEW c \in Clusterers, NEW k \in Items, Nearest(c, k) PROVE Counting'
  <2>1. PICK target \in Targets(k) : sid' = [sid EXCEPT ![c] = target]
    BY <1>1 DEF Nearest
  <2>2. pc[c] = "idle" /\ pc' = [pc EXCEPT ![c] = "assign"] /\ UNCHANGED <<db, snap, count>>
    BY <1>1 DEF Nearest
  <2>3. \A s \in row : origins[s] = TrueOrigins(s)
    BY <2>2
  <2> QED
    BY <2>1, <2>2, <2>3, AllKept
<1>2. ASSUME NEW c \in Clusterers, AssignMissing(c) PROVE Counting'
  BY <1>2, AllKept DEF AssignMissing
<1>3. ASSUME NEW c \in Clusterers, AssignJoin(c) PROVE Counting'
  <2>1. \A s \in row : s # sid[c] => Members(s)' = Members(s)
    BY <1>3 DEF AssignJoin, Members
  <2>2. \A s \in row : s # sid[c] => TrueOrigins(s)' = TrueOrigins(s)
    BY <2>1, OriginsAreKept
  <2> QED
    BY <1>3, <2>2 DEF AssignJoin
<1>4. ASSUME NEW c \in Clusterers, AssignNew(c) PROVE Counting'
  <2>1. \A s \in row : TrueOrigins(s)' = TrueOrigins(s)
    <3>1. \A s \in row : Members(s)' = Members(s)
      BY <1>4 DEF AssignNew, Members
    <3> QED
      BY <3>1, OriginsAreKept
  <2>2. sid'[c] \notin row
    BY <1>4 DEF AssignNew
  <2> QED
    BY <1>4, <2>1, <2>2 DEF AssignNew
<1>5. ASSUME NEW c \in Clusterers, CreateStory(c) PROVE Counting'
  <2>1. Members(sid[c]) = {msg[c]}
    BY <1>5 DEF CreateStory, Members
  <2>2. TrueOrigins(sid[c]) = 1
    <3>1. IndependentOrigins({msg[c]}, Dependencies(sid[c])) = 1
      BY ONLY OneOrigin
    <3> QED
      BY <2>1, <3>1 DEF TrueOrigins
  <2> QED
    BY <1>5, <2>2, AllKept DEF CreateStory
<1>6. ASSUME NEW c \in Clusterers, TouchRead(c) PROVE Counting'
  BY <1>6, AllKept DEF TouchRead
<1>7. ASSUME NEW c \in Clusterers, TouchWrite(c) PROVE Counting'
  BY <1>7, AllKept DEF TouchWrite
<1>8. ASSUME NEW c \in Clusterers, StoryProv(c) PROVE Counting'
  <2>1. msg[c] \in Members(sid[c])
    BY <1>8 DEF StoryProv, Members
  <2> QED
    BY <1>8, <2>1, AllKept DEF StoryProv
<1>9. ASSUME NEW c \in Clusterers, InsertEdges(c) PROVE Counting'
  BY <1>9, AllKept DEF InsertEdges
<1>10. ASSUME NEW c \in Clusterers, ReadEdges(c) PROVE Counting'
  <2>1. IndependentOrigins(snap[c], StoryEdges(sid[c])) = TrueOrigins(sid[c])
    BY <1>10, CountIsExact DEF ReadEdges
  <2> QED
    BY <1>10, <2>1, AllKept DEF ReadEdges
<1>11. ASSUME NEW c \in Clusterers, ReadState(c) PROVE Counting'
  BY <1>11, AllKept DEF ReadState
<1>12. ASSUME NEW c \in Clusterers, UpdateTrust(c) PROVE Counting'
  BY <1>12, AllKept DEF UpdateTrust
<1>13. ASSUME NEW c \in Clusterers, PublishClaim(c) PROVE Counting'
  BY <1>13, AllKept DEF PublishClaim
<1>14. ASSUME NEW c \in Clusterers, Ack(c) PROVE Counting'
  BY <1>14, AllKept DEF Ack
<1>15. ASSUME NEW c \in Clusterers, Fail(c) PROVE Counting'
  BY <1>15 DEF Fail, Fault
<1>16. ASSUME NEW k \in Items, InsertItem(k) PROVE Counting'
  BY <1>16, AllKept DEF InsertItem
<1>17. ASSUME NEW cl \in Claim, BlankClaim(cl) PROVE Counting'
  BY <1>17, AllKept DEF BlankClaim
<1>18. ASSUME NEW cl \in Claim, ClaimItem(cl) PROVE Counting'
  BY <1>18, AllKept DEF ClaimItem
<1>19. ASSUME MatchRecord PROVE Counting'
  BY <1>19, AllKept DEF MatchRecord
<1>20. ASSUME PromotePrimaryBacked PROVE Counting'
  BY <1>20, AllKept DEF PromotePrimaryBacked
<1>21. ASSUME WorkerAck PROVE Counting'
  BY <1>21, AllKept DEF WorkerAck
<1>22. ASSUME WorkerFail PROVE Counting'
  BY <1>22 DEF WorkerFail, Fault
<1>23. ASSUME NEW k \in Items, PublishAgain(k) PROVE Counting'
  BY <1>23 DEF PublishAgain, Fault
<1>24. CASE UNCHANGED vars
  BY <1>24, AllKept DEF vars
<1> QED
  BY <1>1, <1>2, <1>3, <1>4, <1>5, <1>6, <1>7, <1>8, <1>9, <1>10, <1>11, <1>12,
     <1>13, <1>14, <1>15, <1>16, <1>17, <1>18, <1>19, <1>20, <1>21, <1>22, <1>23, <1>24
     DEF Next, Clusterer, TrustWorker

\* Only InsertEdges adds edges, and only those that DetectEdges finds.
LEMMA AlwaysSound == Spec => []EdgesAreSound
<1>1. Init => EdgesAreSound
  BY DEF Init, EdgesAreSound
<1>2. Typed /\ EdgesAreSound /\ [Next]_vars => EdgesAreSound'
  <2> SUFFICES ASSUME Typed, EdgesAreSound, [Next]_vars PROVE EdgesAreSound'
    OBVIOUS
  <2> USE DEF Typed, Located, TypeOK, EdgesAreSound, Goto, Release, db, local, worker
  <2>1. ASSUME NEW c \in Clusterers, NEW k \in Items, Nearest(c, k) PROVE EdgesAreSound'
    BY <2>1 DEF Nearest
  <2>2. ASSUME NEW c \in Clusterers, AssignMissing(c) PROVE EdgesAreSound'
    BY <2>2 DEF AssignMissing
  <2>3. ASSUME NEW c \in Clusterers, AssignJoin(c) PROVE EdgesAreSound'
    BY <2>3 DEF AssignJoin
  <2>4. ASSUME NEW c \in Clusterers, AssignNew(c) PROVE EdgesAreSound'
    BY <2>4 DEF AssignNew
  <2>5. ASSUME NEW c \in Clusterers, CreateStory(c) PROVE EdgesAreSound'
    BY <2>5 DEF CreateStory
  <2>6. ASSUME NEW c \in Clusterers, TouchRead(c) PROVE EdgesAreSound'
    BY <2>6 DEF TouchRead
  <2>7. ASSUME NEW c \in Clusterers, TouchWrite(c) PROVE EdgesAreSound'
    BY <2>7 DEF TouchWrite
  <2>8. ASSUME NEW c \in Clusterers, StoryProv(c) PROVE EdgesAreSound'
    BY <2>8 DEF StoryProv
  <2>9. ASSUME NEW c \in Clusterers, InsertEdges(c) PROVE EdgesAreSound'
    <3>1. ASSUME NEW e \in DetectEdges(msg[c], snap[c])
          PROVE  e[1] # e[2] /\ Depends(e[1], e[2])
      BY DEF DetectEdges
    <3> QED
      BY <2>9, <3>1 DEF InsertEdges
  <2>10. ASSUME NEW c \in Clusterers, ReadEdges(c) PROVE EdgesAreSound'
    BY <2>10 DEF ReadEdges
  <2>11. ASSUME NEW c \in Clusterers, ReadState(c) PROVE EdgesAreSound'
    BY <2>11 DEF ReadState
  <2>12. ASSUME NEW c \in Clusterers, UpdateTrust(c) PROVE EdgesAreSound'
    BY <2>12 DEF UpdateTrust
  <2>13. ASSUME NEW c \in Clusterers, PublishClaim(c) PROVE EdgesAreSound'
    BY <2>13 DEF PublishClaim
  <2>14. ASSUME NEW c \in Clusterers, Ack(c) PROVE EdgesAreSound'
    BY <2>14 DEF Ack
  <2>15. ASSUME NEW c \in Clusterers, Fail(c) PROVE EdgesAreSound'
    BY <2>15 DEF Fail
  <2>16. ASSUME NEW k \in Items, InsertItem(k) PROVE EdgesAreSound'
    BY <2>16 DEF InsertItem
  <2>17. ASSUME NEW cl \in Claim, BlankClaim(cl) PROVE EdgesAreSound'
    BY <2>17 DEF BlankClaim
  <2>18. ASSUME NEW cl \in Claim, ClaimItem(cl) PROVE EdgesAreSound'
    BY <2>18 DEF ClaimItem
  <2>19. ASSUME MatchRecord PROVE EdgesAreSound'
    BY <2>19 DEF MatchRecord
  <2>20. ASSUME PromotePrimaryBacked PROVE EdgesAreSound'
    BY <2>20 DEF PromotePrimaryBacked
  <2>21. ASSUME WorkerAck PROVE EdgesAreSound'
    BY <2>21 DEF WorkerAck
  <2>22. ASSUME WorkerFail PROVE EdgesAreSound'
    BY <2>22 DEF WorkerFail
  <2>23. ASSUME NEW k \in Items, PublishAgain(k) PROVE EdgesAreSound'
    BY <2>23 DEF PublishAgain
  <2>24. CASE UNCHANGED vars
    BY <2>24 DEF vars
  <2> QED
    BY <2>1, <2>2, <2>3, <2>4, <2>5, <2>6, <2>7, <2>8, <2>9, <2>10, <2>11, <2>12,
       <2>13, <2>14, <2>15, <2>16, <2>17, <2>18, <2>19, <2>20, <2>21, <2>22, <2>23, <2>24
       DEF Next, Clusterer, TrustWorker
<1> QED
  BY <1>1, <1>2, AlwaysTyped, PTL DEF Spec

\* The state a handler holds is one that the members earn, or the row has it already.
Evidenced ==
    \A c \in Clusterers :
        /\ pc[c] = "read_state" =>
              /\ state[c] = "corroborated" => TrueOrigins(sid[c]) >= CorroborationN
              /\ state[c] = "primary_backed" => InStoryPrimaryMatch(Members(sid[c]))
        /\ pc[c] = "update" =>
              /\ state[c] = "corroborated" => \/ TrueOrigins(sid[c]) >= CorroborationN
                                              \/ trust[sid[c]] # "rumor"
              /\ state[c] = "primary_backed" => \/ InStoryPrimaryMatch(Members(sid[c]))
                                                \/ trust[sid[c]] = "primary_backed"

\* InStoryPrimaryMatch reads the members only.
LEMMA MatchIsKept ==
    ASSUME UNCHANGED storyOf
    PROVE  \A s : /\ TrueOrigins(s)' = TrueOrigins(s)
                  /\ InStoryPrimaryMatch(Members(s))' = InStoryPrimaryMatch(Members(s))
<1>1. \A s : Members(s)' = Members(s)
  BY MembersAreKept
<1> QED
  BY <1>1, AllKept DEF InStoryPrimaryMatch

\* Every step of the calm system keeps the evidence.
LEMMA EvidencedStep ==
    ASSUME Calm, Typed, Holding, Orderly, AllAttended, EdgesAreSound, Counting,
           Evidenced, [Next]_vars
    PROVE  Evidenced'
<1> USE DEF Calm, Solo, Typed, Located, TypeOK, Holding, Orderly, Counting,
            Evidenced, Goto, Release, db, local, worker, PCs
<1>1. ASSUME NEW c \in Clusterers, NEW k \in Items, Nearest(c, k) PROVE Evidenced'
  BY <1>1, MatchIsKept DEF Nearest
<1>2. ASSUME NEW c \in Clusterers, AssignMissing(c) PROVE Evidenced'
  BY <1>2, MatchIsKept DEF AssignMissing
<1>3. ASSUME NEW c \in Clusterers, AssignJoin(c) PROVE Evidenced'
  BY <1>3 DEF AssignJoin
<1>4. ASSUME NEW c \in Clusterers, AssignNew(c) PROVE Evidenced'
  BY <1>4 DEF AssignNew
<1>5. ASSUME NEW c \in Clusterers, CreateStory(c) PROVE Evidenced'
  BY <1>5, MatchIsKept DEF CreateStory
<1>6. ASSUME NEW c \in Clusterers, TouchRead(c) PROVE Evidenced'
  BY <1>6, MatchIsKept DEF TouchRead
<1>7. ASSUME NEW c \in Clusterers, TouchWrite(c) PROVE Evidenced'
  BY <1>7, MatchIsKept DEF TouchWrite
<1>8. ASSUME NEW c \in Clusterers, StoryProv(c) PROVE Evidenced'
  BY <1>8, MatchIsKept DEF StoryProv
<1>9. ASSUME NEW c \in Clusterers, InsertEdges(c) PROVE Evidenced'
  BY <1>9, MatchIsKept DEF InsertEdges
<1>10. ASSUME NEW c \in Clusterers, ReadEdges(c) PROVE Evidenced'
  <2>1. /\ count'[c] = TrueOrigins(sid[c])
        /\ state'[c] = Implied(count'[c], DistinctOriginSources(snap[c], StoryEdges(sid[c])),
                               InStoryPrimaryMatch(snap[c]))
    BY <1>10, CountIsExact DEF ReadEdges
  <2>2. /\ state'[c] = "corroborated" => TrueOrigins(sid[c]) >= CorroborationN
        /\ state'[c] = "primary_backed" => InStoryPrimaryMatch(Members(sid[c]))
    BY <1>10, <2>1 DEF ReadEdges, Implied
  <2> QED
    BY <1>10, <2>2, AllKept DEF ReadEdges
<1>11. ASSUME NEW c \in Clusterers, ReadState(c) PROVE Evidenced'
  <2>1. state'[c] \in {state[c], trust[sid[c]]}
    BY <1>11 DEF ReadState, NextState
  <2> QED
    BY <1>11, <2>1, AllKept DEF ReadState
<1>12. ASSUME NEW c \in Clusterers, UpdateTrust(c) PROVE Evidenced'
  BY <1>12, MatchIsKept DEF UpdateTrust
<1>13. ASSUME NEW c \in Clusterers, PublishClaim(c) PROVE Evidenced'
  BY <1>13, MatchIsKept DEF PublishClaim
<1>14. ASSUME NEW c \in Clusterers, Ack(c) PROVE Evidenced'
  BY <1>14, MatchIsKept DEF Ack
<1>15. ASSUME NEW c \in Clusterers, Fail(c) PROVE Evidenced'
  BY <1>15 DEF Fail, Fault
<1>16. ASSUME NEW k \in Items, InsertItem(k) PROVE Evidenced'
  BY <1>16, MatchIsKept DEF InsertItem
<1>17. ASSUME NEW cl \in Claim, BlankClaim(cl) PROVE Evidenced'
  BY <1>17, MatchIsKept DEF BlankClaim
<1>18. ASSUME NEW cl \in Claim, ClaimItem(cl) PROVE Evidenced'
  BY <1>18, MatchIsKept DEF ClaimItem
<1>19. ASSUME MatchRecord PROVE Evidenced'
  BY <1>19, MatchIsKept DEF MatchRecord
<1>20. ASSUME PromotePrimaryBacked PROVE Evidenced'
  BY <1>20, MatchIsKept DEF PromotePrimaryBacked
<1>21. ASSUME WorkerAck PROVE Evidenced'
  BY <1>21, MatchIsKept DEF WorkerAck
<1>22. ASSUME WorkerFail PROVE Evidenced'
  BY <1>22 DEF WorkerFail, Fault
<1>23. ASSUME NEW k \in Items, PublishAgain(k) PROVE Evidenced'
  BY <1>23 DEF PublishAgain, Fault
<1>24. CASE UNCHANGED vars
  BY <1>24, MatchIsKept DEF vars
<1> QED
  BY <1>1, <1>2, <1>3, <1>4, <1>5, <1>6, <1>7, <1>8, <1>9, <1>10, <1>11, <1>12,
     <1>13, <1>14, <1>15, <1>16, <1>17, <1>18, <1>19, <1>20, <1>21, <1>22, <1>23, <1>24
     DEF Next, Clusterer, TrustWorker

\* The claim the trust worker works on is of a social member, and before it
\* promotes a stored record backs it.
Backing ==
    /\ wpc \in {"match", "promote"} =>
          /\ Node[wclaim[2]].class = "social"
          /\ storyOf[wclaim[2]] = wclaim[1]
    /\ wpc = "promote" => \E x \in Backs[wclaim[2]] : x \in stored

\* Every step of the calm system keeps what backs the claim at work.
LEMMA BackingStep ==
    ASSUME Calm, Typed, Holding, Orderly, Backing, [Next]_vars
    PROVE  Backing'
<1> USE NoStoryAssumption
    DEF Calm, Solo, Typed, Located, TypeOK, Holding, Orderly, Backing, Claim, Goto,
        Release, db, local, worker, PCs
<1>1. ASSUME NEW c \in Clusterers, NEW k \in Items, Nearest(c, k) PROVE Backing'
  BY <1>1 DEF Nearest
<1>2. ASSUME NEW c \in Clusterers, AssignMissing(c) PROVE Backing'
  BY <1>2 DEF AssignMissing
<1>3. ASSUME NEW c \in Clusterers, AssignJoin(c) PROVE Backing'
  BY <1>3 DEF AssignJoin
<1>4. ASSUME NEW c \in Clusterers, AssignNew(c) PROVE Backing'
  BY <1>4 DEF AssignNew
<1>5. ASSUME NEW c \in Clusterers, CreateStory(c) PROVE Backing'
  BY <1>5 DEF CreateStory
<1>6. ASSUME NEW c \in Clusterers, TouchRead(c) PROVE Backing'
  BY <1>6 DEF TouchRead
<1>7. ASSUME NEW c \in Clusterers, TouchWrite(c) PROVE Backing'
  BY <1>7 DEF TouchWrite
<1>8. ASSUME NEW c \in Clusterers, StoryProv(c) PROVE Backing'
  BY <1>8 DEF StoryProv
<1>9. ASSUME NEW c \in Clusterers, InsertEdges(c) PROVE Backing'
  BY <1>9 DEF InsertEdges
<1>10. ASSUME NEW c \in Clusterers, ReadEdges(c) PROVE Backing'
  BY <1>10 DEF ReadEdges
<1>11. ASSUME NEW c \in Clusterers, ReadState(c) PROVE Backing'
  BY <1>11 DEF ReadState
<1>12. ASSUME NEW c \in Clusterers, UpdateTrust(c) PROVE Backing'
  BY <1>12 DEF UpdateTrust
<1>13. ASSUME NEW c \in Clusterers, PublishClaim(c) PROVE Backing'
  BY <1>13 DEF PublishClaim
<1>14. ASSUME NEW c \in Clusterers, Ack(c) PROVE Backing'
  BY <1>14 DEF Ack
<1>15. ASSUME NEW c \in Clusterers, Fail(c) PROVE Backing'
  BY <1>15 DEF Fail, Fault
<1>16. ASSUME NEW k \in Items, InsertItem(k) PROVE Backing'
  BY <1>16 DEF InsertItem
<1>17. ASSUME NEW cl \in Claim, BlankClaim(cl) PROVE Backing'
  BY <1>17 DEF BlankClaim
<1>18. ASSUME NEW cl \in Claim, ClaimItem(cl) PROVE Backing'
  BY <1>18 DEF ClaimItem
<1>19. ASSUME MatchRecord PROVE Backing'
  BY <1>19 DEF MatchRecord
<1>20. ASSUME PromotePrimaryBacked PROVE Backing'
  BY <1>20 DEF PromotePrimaryBacked
<1>21. ASSUME WorkerAck PROVE Backing'
  BY <1>21 DEF WorkerAck
<1>22. ASSUME WorkerFail PROVE Backing'
  BY <1>22 DEF WorkerFail, Fault
<1>23. ASSUME NEW k \in Items, PublishAgain(k) PROVE Backing'
  BY <1>23 DEF PublishAgain, Fault
<1>24. CASE UNCHANGED vars
  BY <1>24 DEF vars
<1> QED
  BY <1>1, <1>2, <1>3, <1>4, <1>5, <1>6, <1>7, <1>8, <1>9, <1>10, <1>11, <1>12,
     <1>13, <1>14, <1>15, <1>16, <1>17, <1>18, <1>19, <1>20, <1>21, <1>22, <1>23, <1>24
     DEF Next, Clusterer, TrustWorker

\* What holds of the calm system between any two steps.
CalmInvariant ==
    Orderly /\ Folding /\ Counting /\ EdgesAreSound /\ Evidenced /\ Backing

\* The calm invariant holds from the start and every step keeps it.
LEMMA AlwaysCalm == ASSUME Calm PROVE Spec => []CalmInvariant
<1>1. Init => Orderly
  BY NoStoryAssumption DEF Init, Orderly
<1>2. Init => Folding /\ Counting /\ Evidenced /\ Backing
  BY DEF Init, Folding, Counting, Evidenced, Backing
<1>3. Typed /\ OnlyMinted /\ Holding /\ Orderly /\ [Next]_vars => Orderly'
  BY OrderlyStep
<1>4. Typed /\ OnlyMinted /\ Holding /\ Orderly /\ Folding /\ [Next]_vars => Folding'
  BY FoldingStep
<1>5. Typed /\ OnlyMinted /\ Holding /\ Orderly /\ AllAttended /\ EdgesAreSound
      /\ Counting /\ [Next]_vars => Counting'
  BY CountingStep
<1>6. Typed /\ Holding /\ Orderly /\ AllAttended /\ EdgesAreSound /\ Counting
      /\ Evidenced /\ [Next]_vars => Evidenced'
  BY EvidencedStep
<1>7. Typed /\ Holding /\ Orderly /\ Backing /\ [Next]_vars => Backing'
  BY BackingStep
<1>8. Solo
  BY DEF Calm
<1>9. Spec => []Typed /\ []OnlyMinted /\ []Holding /\ []AllAttended /\ []EdgesAreSound
  BY <1>8, AlwaysTyped, AlwaysMinted, AlwaysHolding, SoloIsUncontested,
     AlwaysAttended, AlwaysSound, PTL
<1> QED
  BY <1>1, <1>2, <1>3, <1>4, <1>5, <1>6, <1>7, <1>9, PTL DEF Spec, CalmInvariant

\* When nothing fails, every acked item is in a Story that has a row: "either assigns
\* the item to an existing Story or opens a new one" (cluster/main.py).
THEOREM CalmStoriesHaveRows == ASSUME Calm PROVE Spec => []NoPhantomStory
<1>1. Solo
  BY DEF Calm
<1>2. Holding /\ Orderly /\ SettledIsFiled => NoPhantomStory
  BY DEF Holding, Orderly, SettledIsFiled, Settled, NoPhantomStory
<1> QED
  BY <1>1, <1>2, AlwaysHolding, AlwaysCalm, AckedIsFiled, PTL DEF CalmInvariant

\* When nothing fails, every Story row has a member: it is written after its first
\* item is assigned, and no item is assigned twice.
THEOREM CalmRowsHaveMembers == ASSUME Calm PROVE Spec => []NoOrphanStory
<1>1. Orderly => NoOrphanStory
  BY DEF Orderly, NoOrphanStory, Members
<1> QED
  BY <1>1, AlwaysCalm, PTL DEF CalmInvariant

\* When nothing fails, the row of a Story nobody works on has the true origin count
\* and every member's source and entities (_update_trust, touch_story).
THEOREM CalmRowsAreExact == ASSUME Calm PROVE Spec => []RowsExact
<1>1. Folding /\ Counting => RowsExact
  BY DEF Folding, Counting, RowsExact
<1> QED
  BY <1>1, AlwaysCalm, PTL DEF CalmInvariant

\* Only two steps write a trust state.
LEMMA TrustIsWritten ==
    ASSUME Typed, [Next]_vars, NEW s \in Stories, trust'[s] # trust[s]
    PROVE  \/ \E c \in Clusterers : UpdateTrust(c) /\ sid[c] = s /\ trust'[s] = state[c]
           \/ PromotePrimaryBacked /\ wclaim[1] = s /\ trust'[s] = "primary_backed"
<1>1. CASE \E c \in Clusterers : UpdateTrust(c)
  BY <1>1 DEF UpdateTrust, Typed, TypeOK
<1>2. CASE PromotePrimaryBacked
  BY <1>2 DEF PromotePrimaryBacked, Typed, TypeOK
<1>3. CASE /\ ~\E c \in Clusterers : UpdateTrust(c)
           /\ ~PromotePrimaryBacked
  <2>1. trust' = trust
    <3> USE DEF db
    <3>1. ASSUME NEW c \in Clusterers, NEW i \in Items, Nearest(c, i) PROVE trust' = trust
      BY <3>1 DEF Nearest
    <3>2. ASSUME NEW c \in Clusterers,
                 \/ AssignMissing(c) \/ AssignJoin(c) \/ AssignNew(c) \/ CreateStory(c)
                 \/ TouchRead(c) \/ TouchWrite(c) \/ StoryProv(c) \/ InsertEdges(c)
                 \/ ReadEdges(c) \/ ReadState(c) \/ PublishClaim(c) \/ Ack(c) \/ Fail(c)
          PROVE  trust' = trust
      BY <3>2 DEF AssignMissing, AssignJoin, AssignNew, CreateStory, TouchRead, TouchWrite,
                  StoryProv, InsertEdges, ReadEdges, ReadState, PublishClaim, Ack, Fail
    <3>3. ASSUME NEW i \in Items, InsertItem(i) \/ PublishAgain(i) PROVE trust' = trust
      BY <3>3 DEF InsertItem, PublishAgain
    <3>4. ASSUME NEW cl \in Claim, BlankClaim(cl) \/ ClaimItem(cl) PROVE trust' = trust
      BY <3>4 DEF BlankClaim, ClaimItem
    <3>5. ASSUME MatchRecord \/ WorkerAck \/ WorkerFail PROVE trust' = trust
      BY <3>5 DEF MatchRecord, WorkerAck, WorkerFail
    <3>6. CASE UNCHANGED vars
      BY <3>6 DEF vars
    <3> QED
      BY <1>3, <3>1, <3>2, <3>3, <3>4, <3>5, <3>6 DEF Next, Clusterer, TrustWorker
  <2> QED
    BY <2>1
<1> QED
  BY <1>1, <1>2, <1>3

\* When nothing fails, CORROBORATED is earned: the members span N independent
\* origins at the step that writes it, copies and shared links counted once.
THEOREM CalmCorroborationIsEarned == ASSUME Calm PROVE Spec => CorroborationEarned
<1> DEFINE Step == \A s \in Stories :
                      trust[s] = "rumor" /\ trust'[s] = "corroborated"
                      => TrueOrigins(s) >= CorroborationN
<1>1. ASSUME Typed, CalmInvariant, [Next]_vars PROVE Step
  <2> SUFFICES ASSUME NEW s \in Stories, trust[s] = "rumor", trust'[s] = "corroborated"
               PROVE  TrueOrigins(s) >= CorroborationN
    OBVIOUS
  <2>1. \E c \in Clusterers : UpdateTrust(c) /\ sid[c] = s /\ state[c] = "corroborated"
    BY <1>1, TrustIsWritten DEF Typed, TypeOK
  <2> QED
    BY <1>1, <2>1 DEF CalmInvariant, Evidenced, UpdateTrust
<1> QED
  BY <1>1, AlwaysTyped, AlwaysCalm, PTL DEF Spec, CorroborationEarned

\* When nothing fails, PRIMARY_BACKED rests on a social member and a stored record:
\* one of the Story's own, or one that backs the member's claim.
THEOREM CalmPromotionIsBacked == ASSUME Calm PROVE Spec => PromotionBacked
<1> DEFINE Backed(s) ==
      \E i \in Members(s) :
         /\ Node[i].class = "social"
         /\ \E x \in stored : /\ Node[x].class \in {"authoritative", "primary"}
                              /\ x \in Members(s) \cup Backs[i]
<1>1. ASSUME Typed, CalmInvariant, [Next]_vars, NEW s \in Stories,
             trust[s] # "primary_backed", trust'[s] = "primary_backed"
      PROVE  Backed(s)
  <2>1. CASE \E c \in Clusterers :
                UpdateTrust(c) /\ sid[c] = s /\ state[c] = "primary_backed"
    <3>1. InStoryPrimaryMatch(Members(s))
      BY <1>1, <2>1 DEF CalmInvariant, Evidenced, UpdateTrust
    <3>2. Members(s) \subseteq stored
      BY <1>1, NoStoryAssumption DEF CalmInvariant, Orderly, Members
    <3> QED
      BY <3>1, <3>2 DEF InStoryPrimaryMatch
  <2>2. CASE PromotePrimaryBacked /\ wclaim[1] = s
    <3>1. /\ wclaim[2] \in Items
          /\ storyOf[wclaim[2]] = s
          /\ Node[wclaim[2]].class = "social"
          /\ \E x \in Backs[wclaim[2]] : x \in stored
      BY <1>1, <2>2 DEF CalmInvariant, Backing, PromotePrimaryBacked, Typed, Located, Claim
    <3> QED
      BY <3>1, RecordsAssumption DEF Members
  <2> QED
    BY <1>1, <2>1, <2>2, TrustIsWritten
<1>2. Typed /\ CalmInvariant /\ [Next]_vars
      => \A s \in Stories :
            trust[s] # "primary_backed" /\ trust'[s] = "primary_backed" => Backed(s)
  BY <1>1
<1> QED
  BY <1>2, AlwaysTyped, AlwaysCalm, PTL DEF Spec, PromotionBacked

\* The refinement mapping of Ledger.
filed == [i \in Items |-> IF Settled(i) THEN storyOf[i] ELSE NoStory]
level == [s \in Stories |-> Rank[trust[s]]]

\* The steps of which the ledger sees nothing.
LEMMA Unseen ==
    ASSUME Calm, Typed, Holding, [Next]_vars,
           \A c \in Clusterers : ~CreateStory(c) /\ ~UpdateTrust(c) /\ ~Ack(c),
           ~PromotePrimaryBacked
    PROVE  /\ \A i \in Items \ queue : storyOf'[i] = storyOf[i]
           /\ UNCHANGED <<queue, row, trust, promoted>>
<1> USE DEF Typed, TypeOK, Holding, Goto, db, local, worker
<1>1. ASSUME NEW c \in Clusterers, NEW i \in Items, Nearest(c, i)
      PROVE  UNCHANGED <<storyOf, queue, row, trust, promoted>>
  BY <1>1 DEF Nearest
<1>2. ASSUME NEW c \in Clusterers, AssignJoin(c) \/ AssignNew(c)
      PROVE  /\ \A i \in Items \ queue : storyOf'[i] = storyOf[i]
             /\ UNCHANGED <<queue, row, trust, promoted>>
  BY <1>2 DEF AssignJoin, AssignNew
<1>3. ASSUME NEW c \in Clusterers,
             \/ AssignMissing(c) \/ TouchRead(c) \/ TouchWrite(c) \/ StoryProv(c)
             \/ InsertEdges(c) \/ ReadEdges(c) \/ ReadState(c) \/ PublishClaim(c)
             \/ Fail(c)
      PROVE  UNCHANGED <<storyOf, queue, row, trust, promoted>>
  BY <1>3 DEF AssignMissing, TouchRead, TouchWrite, StoryProv, InsertEdges, ReadEdges,
              ReadState, PublishClaim, Fail
<1>4. ASSUME NEW i \in Items, InsertItem(i)
      PROVE  UNCHANGED <<storyOf, queue, row, trust, promoted>>
  BY <1>4 DEF InsertItem
<1>5. ASSUME NEW cl \in Claim, BlankClaim(cl) \/ ClaimItem(cl)
      PROVE  UNCHANGED <<storyOf, queue, row, trust, promoted>>
  BY <1>5 DEF BlankClaim, ClaimItem
<1>6. ASSUME MatchRecord \/ WorkerAck \/ WorkerFail
      PROVE  UNCHANGED <<storyOf, queue, row, trust, promoted>>
  BY <1>6 DEF MatchRecord, WorkerAck, WorkerFail
<1>7. ASSUME NEW i \in Items, PublishAgain(i)
      PROVE  UNCHANGED <<storyOf, queue, row, trust, promoted>>
  BY <1>7 DEF Calm, PublishAgain, Fault
<1>8. CASE UNCHANGED vars
  BY <1>8 DEF vars
<1> QED
  BY <1>1, <1>2, <1>3, <1>4, <1>5, <1>6, <1>7, <1>8 DEF Next, Clusterer, TrustWorker

\* Every step of the calm system is a step of the ledger or unseen by it.
LEMMA LedgerStep ==
    ASSUME Calm, Typed, Holding, Filed, Orderly, Floored, [Next]_vars
    PROVE  [Ledger!Next]_(Ledger!ledger)
<1> USE DEF Typed, Located, TypeOK, db, local, worker, Settled
<1>1. ASSUME NEW c \in Clusterers, CreateStory(c) PROVE Ledger!Next
  <2>1. PICK s \in Stories : s = sid[c]
    BY <1>1 DEF CreateStory
  <2>2. Ledger!Open(s)
    BY <1>1, <2>1 DEF CreateStory, Orderly, Ledger!Open
  <2> QED
    BY <2>2 DEF Ledger!Next
<1>2. ASSUME NEW c \in Clusterers, Ack(c) PROVE Ledger!Next
  <2>1. PICK s \in Stories, i \in Items : s = sid[c] /\ i = msg[c]
    BY <1>2 DEF Ack
  <2>2. i \in queue /\ s \in row /\ storyOf[i] = s
    BY <1>2, <2>1 DEF Ack, Holding, Orderly
  <2>3. queue' = queue \ {i} /\ UNCHANGED <<storyOf, row, trust, promoted>>
    BY <1>2, <2>1 DEF Ack
  <2>4. filed' = [filed EXCEPT ![i] = s] /\ filed[i] = NoStory
    BY <2>2, <2>3 DEF filed
  <2>5. Ledger!File(i, s)
    BY <2>2, <2>3, <2>4 DEF filed, Ledger!File
  <2> QED
    BY <2>5 DEF Ledger!Next
<1>3. ASSUME NEW c \in Clusterers, UpdateTrust(c)
      PROVE  Ledger!Next \/ UNCHANGED Ledger!ledger
  <2>1. PICK s \in Stories, l \in 0..2 : s = sid[c] /\ l = Rank[state[c]]
    BY <1>3 DEF UpdateTrust, Rank, TrustStates
  <2>2. /\ s \in row
        /\ trust' = [trust EXCEPT ![s] = state[c]]
        /\ UNCHANGED <<storyOf, queue, row, promoted>>
        /\ NoLower(s, state[c])
    BY <1>3, <2>1 DEF UpdateTrust, Orderly, Floored
  <2>3. level' = [level EXCEPT ![s] = l] /\ level[s] = Rank[trust[s]]
    BY <2>1, <2>2 DEF level
  <2>4. level[s] \in 0..2
    BY <2>3 DEF Rank, TrustStates
  <2>5. CASE l = level[s]
    <3>1. level' = level
      BY <2>2, <2>3, <2>5 DEF level
    <3> QED
      BY <2>2, <3>1 DEF level, Ledger!ledger
  <2>6. CASE l > level[s]
    <3>1. Ledger!Rise(s)
      BY <2>2, <2>3, <2>4, <2>6 DEF level, Ledger!Rise
    <3> QED
      BY <2>2, <3>1 DEF Ledger!Next
  <2>7. CASE l < level[s]
    <3>1. s \in promoted /\ level[s] = 2 /\ l \in 0..1
      BY <2>1, <2>2, <2>3, <2>4, <2>7 DEF NoLower, Rank
    <3>2. Ledger!LoseGrant(s)
      BY <2>2, <2>3, <3>1 DEF level, Ledger!LoseGrant
    <3> QED
      BY <2>2, <3>2 DEF Ledger!Next
  <2> QED
    BY <2>4, <2>5, <2>6, <2>7
<1>4. ASSUME PromotePrimaryBacked PROVE Ledger!Next \/ UNCHANGED Ledger!ledger
  <2>1. PICK s \in Stories : s = wclaim[1]
    BY <1>4 DEF PromotePrimaryBacked, Claim
  <2>2. CASE s \in row
    <3>1. /\ trust' = [trust EXCEPT ![s] = "primary_backed"]
          /\ promoted' = promoted \cup {s}
          /\ UNCHANGED <<storyOf, queue, row>>
      BY <1>4, <2>1, <2>2 DEF PromotePrimaryBacked
    <3>2. level' = [level EXCEPT ![s] = 2]
      BY <2>1, <3>1 DEF level, Rank
    <3>3. Ledger!Grant(s)
      BY <2>2, <3>1, <3>2 DEF level, Ledger!Grant
    <3> QED
      BY <2>1, <3>3 DEF Ledger!Next
  <2>3. CASE s \notin row
    BY <1>4, <2>1, <2>3 DEF PromotePrimaryBacked, Ledger!ledger
  <2> QED
    BY <2>2, <2>3
<1>5. CASE /\ \A c \in Clusterers : ~CreateStory(c) /\ ~UpdateTrust(c) /\ ~Ack(c)
           /\ ~PromotePrimaryBacked
  <2>1. /\ \A i \in Items \ queue : storyOf'[i] = storyOf[i]
        /\ UNCHANGED <<queue, row, trust, promoted>>
    BY <1>5, Unseen
  <2>2. filed' = filed
    BY <2>1 DEF filed
  <2> QED
    BY <2>1, <2>2 DEF filed, Ledger!ledger
<1> QED
  BY <1>1, <1>2, <1>3, <1>4, <1>5

\* When nothing fails, the clustering path with all its steps keeps the abstract
\* ledger: an item is filed once in an open Story, and trust only rises, but for a
\* promotion by the trust worker that a clusterer overwrites.
THEOREM CalmImplementsLedger == ASSUME Calm PROVE Spec => LedgerSpec
<1>1. Init => Ledger!Init
  BY DEF Init, Ledger!Init, Settled, Rank
<1>2. Typed /\ Holding /\ Filed /\ Orderly /\ Floored /\ [Next]_vars
      => [Ledger!Next]_(Ledger!ledger)
  BY LedgerStep
<1>3. Solo
  BY DEF Calm
<1> QED
  BY <1>1, <1>2, <1>3, AlwaysTyped, AlwaysHolding, AlwaysFiled, AlwaysFloored,
     AlwaysCalm, PTL DEF Spec, CalmInvariant, LedgerSpec, Ledger!Spec

=============================================================================
