-------------------------------- MODULE Filter --------------------------------
(***************************************************************************)
(* The relevance filter of one enrich pod: the handlers score items with   *)
(* whatever model the watcher has installed (CheapFilter.relevance) and    *)
(* ask the governor, while the retrain worker publishes and the watcher    *)
(* swaps.                                                                  *)
(***************************************************************************)
EXTENDS Governor, Hotswap

CONSTANTS Pod,
          RelevanceOf   \* [Models -> SUBSET Relevances]

ASSUME PodAssumption == Pod \in Replicas
ASSUME RelevanceAssumption == RelevanceOf \in [Models -> SUBSET Relevances]

fvars == <<gvars, hotvars>>

FilterInit == GovernorInit /\ HotswapInit

\* Inference.handle up to the verdict: relevance and admit have no await between
\* them, so that a swap falls before or after both.
Judge(relevance) ==
    /\ relevance \in RelevanceOf[serving[Pod]]
    /\ \E residue \in 0..rate : Admit(relevance, residue)
    /\ UNCHANGED hotvars

FilterNext ==
    \/ \E relevance \in Relevances : Judge(relevance)
    \/ HotswapNext /\ UNCHANGED gvars

FilterSpec ==
    /\ FilterInit /\ [][FilterNext]_fvars
    /\ HotswapFairness
    /\ WF_fvars(\E relevance \in Relevances : Judge(relevance))

FilterTypeOK == GovernorTypeOK /\ HotswapTypeOK
=============================================================================
