------------------------------ MODULE Governor ------------------------------
(***************************************************************************)
(* The admission governor of an enrich pod (services/enrich/governor.py):  *)
(* a threshold theta on the relevance of social items that rises while the *)
(* admitted rate is over the budget and falls back while it is under it.   *)
(*                                                                         *)
(* theta and relevance are integers on one scale.  The unit of the rate is *)
(* the most an admitted event can add to it, ln 2 / ewma_halflife_s: the   *)
(* code adds (1 - decay) / dt, which is never more.  How far the rate      *)
(* decays between two events depends on the time between them, which is a  *)
(* choice.  Relaxation is rounded up, where the code has a 1e-9.           *)
(***************************************************************************)
EXTENDS Integers

CONSTANTS Budget,              \* budget_per_s, in units of the rate
          Floor, Ceiling,      \* theta_floor, theta_ceiling
          Step, Slew,          \* additive_step, slew_max
          RelaxNum, RelaxDen,  \* relax_rate
          Relevances           \* what CheapFilter.relevance returns

ASSUME GovernorConfig ==
    /\ Budget \in Nat
    /\ Floor \in Nat /\ Ceiling \in Nat /\ Floor <= Ceiling
    /\ Step \in Nat \ {0} /\ Slew \in Nat /\ Step <= Slew
    /\ RelaxNum \in Nat /\ RelaxDen \in Nat \ {0} /\ RelaxNum <= RelaxDen
    /\ Relevances \subseteq Nat

VARIABLES theta,
          rate,     \* EWMA of the admitted events, rounded down
          started   \* _last_t is not None

gvars == <<theta, rate, started>>

GovernorTypeOK ==
    /\ theta \in Floor..Ceiling
    /\ rate \in Nat
    /\ started \in BOOLEAN

GovernorInit == theta = Floor /\ rate = 0 /\ started = FALSE

\* The dead band is 10% of the budget on either side.
Over(x)  == 10 * x > 11 * Budget
Under(x) == 10 * x < 9 * Budget

Quiet == {x \in Nat : Under(x)}

AtMost(limit, x)  == IF x > limit THEN limit ELSE x
AtLeast(limit, x) == IF x < limit THEN limit ELSE x

Relaxation(t) == AtMost(Slew, ((t - Floor) * RelaxNum + RelaxDen - 1) \div RelaxDen)

\* Mutant: nothing happens below the budget.
StepOnlyUp(t, x) == IF Over(x) THEN AtMost(Ceiling, t + AtMost(Slew, Step)) ELSE t

\* Mutant: the threshold is relaxed inside the dead band and above it.
StepRelaxesAlways(t, x) == AtLeast(Floor, t - Relaxation(t))

\* Mutant: the result is not clamped.
StepUnclamped(t, x) ==
    IF Over(x) THEN t + AtMost(Slew, Step)
    ELSE IF Under(x) THEN t - Relaxation(t) ELSE t

\* _step: additive increase over budget, multiplicative decrease under it, none in
\* the dead band; slew limit; clamp.
StepTheta(t, x) ==
    IF Over(x) THEN AtMost(Ceiling, t + AtMost(Slew, Step))
    ELSE IF Under(x) THEN AtLeast(Floor, t - Relaxation(t))
    ELSE t

\* admit of a social or mainstream item: the verdict is the old theta's, the rate of
\* the event is in the new one.  The first event has no dt and no sample.
Admit(relevance, residue) ==
    /\ residue \in 0..rate
    /\ rate' = IF ~started THEN rate
               ELSE residue + (IF relevance >= theta THEN 1 ELSE 0)
    /\ started' = TRUE
    /\ theta' = StepTheta(theta, rate')

GovernorNext == \E relevance \in Relevances : \E residue \in 0..rate : Admit(relevance, residue)

GovernorSpec == GovernorInit /\ [][GovernorNext]_gvars

----------------------------------------------------------------------------
(* Properties                                                              *)

\* theta keeps pace with the rate: at k events above the dead band it has climbed
\* k + 1 steps from the floor, whatever the timing of events and decays.
KeepsPace ==
    \A k \in 0..rate :
        Over(rate - k) => theta >= AtMost(Ceiling, Floor + Step * (k + 1))

\* So a burst carries the admitted rate past the budget by no more events than it
\* takes theta to climb above the most relevant of them; only items at the ceiling
\* get further ("holds the embed survivor rate at the budget", governor.py).
OvershootBounded ==
    \A k \in 0..rate :
        Over(rate - 1 - k) =>
            \E relevance \in Relevances : AtMost(Ceiling, Floor + Step * (k + 1)) <= relevance

\* Once the traffic stays under the budget the shedding ends, though the decrease is
\* multiplicative and never reaches the floor by itself.
SheddingEnds == []<>(theta = Floor \/ rate \notin Quiet)
=============================================================================
