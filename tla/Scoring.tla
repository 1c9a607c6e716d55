------------------------------- MODULE Scoring -------------------------------
(***************************************************************************)
(* The arithmetic of services/score: acceleration of a mention series,     *)
(* coordinated inauthenticity and the gap.  Rationals are kept as integers *)
(* over a common denominator, and a z-score as its numerator M with the    *)
(* square V of its denominator, so that nothing is rounded.                *)
(***************************************************************************)
EXTENDS Integers, Sequences, FiniteSetsExt, Folds

Min2(a, b) == IF a <= b THEN a ELSE b
Max2(a, b) == IF a >= b THEN a ELSE b

----------------------------------------------------------------------------
(* velocity.py                                                             *)

\* Mutant: a silent bin is left out of the series.
FillSeriesSparse(buckets, since, until) ==
    LET bins == {t \in since..until : t \in DOMAIN buckets}
        nth(k) == CHOOSE t \in bins : Cardinality({u \in bins : u <= t}) = k
    IN  [k \in 1..Cardinality(bins) |-> buckets[nth(k)]]

\* One entry per bin from since to until, zero where no row is.
FillSeries(buckets, since, until) ==
    [k \in 1..(until - since + 1) |->
        IF since + k - 1 \in DOMAIN buckets THEN buckets[since + k - 1] ELSE 0]

\* ewma with alpha = a / d, every entry times d^(n-1), so that the divisions are exact.
Ewma(series, a, d) ==
    LET n == Len(series)
        power[k \in 1..n] == IF k = 1 THEN 1 ELSE d * power[k - 1]
        s[i \in 1..n] == IF i = 1 THEN power[n] * series[1]
                         ELSE (a * power[n] * series[i] + (d - a) * s[i - 1]) \div d
    IN  s

Accelerations(series, a, d) ==
    LET s == Ewma(series, a, d)
    IN  [i \in 1..(Len(series) - 2) |-> s[i + 2] - 2 * s[i + 1] + s[i]]

SumTo(f, n) == MapThenSumSet(LAMBDA i : f[i], 1..n)

\* Mutant: the latest acceleration is part of its own baseline.
VelocityZOwnBaseline(series, a, d, minBuckets, flat) ==
    IF Len(series) < minBuckets THEN [M |-> 0, V |-> 1]
    ELSE LET accel == Accelerations(series, a, d)
             b == Len(accel)
             sum == SumTo(accel, b)
             V == b * SumTo([i \in 1..b |-> accel[i] * accel[i]], b) - sum * sum
         IN  IF V > 0 THEN [M |-> b * accel[b] - sum, V |-> V]
             ELSE [M |-> 0, V |-> 1]

\* z = M / sqrt(V): the latest acceleration against mean and deviation of those
\* before it.  A flat baseline gives 0 or the bounded stand-in.
VelocityZ(series, a, d, minBuckets, flat) ==
    IF Len(series) < minBuckets THEN [M |-> 0, V |-> 1]
    ELSE LET accel == Accelerations(series, a, d)
             b == Len(accel) - 1
             latest == accel[b + 1]
             sum == SumTo(accel, b)
             V == b * SumTo([i \in 1..b |-> accel[i] * accel[i]], b) - sum * sum
         IN  IF V > 0 THEN [M |-> b * latest - sum, V |-> V]
             ELSE [M |-> IF latest = 0 THEN 0 ELSE flat, V |-> 1]

----------------------------------------------------------------------------
(* inauth.py: sig is [social, origins, copies, synced, lowRep]             *)

MinSocial == 5

\* The weighted shares, num / den.
Inauthenticity(sig) ==
    IF sig.social < MinSocial THEN [num |-> 0, den |-> 1]
    ELSE LET share(x) == Max2(0, Min2(sig.social, x)) IN
         [num |-> 3 * share(sig.social - sig.origins) + 3 * share(sig.copies)
                  + 2 * share(sig.synced) + 2 * share(sig.lowRep),
          den |-> 10 * sig.social]

\* inauthenticity >= FLAG_THRESHOLD.
Flagged(q) == 10 * q.num >= 7 * q.den

----------------------------------------------------------------------------
(* The gap                                                                 *)

\* CORROBORATION_WEIGHT, in tenths.
Weight(trust) == CASE trust = "rumor" -> 0 [] trust = "corroborated" -> 7
                   [] trust = "primary_backed" -> 10

Saturation == 3   \* MAINSTREAM_SATURATION

\* gap_score > GAP_THRESHOLD (2.0) for an integral z.
GapExceeds(z, mainstream, trust, q) ==
    Max2(0, z) * (Saturation - Min2(Saturation, mainstream)) * Weight(trust)
        * (q.den - q.num) > 2 * Saturation * 10 * q.den
=============================================================================
