--------------------------------- MODULE Gate ---------------------------------
(***************************************************************************)
(* The gate a candidate model has to pass (services/retrain/evalx.py): the *)
(* labelled rows split by time, F1 on the newer ones, the floors.  A row   *)
(* is [id, ts, label, text], id the item it is of; what a model says of a  *)
(* text at the threshold is 0 or 1.                                        *)
(***************************************************************************)
EXTENDS Ordering, SequencesExt

CONSTANTS MaxRows,               \* RETRAIN_MAX_ROWS
          MinRows, MinPerClass,  \* the floors
          EvalNum, EvalDen       \* EVAL_FRAC

ASSUME GateConfig ==
    /\ MaxRows \in Nat /\ MinRows \in Nat /\ MinPerClass \in Nat
    /\ EvalNum \in Nat /\ EvalDen \in Nat \ {0} /\ EvalNum <= EvalDen

Unlabeled == -1

Oldest == 1
Newest == -1

\* Those rows, the oldest or newest first; rows of one time stay in their order.
ByTime(rows, those, first) ==
    InOrder(those, {p \in those \X those :
        \/ first * rows[p[1]].ts < first * rows[p[2]].ts
        \/ rows[p[1]].ts = rows[p[2]].ts /\ p[1] < p[2]})

AtMost(n, limit) == IF n < limit THEN n ELSE limit

\* Mutant: rows without a label are taken for negative ones.
FetchLabelsOfAll(view) ==
    LET order == ByTime(view, DOMAIN view, Newest)
    IN  [k \in 1..AtMost(Len(view), MaxRows) |->
            [view[order[k]] EXCEPT !.label = IF @ = Unlabeled THEN 0 ELSE @]]

\* fetch_labels: the newest MaxRows labelled rows, newest first.
FetchLabels(view) ==
    LET labeled == {k \in DOMAIN view : view[k].label # Unlabeled}
        order == ByTime(view, labeled, Newest)
    IN  [k \in 1..AtMost(Cardinality(labeled), MaxRows) |-> view[order[k]]]

\* round, half to even
Round(num, den) ==
    LET down == num \div den
        twice == 2 * (num % den)
    IN  IF twice > den \/ (twice = den /\ down % 2 = 1) THEN down + 1 ELSE down

Between(low, high, x) == IF x > high THEN high ELSE IF x < low THEN low ELSE x

\* Mutant: the rows are cut in the order they were fetched in.
TimeSplitUnsorted(rows) ==
    LET n == Len(rows)
        held == IF n >= 2 THEN Between(1, n - 1, Round(n * EvalNum, EvalDen)) ELSE 0
    IN  [train |-> SubSeq(rows, 1, n - held), eval |-> SubSeq(rows, n - held + 1, n)]

\* Mutant: the row at the boundary is on both sides.
TimeSplitShared(rows) ==
    LET n == Len(rows)
        held == IF n >= 2 THEN Between(1, n - 1, Round(n * EvalNum, EvalDen)) ELSE 0
        order == ByTime(rows, DOMAIN rows, Oldest)
        ordered == [k \in 1..n |-> rows[order[k]]]
    IN  [train |-> SubSeq(ordered, 1, n - held), eval |-> SubSeq(ordered, n - held, n)]

\* time_split: the newest rows are held out, at least one and never all.
TimeSplit(rows) ==
    LET n == Len(rows)
        held == IF n >= 2 THEN Between(1, n - 1, Round(n * EvalNum, EvalDen)) ELSE 0
        order == ByTime(rows, DOMAIN rows, Oldest)
        ordered == [k \in 1..n |-> rows[order[k]]]
    IN  [train |-> SubSeq(ordered, 1, n - held), eval |-> SubSeq(ordered, n - held + 1, n)]

Count(rows, class) == Cardinality({k \in DOMAIN rows : rows[k].label = class})

\* f1_metrics as num / den: 0 without a true positive.
F1(model, rows) ==
    LET said(y, label) ==
            Cardinality({k \in DOMAIN rows : model[rows[k].text] = y /\ rows[k].label = label})
        tp == said(1, 1)
        fp == said(1, 0)
        fn == said(0, 1)
    IN  IF tp = 0 THEN [num |-> 0, den |-> 1]
        ELSE [num |-> 2 * tp, den |-> 2 * tp + fp + fn]

MeetsFloors(rows) ==
    /\ Len(rows) >= MinRows
    /\ \A class \in {0, 1} : Count(rows, class) >= MinPerClass

\* should_promote; current is a set, empty without an incumbent.
ShouldPromote(candidate, current, rows) ==
    /\ MeetsFloors(rows)
    /\ \A incumbent \in current :
          LET held == TimeSplit(rows).eval
              new == F1(candidate, held)
              old == F1(incumbent, held)
          IN  new.num * old.den >= old.num * new.den
=============================================================================
