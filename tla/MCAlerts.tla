------------------------------ MODULE MCAlerts ------------------------------
EXTENDS Alerts

ScoringFails == [kind \in FaultKinds |-> IF kind = "score" THEN 1 ELSE 0]
NotifyFails == [kind \in FaultKinds |-> IF kind = "score" THEN 0 ELSE 1]

EitherFails == {ScoringFails, NotifyFails}

\* The evidence changes while a cycle may fail; or it stands still while a POST may fail
\* and the notifier restart.  The notifier reads nothing but the alerts.
EitherInit == Init /\ changes = IF left = ScoringFails THEN MaxChanges ELSE 0

EitherSpec == EitherInit /\ [][Next]_vars /\ Fairness
=============================================================================
