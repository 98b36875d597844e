--------------------------- MODULE MCAlertDispatch ---------------------------
(***************************************************************************)
(* Small instances of alert dispatch for TLC.                              *)
(***************************************************************************)
EXTENDS AlertDispatchProperties, TLC

CONSTANTS a1, a2, d1, d2, d3, u1, u2

\* d1 reports a failed attempt of a1 and d2 the success after it; d3 is about
\* the next audit.
RetriedAudit == [d \in Dispatches |-> IF d = d3 THEN a2 ELSE a1]

OneAudit == [d \in Dispatches |-> a1]

\* Both audits drop below the thresholds of u1; a2 not enough for u2.
Drops      == [a \in Audits |-> IF a = a1 THEN -10 ELSE -5]
Thresholds == [u \in Users |-> IF u = u1 THEN 5 ELSE 10]

\* Everything on, or score drops only.
AllOrDrops == {Triggers, {"score_drop"}}

=============================================================================
