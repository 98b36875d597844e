----------------------- MODULE AlertDispatchProperties -----------------------
(***************************************************************************)
(* What alerting promises.                                                 *)
(***************************************************************************)
EXTENDS AlertDispatch, FiniteSets

\* The limit of one alert per user and store in 24 hours holds for the
\* triggers it is for, as long as the store's audits are reported one after
\* the other and no lookup fails (dispatcher.go:99-113, 222-236): whatever
\* emails fail and whichever audits the alerts are about.
RateLimit ==
    serial =>
        \A u \in Users :
            Cardinality({x \in log \ old : x[2] = u /\ x[3] \notin AlwaysSend}) <= 1

\* A new critical issue or a failed audit is alerted to every subscriber the
\* dispatch found, however recent the last alert was.
CriticalNeverThrottled ==
    \A d \in Steady, u \in Users, t \in AlwaysSend :
        (\E n \in DOMAIN todo[d] : todo[d][n] = <<u, t>>) ~> mails[<<AuditOf[d], u, t>>] > 0

=============================================================================
