------------------------- MODULE AccountsProperties -------------------------
(***************************************************************************)
(* What accounts, sessions and impersonations promise.                     *)
(***************************************************************************)
EXTENDS Accounts

\* A mailed link works once: however many tabs follow it at a time, one of them
\* changes the account, and the password is never changed but by a link that is
\* spent by it (PasswordResetTokensRepo.Consume, EmailVerificationTokensRepo.Consume).
LinkWorksOnce ==
    /\ \A l \in Links : uses[l] = IF link[l].state = "spent" THEN 1 ELSE 0
    /\ \A u \in Users : account[u].verified =>
           u \in PlatformAdmins \/ \E l \in inbox :
               link[l] = [state |-> "spent", kind |-> "verify", user |-> u]

\* In a window without a success an address fails fewer times than the limit,
\* and once more for each other login that was under way beside its last
\* (LoginLimiter: Check and RecordFailure lock separately).
FailuresBounded == Len(failures) < MaxPerWindow + Cardinality(Requests)

\* An address that has failed is let in again: neither the wait nor the window
\* shuts it out for good, although the streak is only ended by a success
\* (LoginLimiter.Check).
LetInAgain == []<>Allowed

\* While a session acts for another user, its entry in the log is open: it is
\* written before the session is, and ended after the session is revoked, unless
\* the revocation failed (ImpersonationStart, ImpersonationStop).
ActingIsLogged ==
    \A s \in Sessions :
        Live(s) /\ session[s].acting # None => log[s] = "open" \/ s \in unrevoked

=============================================================================
