---------------------------- MODULE WorkerProofs -----------------------------
(***************************************************************************)
(* The worker: its job queue and the audit pipeline that the queue runs,   *)
(* for any sets of jobs and worker processes and any limits.  The safety   *)
(* of the queue comes first, by itself; then the pipeline implements the   *)
(* queue and, short of lost acknowledgements, the record of the audits,    *)
(* and what follows for reports, diffs and alerts.                         *)
(***************************************************************************)
EXTENDS AuditPipelineProperties, TLAPS

-----------------------------------------------------------------------------
(* The job queue.                                                          *)

\* A goroutine's outcome tells whether its job's kind has a handler.
OutcomeMatchesKind ==
    \A w \in Workers, j \in Jobs :
        /\ phase[w][j] \in {"ok", "err"} => j \in Registered
        /\ phase[w][j] = "unhandled" => j \notin Registered

\* A row that is yet to be inserted has not been claimed.
UnclaimedWhenAbsent == \A j \in Jobs : status[j] = "absent" => attempts[j] = 0

\* The inductive invariant.  HolderOwnsRow is what makes the unconditional
\* mark statements safe: it turns the attempt number in a goroutine's memory
\* into the row's, and the goroutine into the only one that can write the row.
IInv ==
    /\ TypeOK
    /\ OutcomeMatchesKind
    /\ UnclaimedWhenAbsent
    /\ HolderOwnsRow
    /\ AttemptsWithinBudget
    /\ DeadIsEarned
    /\ OnlyFaultsOrphan

\* The backoff a retry waits for is an entry of Backoffs, whatever the attempt.
LEMMA BackoffInRange ==
    ASSUME NEW a \in Nat
    PROVE  BackoffIndex(a) \in 1 .. NumBackoffs
BY QueueConstants DEF BackoffIndex

LEMMA InitIInv == Init => IInv
BY QueueConstants DEF Init, IInv, TypeOK, OutcomeMatchesKind, UnclaimedWhenAbsent, HolderOwnsRow,
   AttemptsWithinBudget, DeadIsEarned, OnlyFaultsOrphan, Orphan, Held,
   IdleSlots, Status, Phase, Proc, Outcome, Terminal

LEMMA TypeStep == TypeOK /\ [Next]_vars => TypeOK'
<1> SUFFICES ASSUME TypeOK, [Next]_vars PROVE TypeOK'
  OBVIOUS
<1> USE QueueConstants DEF TypeOK, Status, Phase, Proc, Outcome, Terminal
<1>1. ASSUME NEW j \in Jobs, Enqueue(j) PROVE TypeOK'
  BY <1>1 DEF Enqueue, slotVars
<1>2. ASSUME NEW j \in Jobs, BackoffElapsed(j) PROVE TypeOK'
  BY <1>2 DEF BackoffElapsed, slotVars
<1>3. ASSUME NEW t \in Tenants, TenantDeleted(t) PROVE TypeOK'
  BY <1>3 DEF TenantDeleted, slotVars
<1>4. ASSUME NEW w \in Workers, Start(w) \/ Cancel(w) \/ DrainDone(w) PROVE TypeOK'
  BY <1>4 DEF Start, Cancel, DrainDone, rowVars, slotVars
<1>5. ASSUME NEW w \in Workers, Killed(w) PROVE TypeOK'
  BY <1>5 DEF Killed, rowVars
<1>6. ASSUME NEW w \in Workers, NEW j \in Jobs, Claim(w, j) PROVE TypeOK'
  BY <1>6 DEF Claim, TakeRow
<1>7. ASSUME NEW w \in Workers, NEW j \in Jobs, ClaimLost(w, j) PROVE TypeOK'
  BY <1>7 DEF ClaimLost, TakeRow, slotVars
<1>8. ASSUME NEW w \in Workers, NEW j \in Jobs, NEW r \in Outcome, HandlerReturns(w, j, r)
      PROVE  TypeOK'
  BY <1>8 DEF HandlerReturns, rowVars
<1>9. ASSUME NEW w \in Workers, NEW j \in Jobs, MarkSucceeded(w, j)
      PROVE  TypeOK'
  BY <1>9 DEF MarkSucceeded, Write, Release
<1>10. ASSUME NEW w \in Workers, NEW j \in Jobs, MarkRetry(w, j)
      PROVE  TypeOK'
  BY <1>10, BackoffInRange DEF MarkRetry, Write, Release
<1>11. ASSUME NEW w \in Workers, NEW j \in Jobs, MarkDead(w, j)
      PROVE  TypeOK'
  BY <1>11 DEF MarkDead, Write, Release
<1>12. ASSUME NEW w \in Workers, NEW j \in Jobs, MarkFails(w, j)
      PROVE  TypeOK'
  BY <1>12 DEF MarkFails, Release, rowVars
<1>13. CASE UNCHANGED vars
  BY <1>13 DEF vars, rowVars, slotVars
<1> QED
  BY <1>1, <1>2, <1>3, <1>4, <1>5, <1>6, <1>7, <1>8, <1>9, <1>10, <1>11, <1>12, <1>13
  DEF Next

\* Each action keeps each conjunct; the attempt bound and the orphan bound
\* need to know that the acting goroutine owns the row it writes.
LEMMA IInvStep == IInv /\ [Next]_vars => IInv'
<1> SUFFICES ASSUME IInv, [Next]_vars, TypeOK' PROVE IInv'
  BY TypeStep DEF IInv
<1> USE QueueConstants DEF IInv, TypeOK, Status, Phase, Proc, Outcome, Terminal
<1>1. ASSUME NEW j \in Jobs, Enqueue(j)
      PROVE  IInv'
  <2>1. (OutcomeMatchesKind /\ UnclaimedWhenAbsent)'
    BY <1>1 DEF Enqueue, slotVars, OutcomeMatchesKind, UnclaimedWhenAbsent, HolderOwnsRow
  <2>2. HolderOwnsRow'
    BY <1>1 DEF Enqueue, slotVars, HolderOwnsRow
  <2>3. AttemptsWithinBudget'
    BY <1>1 DEF Enqueue, slotVars, AttemptsWithinBudget, HolderOwnsRow, UnclaimedWhenAbsent
  <2>4. DeadIsEarned'
    BY <1>1 DEF Enqueue, slotVars, DeadIsEarned
  <2>5. OnlyFaultsOrphan'
    BY <1>1 DEF Enqueue, slotVars, OnlyFaultsOrphan, Orphan, Held, HolderOwnsRow
  <2> QED
    BY <2>1, <2>2, <2>3, <2>4, <2>5
<1>2. ASSUME NEW j \in Jobs, BackoffElapsed(j)
      PROVE  IInv'
  <2>1. (OutcomeMatchesKind /\ UnclaimedWhenAbsent)'
    BY <1>2 DEF BackoffElapsed, slotVars, OutcomeMatchesKind, UnclaimedWhenAbsent, HolderOwnsRow
  <2>2. HolderOwnsRow'
    BY <1>2 DEF BackoffElapsed, slotVars, HolderOwnsRow
  <2>3. AttemptsWithinBudget'
    BY <1>2 DEF BackoffElapsed, slotVars, AttemptsWithinBudget, HolderOwnsRow
  <2>4. DeadIsEarned'
    BY <1>2 DEF BackoffElapsed, slotVars, DeadIsEarned
  <2>5. OnlyFaultsOrphan'
    BY <1>2 DEF BackoffElapsed, slotVars, OnlyFaultsOrphan, Orphan, Held, HolderOwnsRow
  <2> QED
    BY <2>1, <2>2, <2>3, <2>4, <2>5
<1>3. ASSUME NEW t \in Tenants, TenantDeleted(t)
      PROVE  IInv'
  <2>1. (OutcomeMatchesKind /\ UnclaimedWhenAbsent)'
    BY <1>3 DEF TenantDeleted, slotVars, OutcomeMatchesKind, UnclaimedWhenAbsent, HolderOwnsRow
  <2>2. HolderOwnsRow'
    BY <1>3 DEF TenantDeleted, slotVars, HolderOwnsRow
  <2>3. AttemptsWithinBudget'
    BY <1>3 DEF TenantDeleted, slotVars, AttemptsWithinBudget, HolderOwnsRow
  <2>4. DeadIsEarned'
    BY <1>3 DEF TenantDeleted, slotVars, DeadIsEarned
  <2>5. OnlyFaultsOrphan'
    BY <1>3 DEF TenantDeleted, slotVars, OnlyFaultsOrphan, Orphan, Held, HolderOwnsRow
  <2> QED
    BY <2>1, <2>2, <2>3, <2>4, <2>5
<1>4. ASSUME NEW w \in Workers, Start(w)
      PROVE  IInv'
  <2>1. (OutcomeMatchesKind /\ UnclaimedWhenAbsent)'
    BY <1>4 DEF Start, rowVars, slotVars, OutcomeMatchesKind, UnclaimedWhenAbsent, HolderOwnsRow
  <2>2. HolderOwnsRow'
    BY <1>4 DEF Start, rowVars, slotVars, HolderOwnsRow
  <2>3. AttemptsWithinBudget'
    BY <1>4 DEF Start, rowVars, slotVars, AttemptsWithinBudget, HolderOwnsRow
  <2>4. DeadIsEarned'
    BY <1>4 DEF Start, rowVars, slotVars, DeadIsEarned
  <2>5. OnlyFaultsOrphan'
    BY <1>4 DEF Start, rowVars, slotVars, OnlyFaultsOrphan, Orphan, Held, HolderOwnsRow
  <2> QED
    BY <2>1, <2>2, <2>3, <2>4, <2>5
<1>5. ASSUME NEW w \in Workers, Cancel(w)
      PROVE  IInv'
  <2>1. (OutcomeMatchesKind /\ UnclaimedWhenAbsent)'
    BY <1>5 DEF Cancel, rowVars, slotVars, OutcomeMatchesKind, UnclaimedWhenAbsent, HolderOwnsRow
  <2>2. HolderOwnsRow'
    BY <1>5 DEF Cancel, rowVars, slotVars, HolderOwnsRow
  <2>3. AttemptsWithinBudget'
    BY <1>5 DEF Cancel, rowVars, slotVars, AttemptsWithinBudget, HolderOwnsRow
  <2>4. DeadIsEarned'
    BY <1>5 DEF Cancel, rowVars, slotVars, DeadIsEarned
  <2>5. OnlyFaultsOrphan'
    BY <1>5 DEF Cancel, rowVars, slotVars, OnlyFaultsOrphan, Orphan, Held, HolderOwnsRow
  <2> QED
    BY <2>1, <2>2, <2>3, <2>4, <2>5
<1>6. ASSUME NEW w \in Workers, DrainDone(w)
      PROVE  IInv'
  <2>1. (OutcomeMatchesKind /\ UnclaimedWhenAbsent)'
    BY <1>6 DEF DrainDone, InFlight, rowVars, slotVars, OutcomeMatchesKind, UnclaimedWhenAbsent, HolderOwnsRow
  <2>2. HolderOwnsRow'
    BY <1>6 DEF DrainDone, InFlight, rowVars, slotVars, HolderOwnsRow
  <2>3. AttemptsWithinBudget'
    BY <1>6 DEF DrainDone, InFlight, rowVars, slotVars, AttemptsWithinBudget, HolderOwnsRow
  <2>4. DeadIsEarned'
    BY <1>6 DEF DrainDone, InFlight, rowVars, slotVars, DeadIsEarned
  <2>5. OnlyFaultsOrphan'
    BY <1>6 DEF DrainDone, InFlight, rowVars, slotVars, OnlyFaultsOrphan, Orphan, Held, HolderOwnsRow
  <2> QED
    BY <2>1, <2>2, <2>3, <2>4, <2>5
<1>7. ASSUME NEW w \in Workers, Killed(w)
      PROVE  IInv'
  <2>1. (OutcomeMatchesKind /\ UnclaimedWhenAbsent)'
    BY <1>7 DEF Killed, rowVars, OutcomeMatchesKind, UnclaimedWhenAbsent, HolderOwnsRow
  <2>2. HolderOwnsRow'
    BY <1>7 DEF Killed, rowVars, HolderOwnsRow
  <2>3. AttemptsWithinBudget'
    BY <1>7 DEF Killed, rowVars, AttemptsWithinBudget, HolderOwnsRow
  <2>4. DeadIsEarned'
    BY <1>7 DEF Killed, rowVars, DeadIsEarned
  <2>5. OnlyFaultsOrphan'
    BY <1>7 DEF Killed, rowVars, OnlyFaultsOrphan, Orphan, Held, HolderOwnsRow
  <2> QED
    BY <2>1, <2>2, <2>3, <2>4, <2>5
<1>8. ASSUME NEW w \in Workers, NEW j \in Jobs, Claim(w, j)
      PROVE  IInv'
  <2>1. (OutcomeMatchesKind /\ UnclaimedWhenAbsent)'
    BY <1>8 DEF Claim, TakeRow, Claimable, OutcomeMatchesKind, UnclaimedWhenAbsent, HolderOwnsRow
  <2>2. HolderOwnsRow'
    BY <1>8 DEF Claim, TakeRow, Claimable, HolderOwnsRow
  <2>3. AttemptsWithinBudget'
    BY <1>8 DEF Claim, TakeRow, Claimable, AttemptsWithinBudget, HolderOwnsRow
  <2>4. DeadIsEarned'
    BY <1>8 DEF Claim, TakeRow, Claimable, DeadIsEarned
  <2>5. OnlyFaultsOrphan'
    BY <1>8 DEF Claim, TakeRow, Claimable, OnlyFaultsOrphan, Orphan, Held, HolderOwnsRow
  <2> QED
    BY <2>1, <2>2, <2>3, <2>4, <2>5
<1>9. ASSUME NEW w \in Workers, NEW j \in Jobs, ClaimLost(w, j)
      PROVE  IInv'
  <2>1. (OutcomeMatchesKind /\ UnclaimedWhenAbsent)'
    BY <1>9 DEF ClaimLost, TakeRow, Claimable, slotVars, OutcomeMatchesKind, UnclaimedWhenAbsent, HolderOwnsRow
  <2>2. HolderOwnsRow'
    BY <1>9 DEF ClaimLost, TakeRow, Claimable, slotVars, HolderOwnsRow
  <2>3. AttemptsWithinBudget'
    BY <1>9 DEF ClaimLost, TakeRow, Claimable, slotVars, AttemptsWithinBudget, HolderOwnsRow
  <2>4. DeadIsEarned'
    BY <1>9 DEF ClaimLost, TakeRow, Claimable, slotVars, DeadIsEarned
  <2>5. OnlyFaultsOrphan'
    BY <1>9 DEF ClaimLost, TakeRow, Claimable, slotVars, OnlyFaultsOrphan, Orphan, Held, HolderOwnsRow
  <2> QED
    BY <2>1, <2>2, <2>3, <2>4, <2>5
<1>10. ASSUME NEW w \in Workers, NEW j \in Jobs, NEW r \in Outcome, HandlerReturns(w, j, r)
      PROVE  IInv'
  <2>1. (OutcomeMatchesKind /\ UnclaimedWhenAbsent)'
    BY <1>10 DEF HandlerReturns, Outcomes, rowVars, OutcomeMatchesKind, UnclaimedWhenAbsent, HolderOwnsRow
  <2>2. HolderOwnsRow'
    BY <1>10 DEF HandlerReturns, Outcomes, rowVars, HolderOwnsRow
  <2>3. AttemptsWithinBudget'
    BY <1>10 DEF HandlerReturns, Outcomes, rowVars, AttemptsWithinBudget, HolderOwnsRow
  <2>4. DeadIsEarned'
    BY <1>10 DEF HandlerReturns, Outcomes, rowVars, DeadIsEarned
  <2>5. OnlyFaultsOrphan'
    BY <1>10 DEF HandlerReturns, Outcomes, rowVars, OnlyFaultsOrphan, Orphan, Held, HolderOwnsRow
  <2> QED
    BY <2>1, <2>2, <2>3, <2>4, <2>5
<1>11. ASSUME NEW w \in Workers, NEW j \in Jobs, MarkSucceeded(w, j)
      PROVE  IInv'
  <2>1. (OutcomeMatchesKind /\ UnclaimedWhenAbsent)'
    BY <1>11 DEF MarkSucceeded, Write, Release, OutcomeMatchesKind, UnclaimedWhenAbsent, HolderOwnsRow
  <2>2. HolderOwnsRow'
    BY <1>11 DEF MarkSucceeded, Write, Release, HolderOwnsRow
  <2>3. AttemptsWithinBudget'
    BY <1>11 DEF MarkSucceeded, Write, Release, AttemptsWithinBudget, HolderOwnsRow
  <2>4. DeadIsEarned'
    BY <1>11 DEF MarkSucceeded, Write, Release, DeadIsEarned
  <2>5. OnlyFaultsOrphan'
    BY <1>11 DEF MarkSucceeded, Write, Release, OnlyFaultsOrphan, Orphan, Held, HolderOwnsRow
  <2> QED
    BY <2>1, <2>2, <2>3, <2>4, <2>5
<1>12. ASSUME NEW w \in Workers, NEW j \in Jobs, MarkRetry(w, j)
      PROVE  IInv'
  <2>1. (OutcomeMatchesKind /\ UnclaimedWhenAbsent)'
    BY <1>12 DEF MarkRetry, Exhausted, Write, Release, OutcomeMatchesKind, UnclaimedWhenAbsent, HolderOwnsRow
  <2>2. HolderOwnsRow'
    BY <1>12 DEF MarkRetry, Exhausted, Write, Release, HolderOwnsRow
  <2>3. AttemptsWithinBudget'
    BY <1>12 DEF MarkRetry, Exhausted, Write, Release, AttemptsWithinBudget, HolderOwnsRow
  <2>4. DeadIsEarned'
    BY <1>12 DEF MarkRetry, Exhausted, Write, Release, DeadIsEarned
  <2>5. OnlyFaultsOrphan'
    BY <1>12 DEF MarkRetry, Exhausted, Write, Release, OnlyFaultsOrphan, Orphan, Held, HolderOwnsRow
  <2> QED
    BY <2>1, <2>2, <2>3, <2>4, <2>5
<1>13. ASSUME NEW w \in Workers, NEW j \in Jobs, MarkDead(w, j)
      PROVE  IInv'
  <2>1. (OutcomeMatchesKind /\ UnclaimedWhenAbsent)'
    BY <1>13 DEF MarkDead, Exhausted, Write, Release, OutcomeMatchesKind, UnclaimedWhenAbsent, HolderOwnsRow
  <2>2. HolderOwnsRow'
    BY <1>13 DEF MarkDead, Exhausted, Write, Release, HolderOwnsRow
  <2>3. AttemptsWithinBudget'
    BY <1>13 DEF MarkDead, Exhausted, Write, Release, AttemptsWithinBudget, HolderOwnsRow
  <2>6. ASSUME phase[w][j] = "unhandled"
        PROVE  DeadIsEarned'
    BY <1>13, <2>6 DEF MarkDead, Write, Release, DeadIsEarned, OutcomeMatchesKind
  <2>7. ASSUME phase[w][j] = "err", seen[w][j] >= MaxAttempts
        PROVE  DeadIsEarned'
    <3>1. seen[w][j] = attempts[j]
      BY <2>7 DEF HolderOwnsRow
    <3>2. attempts[j] <= MaxAttempts /\ attempts[j] \in Nat
      BY DEF AttemptsWithinBudget
    <3>3. attempts[j] >= MaxAttempts
      BY <2>7, <3>1
    <3>4. MaxAttempts \in Nat
      BY QueueConstants
    <3>5. attempts[j] = MaxAttempts
      <4> HIDE DEF IInv, TypeOK
      <4> QED BY <3>2, <3>3, <3>4
    <3> QED
      BY <1>13, <3>5 DEF MarkDead, Write, Release, DeadIsEarned
  <2>4. DeadIsEarned'
    BY <1>13, <2>6, <2>7 DEF MarkDead, Exhausted
  <2>5. OnlyFaultsOrphan'
    BY <1>13 DEF MarkDead, Exhausted, Write, Release, OnlyFaultsOrphan, Orphan, Held, HolderOwnsRow
  <2> QED
    BY <2>1, <2>2, <2>3, <2>4, <2>5
<1>14. ASSUME NEW w \in Workers, NEW j \in Jobs, MarkFails(w, j)
      PROVE  IInv'
  <2>1. (OutcomeMatchesKind /\ UnclaimedWhenAbsent)'
    BY <1>14 DEF MarkFails, Release, rowVars, OutcomeMatchesKind, UnclaimedWhenAbsent, HolderOwnsRow
  <2>2. HolderOwnsRow'
    BY <1>14 DEF MarkFails, Release, rowVars, HolderOwnsRow
  <2>3. AttemptsWithinBudget'
    BY <1>14 DEF MarkFails, Release, rowVars, AttemptsWithinBudget, HolderOwnsRow
  <2>4. DeadIsEarned'
    BY <1>14 DEF MarkFails, Release, rowVars, DeadIsEarned
  <2>5. OnlyFaultsOrphan'
    BY <1>14 DEF MarkFails, Release, rowVars, OnlyFaultsOrphan, Orphan, Held, HolderOwnsRow
  <2> QED
    BY <2>1, <2>2, <2>3, <2>4, <2>5
<1>15. CASE UNCHANGED vars
  BY <1>15 DEF vars, rowVars, slotVars, OutcomeMatchesKind, UnclaimedWhenAbsent,
     HolderOwnsRow, AttemptsWithinBudget, DeadIsEarned, OnlyFaultsOrphan, Orphan, Held
<1> QED
  BY <1>1, <1>2, <1>3, <1>4, <1>5, <1>6, <1>7, <1>8, <1>9, <1>10,
     <1>11, <1>12, <1>13, <1>14, <1>15 DEF Next

THEOREM Invariance == Spec => []IInv
BY InitIInv, IInvStep, PTL DEF Spec

-----------------------------------------------------------------------------

\* Every column and every goroutine stays within its type.
THEOREM TypeCorrect == Spec => []TypeOK
BY Invariance, PTL DEF IInv

\* A goroutine that holds a job owns its row: the mark statements need no
\* check of status or locked_by.
THEOREM HolderOwnsRowAlways == Spec => []HolderOwnsRow
BY Invariance, PTL DEF IInv

\* No job is ever run by two goroutines at once, in one process or in two.
THEOREM MutualExclusionAlways == Spec => []MutualExclusion
<1>1. HolderOwnsRow => MutualExclusion
  BY DEF HolderOwnsRow, MutualExclusion
<1> QED
  BY <1>1, HolderOwnsRowAlways, PTL

\* No row is run more often than its max_attempts.
THEOREM AttemptsWithinBudgetAlways == Spec => []AttemptsWithinBudget
BY Invariance, PTL DEF IInv

\* No job is given up while it has an attempt and a handler left.
THEOREM DeadIsEarnedAlways == Spec => []DeadIsEarned
BY Invariance, PTL DEF IInv

\* A row stranded at running was claimed by a process that failed.
THEOREM OnlyFaultsOrphanAlways == Spec => []OnlyFaultsOrphan
BY Invariance, PTL DEF IInv

\* No statement rewrites a finished job or brings a deleted one back.
THEOREM SettledForeverAlways == Spec => SettledForever
<1>1. IInv /\ [Next]_vars =>
        [\A j \in Jobs :
            status[j] \in Terminal \cup {"gone"} =>
                /\ status'[j] \in {status[j], "gone"}
                /\ attempts'[j] = attempts[j]
                /\ lockedBy'[j] = lockedBy[j]]_vars
  <2> SUFFICES ASSUME IInv, Next, NEW j \in Jobs,
                      status[j] \in Terminal \cup {"gone"}
               PROVE  /\ status'[j] \in {status[j], "gone"}
                      /\ attempts'[j] = attempts[j]
                      /\ lockedBy'[j] = lockedBy[j]
    OBVIOUS
  <2> USE DEF IInv, TypeOK, Terminal
  <2>1. ASSUME NEW k \in Jobs, Enqueue(k) \/ BackoffElapsed(k)
        PROVE  /\ status'[j] \in {status[j], "gone"}
               /\ attempts'[j] = attempts[j]
               /\ lockedBy'[j] = lockedBy[j]
    BY <2>1 DEF Enqueue, BackoffElapsed
  <2>2. ASSUME NEW t \in Tenants, TenantDeleted(t)
        PROVE  /\ status'[j] \in {status[j], "gone"}
               /\ attempts'[j] = attempts[j]
               /\ lockedBy'[j] = lockedBy[j]
    BY <2>2 DEF TenantDeleted
  <2>3. ASSUME NEW w \in Workers, Start(w) \/ Cancel(w) \/ DrainDone(w) \/ Killed(w)
        PROVE  UNCHANGED <<status, attempts, lockedBy>>
    BY <2>3 DEF Start, Cancel, DrainDone, Killed, rowVars
  <2>4. ASSUME NEW w \in Workers, NEW k \in Jobs, Claim(w, k) \/ ClaimLost(w, k)
        PROVE  /\ status'[j] = status[j]
               /\ attempts'[j] = attempts[j]
               /\ lockedBy'[j] = lockedBy[j]
    BY <2>4 DEF Claim, ClaimLost, TakeRow, Claimable
  <2>5. ASSUME NEW w \in Workers, NEW k \in Jobs,
               (\E r \in Outcome : HandlerReturns(w, k, r)) \/ MarkFails(w, k)
        PROVE  UNCHANGED <<status, attempts, lockedBy>>
    BY <2>5 DEF HandlerReturns, MarkFails, rowVars
  <2>6. ASSUME NEW w \in Workers, NEW k \in Jobs,
               MarkSucceeded(w, k) \/ MarkRetry(w, k) \/ MarkDead(w, k)
        PROVE  /\ status'[j] = status[j]
               /\ attempts'[j] = attempts[j]
               /\ lockedBy'[j] = lockedBy[j]
    <3>1. phase[w][k] # "none"
      BY <2>6 DEF MarkSucceeded, MarkRetry, MarkDead
    <3>2. k # j \/ status[k] = "gone"
      BY <3>1 DEF HolderOwnsRow
    <3> QED
      BY <2>6, <3>2 DEF MarkSucceeded, MarkRetry, MarkDead, Write
  <2> QED
    BY <2>1, <2>2, <2>3, <2>4, <2>5, <2>6 DEF Next
<1> QED
  BY <1>1, Invariance, PTL DEF Spec, SettledForever

-----------------------------------------------------------------------------
(* The audit pipeline.                                                     *)

Shape ==
    /\ audit \in [Jobs -> AuditStatus]
    /\ step \in [Workers -> [Jobs -> Step]]
    /\ fired \subseteq Jobs \X Nat \X Verdict

\* Pipeline.Run is under way for as long as the queue's handler is.
HandlerRuns ==
    \A w \in Workers, j \in Jobs : step[w][j] # "idle" <=> phase[w][j] = "handling"

\* Who is to say, or has said, that an audit is done has committed its report.
SuccessIsCommitted ==
    \A j \in Jobs :
        /\ status[j] = "succeeded" => audit[j] \in {"succeeded", "gone"}
        /\ \A w \in Workers :
              phase[w][j] = "ok" \/ step[w][j] = "committedReport" =>
                  audit[j] \in {"succeeded", "gone"}

\* Once a report is committed the job is done, or about to be marked so, or
\* stranded; it is not tried again.  A commit reported as failed breaks this.
CommitIsFinal ==
    AckLoss \/ \A j \in Jobs :
        audit[j] = "succeeded" =>
            /\ status[j] \in {"running", "succeeded", "gone"}
            /\ \A w \in Workers :
                  phase[w][j] \in {"none", "ok"} \/ step[w][j] = "committedReport"

\* The attempt at work has started no alert yet.
AlertsArePast ==
    \A a \in fired :
        /\ a[2] <= attempts[a[1]]
        /\ \A w \in Workers : phase[w][a[1]] = "handling" => a[2] < attempts[a[1]]

\* An alert about a success ends the work on its audit.
SuccessIsFinal ==
    \A a \in fired :
        a[3] = "succeeded" =>
            /\ status[a[1]] \in {"running", "succeeded", "gone"}
            /\ \A w \in Workers : phase[w][a[1]] \in {"none", "ok"}

PInv ==
    /\ Shape
    /\ HandlerRuns
    /\ SuccessIsCommitted
    /\ CommitIsFinal
    /\ AlertsArePast
    /\ SuccessIsFinal
    /\ SuccessAlertIsLast

-----------------------------------------------------------------------------

LEMMA LeaveIsReturn ==
    ASSUME NEW w \in Workers, NEW j \in Jobs, NEW r \in {"ok", "err"}, Leave(w, j, r)
    PROVE  \E o \in Outcome : HandlerReturns(w, j, o)
BY DEF Leave, Outcome

LEMMA RunIsQueueStep ==
    ASSUME NEW w \in Workers, NEW j \in Jobs, Run(w, j)
    PROVE  [Next]_vars
<1>1. ASSUME StagesClose(w, j) \/ StageFails(w, j) PROVE UNCHANGED vars
  BY <1>1 DEF StagesClose, StageFails
<1>2. ASSUME SaveBegin(w, j) \/ SaveDiff(w, j) \/ SaveCommit(w, j) PROVE UNCHANGED vars
  BY <1>2 DEF SaveBegin, SaveDiff, SaveCommit
<1>3. ASSUME SaveFails(w, j) \/ AfterFailure(w, j) \/ AfterReport(w, j) PROVE Next
  <2>1. \E r \in {"ok", "err"} : Leave(w, j, r)
    BY <1>3 DEF SaveFails, AfterFailure, AfterReport
  <2> QED
    BY <2>1, LeaveIsReturn DEF Next
<1> QED
  BY <1>1, <1>2, <1>3 DEF Run

\* Every step of the pipeline is made of a step of the queue, or leaves the
\* queue alone: the invariant of the queue is one of the pipeline.
LEMMA PipeStepIsQueueStep == [PipeNext]_pipeVars => [Next]_vars
<1> SUFFICES ASSUME [PipeNext]_pipeVars PROVE [Next]_vars
  OBVIOUS
<1>1. ASSUME NEW j \in Jobs, EnqueueAudit(j) PROVE Next
  BY <1>1 DEF EnqueueAudit, Next
<1>2. ASSUME NEW t \in Tenants, DeleteTenant(t) PROVE Next
  BY <1>2 DEF DeleteTenant, Next
<1>3. ASSUME NEW s \in Stores, DeleteStore(s) PROVE UNCHANGED vars
  BY <1>3 DEF DeleteStore
<1>4. ASSUME NEW w \in Workers, NEW j \in Jobs, BeginAudit(w, j) PROVE Next
  BY <1>4 DEF BeginAudit, Next
<1>5. ASSUME NEW w \in Workers, NEW j \in Jobs, Run(w, j) PROVE [Next]_vars
  BY <1>5, RunIsQueueStep
<1>6. ASSUME NEW w \in Workers, NEW j \in Jobs, CommitUnacknowledged(w, j) PROVE Next
  BY <1>6, LeaveIsReturn DEF CommitUnacknowledged, Next
<1>7. ASSUME NEW w \in Workers, Exit(w) PROVE Next
  BY <1>7 DEF Exit, Next
<1>8. ASSUME NEW w \in Workers, DispatchDone(w) PROVE UNCHANGED vars
  BY <1>8 DEF DispatchDone
<1>9. ASSUME QueueStep PROVE Next
  BY <1>9 DEF QueueStep, Next
<1>10. ASSUME UNCHANGED pipeVars PROVE UNCHANGED vars
  BY <1>10 DEF pipeVars
<1> QED
  BY <1>1, <1>2, <1>3, <1>4, <1>5, <1>6, <1>7, <1>8, <1>9, <1>10 DEF PipeNext

-----------------------------------------------------------------------------

LEMMA InitPInv == PipeInit => PInv
<1> SUFFICES ASSUME PipeInit PROVE PInv
  OBVIOUS
<1> USE DEF PipeInit, Init, IdleSlots
<1>1. Shape
  BY DEF Shape, AuditStatus, Step, OpenTx
<1>2. HandlerRuns /\ SuccessIsCommitted
  BY DEF HandlerRuns, SuccessIsCommitted
<1>3. CommitIsFinal
  BY DEF CommitIsFinal
<1>4. AlertsArePast /\ SuccessIsFinal /\ SuccessAlertIsLast
  BY DEF AlertsArePast, SuccessIsFinal, SuccessAlertIsLast
<1> QED
  BY <1>1, <1>2, <1>3, <1>4 DEF PInv

\* Each action keeps each conjunct: an audit has one goroutine at most, for
\* HolderOwnsRow, so what one of them knows of its audit stays true.
LEMMA PInvStep == PInv /\ IInv /\ IInv' /\ [PipeNext]_pipeVars => PInv'
<1> SUFFICES ASSUME PInv, IInv, IInv', [PipeNext]_pipeVars PROVE PInv'
  OBVIOUS
<1> USE PipelineConstants DEF PInv, Shape, IInv, TypeOK, AuditStatus, Verdict, Step, OpenTx
<1>1. ASSUME NEW j \in Jobs, EnqueueAudit(j)
      PROVE  PInv'
  <2>1. Shape'
    BY <1>1 DEF EnqueueAudit, Enqueue, slotVars
  <2>2. HandlerRuns'
    BY <1>1 DEF EnqueueAudit, Enqueue, slotVars, HandlerRuns
  <2>3. SuccessIsCommitted'
    BY <1>1 DEF EnqueueAudit, Enqueue, slotVars, SuccessIsCommitted, HandlerRuns,
       HolderOwnsRow
  <2>4. CommitIsFinal'
    BY <1>1 DEF EnqueueAudit, Enqueue, slotVars, CommitIsFinal, HandlerRuns, HolderOwnsRow
  <2>5. AlertsArePast'
    BY <1>1 DEF EnqueueAudit, Enqueue, slotVars, AlertsArePast, HandlerRuns, HolderOwnsRow
  <2>6. SuccessIsFinal'
    BY <1>1 DEF EnqueueAudit, Enqueue, slotVars, SuccessIsFinal, HandlerRuns, HolderOwnsRow
  <2>7. SuccessAlertIsLast'
    BY <1>1 DEF EnqueueAudit, Enqueue, slotVars, SuccessAlertIsLast, AlertsArePast,
       SuccessIsFinal, HandlerRuns, HolderOwnsRow
  <2> QED
    BY <2>1, <2>2, <2>3, <2>4, <2>5, <2>6, <2>7
<1>2. ASSUME NEW t \in Tenants, DeleteTenant(t)
      PROVE  PInv'
  <2>1. Shape'
    BY <1>2 DEF DeleteTenant, TenantDeleted, Cascade, JobsOf, slotVars
  <2>2. HandlerRuns'
    BY <1>2 DEF DeleteTenant, TenantDeleted, Cascade, JobsOf, slotVars, HandlerRuns
  <2>3. SuccessIsCommitted'
    BY <1>2 DEF DeleteTenant, TenantDeleted, Cascade, JobsOf, slotVars,
       SuccessIsCommitted, HandlerRuns, HolderOwnsRow
  <2>4. CommitIsFinal'
    BY <1>2 DEF DeleteTenant, TenantDeleted, Cascade, JobsOf, slotVars, CommitIsFinal,
       HandlerRuns, HolderOwnsRow
  <2>5. AlertsArePast'
    BY <1>2 DEF DeleteTenant, TenantDeleted, Cascade, JobsOf, slotVars, AlertsArePast,
       HandlerRuns, HolderOwnsRow
  <2>6. SuccessIsFinal'
    BY <1>2 DEF DeleteTenant, TenantDeleted, Cascade, JobsOf, slotVars, SuccessIsFinal,
       HandlerRuns, HolderOwnsRow
  <2>7. SuccessAlertIsLast'
    BY <1>2 DEF DeleteTenant, TenantDeleted, Cascade, JobsOf, slotVars,
       SuccessAlertIsLast, AlertsArePast, SuccessIsFinal, HandlerRuns, HolderOwnsRow
  <2> QED
    BY <2>1, <2>2, <2>3, <2>4, <2>5, <2>6, <2>7
<1>3. ASSUME NEW s \in Stores, DeleteStore(s)
      PROVE  PInv'
  <2>1. Shape'
    BY <1>3 DEF DeleteStore, Cascade, vars, rowVars, slotVars
  <2>2. HandlerRuns'
    BY <1>3 DEF DeleteStore, Cascade, vars, rowVars, slotVars, HandlerRuns
  <2>3. SuccessIsCommitted'
    BY <1>3 DEF DeleteStore, Cascade, vars, rowVars, slotVars, SuccessIsCommitted,
       HandlerRuns, HolderOwnsRow
  <2>4. CommitIsFinal'
    BY <1>3 DEF DeleteStore, Cascade, vars, rowVars, slotVars, CommitIsFinal,
       HandlerRuns, HolderOwnsRow
  <2>5. AlertsArePast'
    BY <1>3 DEF DeleteStore, Cascade, vars, rowVars, slotVars, AlertsArePast,
       HandlerRuns, HolderOwnsRow
  <2>6. SuccessIsFinal'
    BY <1>3 DEF DeleteStore, Cascade, vars, rowVars, slotVars, SuccessIsFinal,
       HandlerRuns, HolderOwnsRow
  <2>7. SuccessAlertIsLast'
    BY <1>3 DEF DeleteStore, Cascade, vars, rowVars, slotVars, SuccessAlertIsLast,
       AlertsArePast, SuccessIsFinal, HandlerRuns, HolderOwnsRow
  <2> QED
    BY <2>1, <2>2, <2>3, <2>4, <2>5, <2>6, <2>7
<1>4. ASSUME NEW w \in Workers, NEW j \in Jobs, BeginAudit(w, j)
      PROVE  PInv'
  <2>1. Shape'
    BY <1>4 DEF BeginAudit, Claim, TakeRow, Claimable
  <2>2. HandlerRuns'
    BY <1>4 DEF BeginAudit, Claim, TakeRow, Claimable, HandlerRuns
  <2>3. SuccessIsCommitted'
    BY <1>4 DEF BeginAudit, Claim, TakeRow, Claimable, SuccessIsCommitted, HandlerRuns,
       HolderOwnsRow
  <2>4. CommitIsFinal'
    BY <1>4 DEF BeginAudit, Claim, TakeRow, Claimable, CommitIsFinal, HandlerRuns,
       HolderOwnsRow
  <2>5. AlertsArePast'
    BY <1>4 DEF BeginAudit, Claim, TakeRow, Claimable, AlertsArePast, HandlerRuns,
       HolderOwnsRow
  <2>6. SuccessIsFinal'
    BY <1>4 DEF BeginAudit, Claim, TakeRow, Claimable, SuccessIsFinal, HandlerRuns,
       HolderOwnsRow
  <2>7. SuccessAlertIsLast'
    BY <1>4 DEF BeginAudit, Claim, TakeRow, Claimable, SuccessAlertIsLast,
       AlertsArePast, SuccessIsFinal, HandlerRuns, HolderOwnsRow
  <2> QED
    BY <2>1, <2>2, <2>3, <2>4, <2>5, <2>6, <2>7
<1>5. ASSUME NEW w \in Workers, NEW j \in Jobs, StagesClose(w, j)
      PROVE  PInv'
  <2>1. Shape'
    BY <1>5 DEF StagesClose, Goto, Progress, vars, rowVars, slotVars
  <2>2. HandlerRuns'
    BY <1>5 DEF StagesClose, Goto, Progress, vars, rowVars, slotVars, HandlerRuns
  <2>3. SuccessIsCommitted'
    BY <1>5 DEF StagesClose, Goto, Progress, vars, rowVars, slotVars,
       SuccessIsCommitted, HandlerRuns, HolderOwnsRow
  <2>4. CommitIsFinal'
    BY <1>5 DEF StagesClose, Goto, Progress, vars, rowVars, slotVars, CommitIsFinal,
       HandlerRuns, HolderOwnsRow
  <2>5. AlertsArePast'
    BY <1>5 DEF StagesClose, Goto, Progress, vars, rowVars, slotVars, AlertsArePast,
       HandlerRuns, HolderOwnsRow
  <2>6. SuccessIsFinal'
    BY <1>5 DEF StagesClose, Goto, Progress, vars, rowVars, slotVars, SuccessIsFinal,
       HandlerRuns, HolderOwnsRow
  <2>7. SuccessAlertIsLast'
    BY <1>5 DEF StagesClose, Goto, Progress, vars, rowVars, slotVars,
       SuccessAlertIsLast, AlertsArePast, SuccessIsFinal, HandlerRuns, HolderOwnsRow
  <2> QED
    BY <2>1, <2>2, <2>3, <2>4, <2>5, <2>6, <2>7
<1>6. ASSUME NEW w \in Workers, NEW j \in Jobs, StageFails(w, j) \/ SaveBegin(w, j) \/ SaveDiff(w, j)
      PROVE  PInv'
  <2>0. /\ UNCHANGED <<vars, audit, fired>>
        /\ phase[w][j] = "handling" /\ step[w][j] # "committedReport"
        /\ \E s \in {"saveFailed", "txReport", "txFailed", "txDiffed"} :
              step' = [step EXCEPT ![w][j] = s]
    BY <1>6 DEF StageFails, SaveBegin, SaveDiff, Goto, vars, rowVars, slotVars
  <2>1. Shape'
    BY <2>0 DEF vars, rowVars, slotVars
  <2>2. HandlerRuns'
    BY <2>0 DEF vars, rowVars, slotVars, HandlerRuns
  <2>3. SuccessIsCommitted'
    BY <2>0 DEF vars, rowVars, slotVars, SuccessIsCommitted, HandlerRuns, HolderOwnsRow
  <2>4. CommitIsFinal'
    BY <2>0 DEF vars, rowVars, slotVars, CommitIsFinal, HandlerRuns, HolderOwnsRow
  <2>5. AlertsArePast'
    BY <2>0 DEF vars, rowVars, slotVars, AlertsArePast, HandlerRuns, HolderOwnsRow
  <2>6. SuccessIsFinal'
    BY <2>0 DEF vars, rowVars, slotVars, SuccessIsFinal, HandlerRuns, HolderOwnsRow
  <2>7. SuccessAlertIsLast'
    BY <2>0 DEF vars, rowVars, slotVars, SuccessAlertIsLast, AlertsArePast,
       SuccessIsFinal, HandlerRuns, HolderOwnsRow
  <2> QED
    BY <2>1, <2>2, <2>3, <2>4, <2>5, <2>6, <2>7
<1>7. ASSUME NEW w \in Workers, NEW j \in Jobs, SaveCommit(w, j)
      PROVE  PInv'
  <2>0. /\ UNCHANGED <<vars, fired>>
        /\ phase[w][j] = "handling"
        /\ step[w][j] \in OpenTx
        /\ \E v \in Verdict :
              /\ audit' = [audit EXCEPT ![j] = IF @ = "gone" THEN @ ELSE v]
              /\ step' = [step EXCEPT ![w][j] =
                             IF v = "succeeded" THEN "committedReport" ELSE "committedFailed"]
    BY <1>7 DEF SaveCommit, Committed, Goto, vars, rowVars, slotVars
  <2>1. Shape'
    BY <2>0 DEF vars, rowVars, slotVars
  <2>2. HandlerRuns'
    BY <2>0 DEF vars, rowVars, slotVars, HandlerRuns
  <2>3. SuccessIsCommitted'
    BY SMTT(30), <2>0 DEF vars, rowVars, slotVars, SuccessIsCommitted, HandlerRuns, HolderOwnsRow
  <2>4. CommitIsFinal'
    <3>1. status[j] \in {"running", "gone"} /\ \A x \in Workers \ {w} : phase[x][j] = "none"
      BY <2>0 DEF HolderOwnsRow
    <3>2. audit'[j] = "succeeded" => step'[w][j] = "committedReport"
      BY <2>0
    <3>3. \A k \in Jobs \ {j} :
             audit'[k] = audit[k] /\ \A x \in Workers : step'[x][k] = step[x][k]
      BY <2>0
    <3>4. UNCHANGED <<status, phase>>
      BY <2>0 DEF vars, rowVars, slotVars
    <3> QED
      BY <3>1, <3>2, <3>3, <3>4 DEF CommitIsFinal
  <2>5. AlertsArePast'
    BY <2>0 DEF vars, rowVars, slotVars, AlertsArePast, HandlerRuns, HolderOwnsRow
  <2>6. SuccessIsFinal'
    BY <2>0 DEF vars, rowVars, slotVars, SuccessIsFinal, HandlerRuns, HolderOwnsRow
  <2>7. SuccessAlertIsLast'
    BY <2>0 DEF vars, rowVars, slotVars, SuccessAlertIsLast, AlertsArePast,
       SuccessIsFinal, HandlerRuns, HolderOwnsRow
  <2> QED
    BY <2>1, <2>2, <2>3, <2>4, <2>5, <2>6, <2>7
<1>8. ASSUME NEW w \in Workers, NEW j \in Jobs, CommitUnacknowledged(w, j)
      PROVE  PInv'
  <2>0. /\ AckLoss
        /\ UNCHANGED <<rowVars, fired>>
        /\ phase[w][j] = "handling"
        /\ phase' = [phase EXCEPT ![w][j] = "err"]
        /\ step[w][j] \in OpenTx
        /\ step' = [step EXCEPT ![w][j] = "idle"]
        /\ \E v \in Verdict : audit' = [audit EXCEPT ![j] = IF @ = "gone" THEN @ ELSE v]
    BY <1>8 DEF CommitUnacknowledged, Committed, Leave, HandlerReturns, rowVars
  <2>1. Shape'
    BY <2>0 DEF vars, rowVars, slotVars
  <2>2. HandlerRuns'
    BY <2>0 DEF vars, rowVars, slotVars, HandlerRuns
  <2>3. SuccessIsCommitted'
    BY <2>0 DEF vars, rowVars, slotVars, SuccessIsCommitted, HandlerRuns, HolderOwnsRow
  <2>4. CommitIsFinal'
    BY <2>0 DEF vars, rowVars, slotVars, CommitIsFinal, HandlerRuns, HolderOwnsRow
  <2>5. AlertsArePast'
    BY <2>0 DEF vars, rowVars, slotVars, AlertsArePast, HandlerRuns, HolderOwnsRow
  <2>6. SuccessIsFinal'
    BY <2>0 DEF vars, rowVars, slotVars, SuccessIsFinal, HandlerRuns, HolderOwnsRow
  <2>7. SuccessAlertIsLast'
    BY <2>0 DEF vars, rowVars, slotVars, SuccessAlertIsLast, AlertsArePast,
       SuccessIsFinal, HandlerRuns, HolderOwnsRow
  <2> QED
    BY <2>1, <2>2, <2>3, <2>4, <2>5, <2>6, <2>7
<1>9. ASSUME NEW w \in Workers, NEW j \in Jobs, SaveFails(w, j)
      PROVE  PInv'
  <2>1. Shape'
    BY <1>9 DEF SaveFails, Leave, HandlerReturns, rowVars
  <2>2. HandlerRuns'
    BY <1>9 DEF SaveFails, Leave, HandlerReturns, rowVars, HandlerRuns
  <2>3. SuccessIsCommitted'
    BY <1>9 DEF SaveFails, Leave, HandlerReturns, rowVars, SuccessIsCommitted,
       HandlerRuns, HolderOwnsRow
  <2>4. CommitIsFinal'
    BY <1>9 DEF SaveFails, Leave, HandlerReturns, rowVars, CommitIsFinal, HandlerRuns,
       HolderOwnsRow
  <2>5. AlertsArePast'
    BY <1>9 DEF SaveFails, Leave, HandlerReturns, rowVars, AlertsArePast, HandlerRuns,
       HolderOwnsRow
  <2>6. SuccessIsFinal'
    BY <1>9 DEF SaveFails, Leave, HandlerReturns, rowVars, SuccessIsFinal, HandlerRuns,
       HolderOwnsRow
  <2>7. SuccessAlertIsLast'
    BY <1>9 DEF SaveFails, Leave, HandlerReturns, rowVars, SuccessAlertIsLast,
       AlertsArePast, SuccessIsFinal, HandlerRuns, HolderOwnsRow
  <2> QED
    BY <2>1, <2>2, <2>3, <2>4, <2>5, <2>6, <2>7
<1>10. ASSUME NEW w \in Workers, NEW j \in Jobs, AfterFailure(w, j)
      PROVE  PInv'
  <2>1. Shape'
    BY <1>10 DEF AfterFailure, StartDispatch, Leave, HandlerReturns, rowVars
  <2>2. HandlerRuns'
    BY <1>10 DEF AfterFailure, StartDispatch, Leave, HandlerReturns, rowVars, HandlerRuns
  <2>3. SuccessIsCommitted'
    BY <1>10 DEF AfterFailure, StartDispatch, Leave, HandlerReturns, rowVars,
       SuccessIsCommitted, HandlerRuns, HolderOwnsRow
  <2>4. CommitIsFinal'
    BY <1>10 DEF AfterFailure, StartDispatch, Leave, HandlerReturns, rowVars,
       CommitIsFinal, HandlerRuns, HolderOwnsRow
  <2>5. AlertsArePast'
    BY <1>10 DEF AfterFailure, StartDispatch, Leave, HandlerReturns, rowVars,
       AlertsArePast, HandlerRuns, HolderOwnsRow
  <2>6. SuccessIsFinal'
    BY <1>10 DEF AfterFailure, StartDispatch, Leave, HandlerReturns, rowVars,
       SuccessIsFinal, HandlerRuns, HolderOwnsRow
  <2>7. SuccessAlertIsLast'
    BY <1>10 DEF AfterFailure, StartDispatch, Leave, HandlerReturns, rowVars,
       SuccessAlertIsLast, AlertsArePast, SuccessIsFinal, HandlerRuns, HolderOwnsRow
  <2> QED
    BY <2>1, <2>2, <2>3, <2>4, <2>5, <2>6, <2>7
<1>11. ASSUME NEW w \in Workers, NEW j \in Jobs, AfterReport(w, j)
      PROVE  PInv'
  <2>1. Shape'
    BY <1>11 DEF AfterReport, StartDispatch, Progress, Leave, HandlerReturns, rowVars
  <2>2. HandlerRuns'
    BY <1>11 DEF AfterReport, StartDispatch, Progress, Leave, HandlerReturns, rowVars,
       HandlerRuns
  <2>3. SuccessIsCommitted'
    BY <1>11 DEF AfterReport, StartDispatch, Progress, Leave, HandlerReturns, rowVars,
       SuccessIsCommitted, HandlerRuns, HolderOwnsRow
  <2>4. CommitIsFinal'
    BY <1>11 DEF AfterReport, StartDispatch, Progress, Leave, HandlerReturns, rowVars,
       CommitIsFinal, HandlerRuns, HolderOwnsRow
  <2>5. AlertsArePast'
    BY <1>11 DEF AfterReport, StartDispatch, Progress, Leave, HandlerReturns, rowVars,
       AlertsArePast, HandlerRuns, HolderOwnsRow
  <2>6. SuccessIsFinal'
    BY <1>11 DEF AfterReport, StartDispatch, Progress, Leave, HandlerReturns, rowVars,
       SuccessIsFinal, HandlerRuns, HolderOwnsRow
  <2>7. SuccessAlertIsLast'
    <3>1. fired' = fired \cup {<<j, seen[w][j], "succeeded">>}
      BY <1>11 DEF AfterReport, StartDispatch
    <3>2. phase[w][j] = "handling"
      BY <1>11 DEF AfterReport, Leave, HandlerReturns
    <3>3. seen[w][j] = attempts[j]
      BY <3>2 DEF HolderOwnsRow
    <3>4. ASSUME NEW b \in fired, b[1] = j PROVE b[2] < seen[w][j] /\ b[3] # "succeeded"
      BY <3>2, <3>3, <3>4 DEF AlertsArePast, SuccessIsFinal
    <3> SUFFICES ASSUME NEW a \in fired', NEW b \in fired', a[1] = b[1], a # b, a[3] = "succeeded"
                 PROVE  b[2] < a[2]
      BY DEF SuccessAlertIsLast
    <3>5. CASE a \in fired /\ b \in fired
      BY <3>5 DEF SuccessAlertIsLast
    <3>6. CASE a \in fired /\ b = <<j, seen[w][j], "succeeded">>
      BY <3>4, <3>6
    <3>7. CASE a = <<j, seen[w][j], "succeeded">> /\ b \in fired
      BY <3>4, <3>7
    <3> QED
      BY <3>1, <3>5, <3>6, <3>7
  <2> QED
    BY <2>1, <2>2, <2>3, <2>4, <2>5, <2>6, <2>7
<1>12. ASSUME NEW w \in Workers, Exit(w)
      PROVE  PInv'
  <2>1. Shape'
    BY <1>12 DEF Exit, DrainDone, Killed, InFlight, rowVars, slotVars
  <2>2. HandlerRuns'
    BY <1>12 DEF Exit, DrainDone, Killed, InFlight, rowVars, slotVars, HandlerRuns
  <2>3. SuccessIsCommitted'
    BY <1>12 DEF Exit, DrainDone, Killed, InFlight, rowVars, slotVars,
       SuccessIsCommitted, HandlerRuns, HolderOwnsRow
  <2>4. CommitIsFinal'
    BY <1>12 DEF Exit, DrainDone, Killed, InFlight, rowVars, slotVars, CommitIsFinal,
       HandlerRuns, HolderOwnsRow
  <2>5. AlertsArePast'
    <3>1. fired' = fired /\ attempts' = attempts
      BY <1>12 DEF Exit, DrainDone, Killed, rowVars
    <3>2. \A v \in Workers, j \in Jobs : phase'[v][j] \in {phase[v][j], "none"}
      BY <1>12 DEF Exit, DrainDone, Killed, slotVars
    <3> QED
      BY <3>1, <3>2 DEF AlertsArePast
  <2>6. SuccessIsFinal'
    <3>1. fired' = fired /\ status' = status
      BY <1>12 DEF Exit, DrainDone, Killed, rowVars
    <3>2. \A v \in Workers, j \in Jobs : phase'[v][j] \in {phase[v][j], "none"}
      BY <1>12 DEF Exit, DrainDone, Killed, slotVars
    <3>3. ASSUME NEW a \in fired, a[3] = "succeeded", NEW v \in Workers
          PROVE  phase'[v][a[1]] \in {"none", "ok"}
      <4>1. a[1] \in Jobs /\ phase[v][a[1]] \in {"none", "ok"}
        BY <3>3 DEF SuccessIsFinal
      <4> HIDE DEF PInv, IInv, Shape, TypeOK
      <4> QED
        BY <3>2, <4>1, Zenon
    <3> QED
      BY <3>1, <3>3 DEF SuccessIsFinal
  <2>7. SuccessAlertIsLast'
    BY <1>12 DEF Exit, DrainDone, Killed, InFlight, rowVars, slotVars,
       SuccessAlertIsLast, AlertsArePast, SuccessIsFinal, HandlerRuns, HolderOwnsRow
  <2> QED
    BY <2>1, <2>2, <2>3, <2>4, <2>5, <2>6, <2>7
<1>13. ASSUME NEW w \in Workers, DispatchDone(w)
      PROVE  PInv'
  BY <1>13 DEF DispatchDone, vars, rowVars, slotVars, HandlerRuns, SuccessIsCommitted,
     CommitIsFinal,
     AlertsArePast, SuccessIsFinal, SuccessAlertIsLast
<1>14. ASSUME NEW j \in Jobs, BackoffElapsed(j), UNCHANGED auditVars
      PROVE  PInv'
  BY <1>14 DEF BackoffElapsed, auditVars, slotVars, HandlerRuns, SuccessIsCommitted,
     CommitIsFinal,
     AlertsArePast, SuccessIsFinal, SuccessAlertIsLast
<1>15. ASSUME NEW w \in Workers, Start(w) \/ Cancel(w), UNCHANGED auditVars
      PROVE  PInv'
  BY <1>15 DEF Start, Cancel, auditVars, rowVars, slotVars, HandlerRuns,
     SuccessIsCommitted, CommitIsFinal,
     AlertsArePast, SuccessIsFinal, SuccessAlertIsLast
<1>16. ASSUME NEW w \in Workers, NEW j \in Jobs, ClaimLost(w, j), UNCHANGED auditVars
      PROVE  PInv'
  <2>1. Shape'
    BY <1>16 DEF ClaimLost, TakeRow, Claimable, auditVars, slotVars
  <2>2. HandlerRuns'
    BY <1>16 DEF ClaimLost, TakeRow, Claimable, auditVars, slotVars, HandlerRuns
  <2>3. SuccessIsCommitted'
    BY <1>16 DEF ClaimLost, TakeRow, Claimable, auditVars, slotVars, SuccessIsCommitted,
       HandlerRuns, HolderOwnsRow
  <2>4. CommitIsFinal'
    BY <1>16 DEF ClaimLost, TakeRow, Claimable, auditVars, slotVars, CommitIsFinal,
       HandlerRuns, HolderOwnsRow
  <2>5. AlertsArePast'
    BY <1>16 DEF ClaimLost, TakeRow, Claimable, auditVars, slotVars, AlertsArePast,
       HandlerRuns, HolderOwnsRow
  <2>6. SuccessIsFinal'
    BY <1>16 DEF ClaimLost, TakeRow, Claimable, auditVars, slotVars, SuccessIsFinal,
       HandlerRuns, HolderOwnsRow
  <2>7. SuccessAlertIsLast'
    BY <1>16 DEF ClaimLost, TakeRow, Claimable, auditVars, slotVars, SuccessAlertIsLast,
       AlertsArePast, SuccessIsFinal, HandlerRuns, HolderOwnsRow
  <2> QED
    BY <2>1, <2>2, <2>3, <2>4, <2>5, <2>6, <2>7
<1>17. ASSUME NEW w \in Workers, NEW j \in Jobs, MarkSucceeded(w, j), UNCHANGED auditVars
      PROVE  PInv'
  <2>1. Shape'
    BY <1>17 DEF MarkSucceeded, Write, Release, auditVars
  <2>2. HandlerRuns'
    BY <1>17 DEF MarkSucceeded, Write, Release, auditVars, HandlerRuns
  <2>3. SuccessIsCommitted'
    BY <1>17 DEF MarkSucceeded, Write, Release, auditVars, SuccessIsCommitted,
       HandlerRuns, HolderOwnsRow
  <2>4. CommitIsFinal'
    BY <1>17 DEF MarkSucceeded, Write, Release, auditVars, CommitIsFinal, HandlerRuns,
       HolderOwnsRow
  <2>5. AlertsArePast'
    BY <1>17 DEF MarkSucceeded, Write, Release, auditVars, AlertsArePast, HandlerRuns,
       HolderOwnsRow
  <2>6. SuccessIsFinal'
    BY <1>17 DEF MarkSucceeded, Write, Release, auditVars, SuccessIsFinal, HandlerRuns,
       HolderOwnsRow
  <2>7. SuccessAlertIsLast'
    BY <1>17 DEF MarkSucceeded, Write, Release, auditVars, SuccessAlertIsLast,
       AlertsArePast, SuccessIsFinal, HandlerRuns, HolderOwnsRow
  <2> QED
    BY <2>1, <2>2, <2>3, <2>4, <2>5, <2>6, <2>7
<1>18. ASSUME NEW w \in Workers, NEW j \in Jobs, MarkRetry(w, j), UNCHANGED auditVars
      PROVE  PInv'
  <2>1. Shape'
    BY <1>18 DEF MarkRetry, Write, Release, auditVars
  <2>2. HandlerRuns'
    BY <1>18 DEF MarkRetry, Write, Release, auditVars, HandlerRuns
  <2>3. SuccessIsCommitted'
    BY <1>18 DEF MarkRetry, Write, Release, auditVars, SuccessIsCommitted, HandlerRuns,
       HolderOwnsRow
  <2>4. CommitIsFinal'
    <3>1. phase[w][j] = "err" /\ step[w][j] = "idle"
      BY <1>18 DEF MarkRetry, HandlerRuns
    <3>2. AckLoss \/ audit[j] # "succeeded"
      BY <3>1 DEF CommitIsFinal
    <3> QED
      BY <1>18, <3>2 DEF MarkRetry, Write, Release, auditVars, CommitIsFinal
  <2>5. AlertsArePast'
    BY <1>18 DEF MarkRetry, Write, Release, auditVars, AlertsArePast, HandlerRuns,
       HolderOwnsRow
  <2>6. SuccessIsFinal'
    BY <1>18 DEF MarkRetry, Write, Release, auditVars, SuccessIsFinal, HandlerRuns,
       HolderOwnsRow
  <2>7. SuccessAlertIsLast'
    BY <1>18 DEF MarkRetry, Write, Release, auditVars, SuccessAlertIsLast,
       AlertsArePast, SuccessIsFinal, HandlerRuns, HolderOwnsRow
  <2> QED
    BY <2>1, <2>2, <2>3, <2>4, <2>5, <2>6, <2>7
<1>19. ASSUME NEW w \in Workers, NEW j \in Jobs, MarkDead(w, j), UNCHANGED auditVars
      PROVE  PInv'
  <2>1. Shape'
    BY <1>19 DEF MarkDead, Write, Release, auditVars
  <2>2. HandlerRuns'
    BY <1>19 DEF MarkDead, Write, Release, auditVars, HandlerRuns
  <2>3. SuccessIsCommitted'
    BY <1>19 DEF MarkDead, Write, Release, auditVars, SuccessIsCommitted, HandlerRuns,
       HolderOwnsRow
  <2>4. CommitIsFinal'
    BY SMTT(30), <1>19 DEF MarkDead, Write, Release, auditVars, CommitIsFinal, HandlerRuns,
       HolderOwnsRow
  <2>5. AlertsArePast'
    BY <1>19 DEF MarkDead, Write, Release, auditVars, AlertsArePast, HandlerRuns,
       HolderOwnsRow
  <2>6. SuccessIsFinal'
    BY <1>19 DEF MarkDead, Write, Release, auditVars, SuccessIsFinal, HandlerRuns,
       HolderOwnsRow
  <2>7. SuccessAlertIsLast'
    BY <1>19 DEF MarkDead, Write, Release, auditVars, SuccessAlertIsLast, AlertsArePast,
       SuccessIsFinal, HandlerRuns, HolderOwnsRow
  <2> QED
    BY <2>1, <2>2, <2>3, <2>4, <2>5, <2>6, <2>7
<1>20. ASSUME NEW w \in Workers, NEW j \in Jobs, MarkFails(w, j), UNCHANGED auditVars
      PROVE  PInv'
  <2>1. Shape'
    BY <1>20 DEF MarkFails, Release, Outcome, auditVars, rowVars
  <2>2. HandlerRuns'
    BY <1>20 DEF MarkFails, Release, Outcome, auditVars, rowVars, HandlerRuns
  <2>3. SuccessIsCommitted'
    BY <1>20 DEF MarkFails, Release, Outcome, auditVars, rowVars, SuccessIsCommitted,
       HandlerRuns, HolderOwnsRow
  <2>4. CommitIsFinal'
    BY <1>20 DEF MarkFails, Release, Outcome, auditVars, rowVars, CommitIsFinal,
       HandlerRuns, HolderOwnsRow
  <2>5. AlertsArePast'
    BY <1>20 DEF MarkFails, Release, Outcome, auditVars, rowVars, AlertsArePast,
       HandlerRuns, HolderOwnsRow
  <2>6. SuccessIsFinal'
    BY <1>20 DEF MarkFails, Release, Outcome, auditVars, rowVars, SuccessIsFinal,
       HandlerRuns, HolderOwnsRow
  <2>7. SuccessAlertIsLast'
    BY <1>20 DEF MarkFails, Release, Outcome, auditVars, rowVars, SuccessAlertIsLast,
       AlertsArePast, SuccessIsFinal, HandlerRuns, HolderOwnsRow
  <2> QED
    BY <2>1, <2>2, <2>3, <2>4, <2>5, <2>6, <2>7
<1>21. CASE UNCHANGED pipeVars
  BY <1>21 DEF pipeVars, auditVars, vars, rowVars, slotVars, HandlerRuns,
     SuccessIsCommitted,
     CommitIsFinal, AlertsArePast, SuccessIsFinal, SuccessAlertIsLast
<1> QED
  BY <1>1, <1>2, <1>3, <1>4, <1>5, <1>6, <1>7, <1>8, <1>9, <1>10, <1>11, <1>12, <1>13,
     <1>14, <1>15, <1>16, <1>17, <1>18, <1>19, <1>20, <1>21 DEF PipeNext, Run, QueueStep

LEMMA PipeInvariance == PipeSpec => [](IInv /\ PInv)
<1>1. PipeInit => IInv /\ PInv
  BY InitIInv, InitPInv DEF PipeInit
<1>2. IInv /\ PInv /\ [PipeNext]_pipeVars => (IInv /\ PInv)'
  BY PipeStepIsQueueStep, IInvStep, PInvStep
<1> QED
  BY <1>1, <1>2, PTL DEF PipeSpec

-----------------------------------------------------------------------------

\* Where commits are acknowledged, the queue's verdict on a job and the report
\* that users read never contradict each other.
THEOREM VerdictsAgreeAlways ==
    ASSUME ~ AckLoss
    PROVE  PipeSpec => []VerdictsAgree
<1>1. PInv => VerdictsAgree
  BY DEF PInv, SuccessIsCommitted, CommitIsFinal, VerdictsAgree
<1> QED
  BY <1>1, PipeInvariance, PTL

\* No attempt starts an alert after the one about the audit's success,
\* whether commits are acknowledged or not.
THEOREM SuccessAlertIsLastAlways == PipeSpec => []SuccessAlertIsLast
<1>1. PInv => SuccessAlertIsLast
  BY DEF PInv
<1> QED
  BY <1>1, PipeInvariance, PTL

-----------------------------------------------------------------------------
(* What readers of the tables see.                                         *)

RecordShape ==
    /\ diff \in [Jobs -> Previously \cup {NoDiff}]
    /\ got \in [Workers -> [Jobs -> Previously \cup {None}]]

\* A job has been queued only together with its audit.
JobHasAudit == \A j \in Jobs : audit[j] = "absent" => status[j] = "absent"

\* An open transaction that has found the previous report keeps its own audit
\* from being deleted, and so every audit of the store.
FoundIsOfStore ==
    \A w \in Workers, j \in Jobs :
        step[w][j] = "txDiffed" =>
            /\ audit[j] # "gone"
            /\ got[w][j] \in Previously \ {j}
            /\ got[w][j] \in Jobs => StoreOf[got[w][j]] = StoreOf[j]

\* What it has found is still a report when it commits: a report is not tried
\* again, unless its commit was reported as failed.
FoundIsReport ==
    AckLoss \/ \A w \in Workers, j \in Jobs :
        step[w][j] = "txDiffed" /\ got[w][j] \in Jobs => audit[got[w][j]] = "succeeded"

RInv ==
    /\ RecordShape
    /\ JobHasAudit
    /\ FoundIsOfStore
    /\ FoundIsReport
    /\ ReportHasDiff

LEMMA InitRInv == PipeInit => RInv
<1> SUFFICES ASSUME PipeInit PROVE RInv
  OBVIOUS
<1> USE DEF PipeInit, Init
<1>1. RecordShape /\ JobHasAudit
  BY DEF RecordShape, JobHasAudit
<1>2. FoundIsOfStore /\ FoundIsReport /\ ReportHasDiff
  BY DEF FoundIsOfStore, FoundIsReport, ReportHasDiff
<1> QED
  BY <1>1, <1>2 DEF RInv

\* The audit's row changes from queued to running at most.
Flushed == audit' = audit \/ \E j \in Jobs : audit' = Progress(j)

LEMMA FlushedKeeps ==
    ASSUME Shape, Flushed, NEW j \in Jobs, NEW s \in {"absent", "succeeded", "failed", "gone"}
    PROVE  audit'[j] = s <=> audit[j] = s
BY DEF Shape, Flushed, Progress

\* No transaction finds its previous report in this step, and no report appears.
LEMMA QuietKeepsRecord ==
    ASSUME RInv, Shape, Flushed, diff' = diff,
           got' \in [Workers -> [Jobs -> Previously \cup {None}]],
           \A w \in Workers, j \in Jobs :
               step'[w][j] = "txDiffed" => step[w][j] = "txDiffed" /\ got'[w][j] = got[w][j],
           \A j \in Jobs : audit[j] = "absent" => status'[j] = status[j]
    PROVE  RInv'
<1>1. RecordShape'
  BY DEF RInv, RecordShape, Previously
<1>2. JobHasAudit'
  BY FlushedKeeps DEF RInv, JobHasAudit
<1>3. FoundIsOfStore'
  BY FlushedKeeps DEF RInv, FoundIsOfStore, Previously
<1>4. FoundIsReport'
  BY FlushedKeeps DEF RInv, FoundIsReport
<1>5. ReportHasDiff'
  BY FlushedKeeps DEF RInv, ReportHasDiff, Previously
<1> QED
  BY <1>1, <1>2, <1>3, <1>4, <1>5 DEF RInv

\* Whole stores are deleted, and none whose audit is being saved.
LEMMA CascadeKeepsRecord ==
    ASSUME RInv, Shape, NEW D \in SUBSET Jobs, Cascade(D),
           \A i, j \in Jobs : StoreOf[i] = StoreOf[j] /\ i \in D => j \in D,
           \A j \in Jobs \ D : status'[j] = status[j]
    PROVE  RInv'
<1> USE PipelineConstants
<1>1. /\ \A j \in D : audit'[j] = "gone" /\ diff'[j] = NoDiff
      /\ \A j \in Jobs \ D : audit'[j] = audit[j] /\ diff'[j] = diff[j]
      /\ step' = step /\ got' = got
  BY DEF Cascade, Shape
<1>2. diff' \in [Jobs -> Previously \cup {NoDiff}]
  BY DEF Cascade, RInv, RecordShape
<1>3. RecordShape'
  BY <1>1, <1>2 DEF RInv, RecordShape, Previously
<1>4. JobHasAudit'
  BY <1>1 DEF RInv, JobHasAudit
<1>5. ASSUME NEW w \in Workers, NEW j \in Jobs, step[w][j] = "txDiffed"
      PROVE  j \notin D /\ got[w][j] \notin D
  <2>1. audit[j] # "gone"
    BY <1>5 DEF RInv, FoundIsOfStore
  <2>2. j \notin D
    BY <1>5, <2>1 DEF Cascade, Locked, OpenTx
  <2> QED
    BY <1>5, <2>2 DEF RInv, FoundIsOfStore
<1>6. FoundIsOfStore'
  BY <1>1, <1>5 DEF RInv, FoundIsOfStore, Previously
<1>7. FoundIsReport'
  BY <1>1, <1>5 DEF RInv, FoundIsReport
<1>8. ReportHasDiff'
  BY <1>1 DEF RInv, ReportHasDiff, Previously
<1> QED
  BY <1>3, <1>4, <1>6, <1>7, <1>8 DEF RInv


LEMMA PreviousIsReport ==
    ASSUME NEW j \in Jobs, NEW prev \in Previous(j)
    PROVE  /\ prev \in Previously \ {j}
           /\ prev \in Jobs => StoreOf[prev] = StoreOf[j] /\ audit[prev] = "succeeded"
BY PipelineConstants DEF Previous, Reports, Previously

LEMMA SaveDiffKeepsRecord ==
    ASSUME RInv, Shape, NEW w \in Workers, NEW j \in Jobs, SaveDiff(w, j)
    PROVE  RInv'
<1>1. PICK prev \in Previous(j) : got' = [got EXCEPT ![w][j] = prev]
  BY DEF SaveDiff
<1>2. /\ audit' = audit /\ diff' = diff /\ status' = status /\ audit[j] # "gone"
      /\ step' = [step EXCEPT ![w][j] = "txDiffed"]
  BY DEF SaveDiff, Goto, vars, rowVars
<1>3. RecordShape'
  BY <1>1, <1>2, PreviousIsReport DEF RInv, RecordShape, Previously
<1>4. FoundIsOfStore'
  BY <1>1, <1>2, PreviousIsReport DEF RInv, RecordShape, Shape, FoundIsOfStore, Previously
<1>5. FoundIsReport'
  BY <1>1, <1>2, PreviousIsReport DEF RInv, RecordShape, Shape, FoundIsReport
<1>6. JobHasAudit' /\ ReportHasDiff'
  BY <1>2 DEF RInv, JobHasAudit, ReportHasDiff, Previously
<1> QED
  BY <1>3, <1>4, <1>5, <1>6 DEF RInv

\* A commit writes an audit that no other transaction is at work on, and that,
\* where commits are acknowledged, was no report before.
LEMMA CommittedKeepsRecord ==
    ASSUME RInv, PInv, IInv, NEW w \in Workers, NEW j \in Jobs, NEW v \in Verdict,
           step[w][j] = IF v = "succeeded" THEN "txDiffed" ELSE "txFailed",
           Committed(w, j, v),
           \A x \in Workers, k \in Jobs : <<x, k>> # <<w, j>> =>
               step'[x][k] = step[x][k] /\ got'[x][k] = got[x][k],
           step'[w][j] # "txDiffed",
           got' \in [Workers -> [Jobs -> Previously \cup {None}]],
           status' = status
    PROVE  RInv'
<1> USE PipelineConstants DEF Verdict
<1>1. /\ Shape /\ RecordShape /\ phase[w][j] = "handling" /\ got[w][j] \in Previously \cup {None}
      /\ audit[j] # "absent"
  <2>1. phase[w][j] = "handling"
    BY DEF PInv, HandlerRuns
  <2>2. status[j] # "absent"
    BY <2>1 DEF IInv, HolderOwnsRow
  <2> QED
    BY <2>1, <2>2 DEF PInv, RInv, RecordShape, JobHasAudit
<1>2. \A x \in Workers \ {w} : step[x][j] # "txDiffed"
  BY <1>1 DEF IInv, HolderOwnsRow, PInv, HandlerRuns
<1>3. AckLoss \/ audit[j] # "succeeded"
  BY <1>1 DEF PInv, CommitIsFinal
<1>4. /\ audit' = [audit EXCEPT ![j] = IF @ = "gone" THEN @ ELSE v]
      /\ diff' = IF v = "succeeded" THEN [diff EXCEPT ![j] = got[w][j]] ELSE diff
  BY DEF Committed
<1>5. v = "succeeded" => audit[j] # "gone" /\ got[w][j] \in Previously \ {j}
  BY DEF RInv, FoundIsOfStore
<1>6. RecordShape'
  BY <1>1, <1>4, <1>5 DEF RecordShape, Previously
<1>7. JobHasAudit'
  BY <1>1, <1>4 DEF RInv, JobHasAudit, Shape
<1>8. ASSUME NEW x \in Workers, NEW k \in Jobs, step'[x][k] = "txDiffed"
       PROVE  /\ step[x][k] = "txDiffed" /\ got'[x][k] = got[x][k]
              /\ k # j /\ audit'[k] = audit[k]
  <2>1. <<x, k>> # <<w, j>>
    BY <1>8
  <2>2. step[x][k] = "txDiffed" /\ got'[x][k] = got[x][k]
    BY <1>8, <2>1
  <2>3. k # j
    BY <1>2, <2>1, <2>2
  <2> QED
    BY <1>1, <1>4, <2>2, <2>3 DEF Shape
<1>9. FoundIsOfStore'
  BY <1>8 DEF RInv, FoundIsOfStore, Previously
<1>10. FoundIsReport'
  <2>1. ASSUME ~ AckLoss, NEW b \in Jobs, audit[b] = "succeeded" PROVE audit'[b] = "succeeded"
    BY <1>1, <1>3, <1>4, <2>1 DEF Shape
  <2> QED
    BY <1>8, <2>1 DEF RInv, FoundIsReport
<1>11. ReportHasDiff'
  BY <1>1, <1>4, <1>5 DEF RInv, ReportHasDiff, Previously, Shape, RecordShape
<1> QED
  BY <1>6, <1>7, <1>9, <1>10, <1>11 DEF RInv

LEMMA LeaveForgets ==
    ASSUME Shape, RecordShape, NEW w \in Workers, NEW j \in Jobs, NEW r, Leave(w, j, r)
    PROVE  /\ got' \in [Workers -> [Jobs -> Previously \cup {None}]]
           /\ step'[w][j] = "idle"
           /\ \A x \in Workers, k \in Jobs : <<x, k>> # <<w, j>> =>
                  step'[x][k] = step[x][k] /\ got'[x][k] = got[x][k]
           /\ status' = status
BY DEF Shape, RecordShape, Leave, HandlerReturns, rowVars

LEMMA RInvStep == RInv /\ PInv /\ IInv /\ [PipeNext]_pipeVars => RInv'
<1> SUFFICES ASSUME RInv, PInv, IInv, [PipeNext]_pipeVars PROVE RInv'
  OBVIOUS
<1> DEFINE GotType == got' \in [Workers -> [Jobs -> Previously \cup {None}]]
<1>0. Shape /\ RecordShape /\ (got' = got => GotType)
  BY DEF PInv, RInv, RecordShape, Previously
<1>1. ASSUME diff' = diff, got' = got, Flushed,
             \A w \in Workers, j \in Jobs : step'[w][j] \in {step[w][j], "begun", "staged", "saveFailed", "txReport", "txFailed"},
             \A j \in Jobs : audit[j] = "absent" => status'[j] = status[j]
      PROVE  RInv'
  BY <1>0, <1>1, QuietKeepsRecord
<1>2. \A j \in Jobs : status[j] # "absent" => audit[j] # "absent"
  BY DEF RInv, JobHasAudit
<1>3. ASSUME NEW j \in Jobs, EnqueueAudit(j) PROVE RInv'
  <2>1. /\ audit[j] = "absent" /\ audit' = [audit EXCEPT ![j] = "queued"]
        /\ status' = [status EXCEPT ![j] = "queued"]
        /\ UNCHANGED <<diff, step, got>>
    BY <1>3 DEF EnqueueAudit, Enqueue
  <2>2. RecordShape'
    BY <2>1 DEF RInv, RecordShape, Previously
  <2>3. JobHasAudit'
    BY <2>1 DEF RInv, JobHasAudit, PInv, Shape, IInv, TypeOK
  <2>4. FoundIsOfStore' /\ FoundIsReport'
    BY <2>1 DEF RInv, FoundIsOfStore, FoundIsReport, PInv, Shape, Previously
  <2>5. ReportHasDiff'
    BY <2>1 DEF RInv, ReportHasDiff, PInv, Shape, Previously
  <2> QED
    BY <2>2, <2>3, <2>4, <2>5 DEF RInv
<1>4. ASSUME NEW t \in Tenants, DeleteTenant(t) PROVE RInv'
  <2>1. \A i, j \in Jobs : StoreOf[i] = StoreOf[j] /\ i \in JobsOf(t) => j \in JobsOf(t)
    BY PipelineConstants DEF JobsOf
  <2>2. \A j \in Jobs \ JobsOf(t) : status'[j] = status[j]
    BY <1>4 DEF DeleteTenant, TenantDeleted, JobsOf
  <2> QED
    BY <1>0, <1>4, <2>1, <2>2, CascadeKeepsRecord DEF DeleteTenant, JobsOf
<1>5. ASSUME NEW s \in Stores, DeleteStore(s) PROVE RInv'
  BY <1>0, <1>5, CascadeKeepsRecord DEF DeleteStore, vars, rowVars
<1>6. ASSUME NEW w \in Workers, NEW j \in Jobs, BeginAudit(w, j) PROVE RInv'
  <2>1. status[j] = "queued" /\ status' = [status EXCEPT ![j] = "running"]
        /\ step' = [step EXCEPT ![w][j] = "begun"] /\ audit' = audit /\ diff' = diff /\ got' = got
    BY <1>6 DEF BeginAudit, Claim, TakeRow, Claimable
  <2> QED
    BY <2>1, <1>0, <1>1, <1>2 DEF Flushed, Shape, IInv, TypeOK
<1>7. ASSUME NEW w \in Workers, NEW j \in Jobs,
             StagesClose(w, j) \/ StageFails(w, j) \/ SaveBegin(w, j)
      PROVE  RInv'
  BY <1>7, <1>0, <1>1 DEF StagesClose, StageFails, SaveBegin, Goto, Flushed, Shape, vars, rowVars
<1>8. ASSUME NEW w \in Workers, NEW j \in Jobs, SaveDiff(w, j) PROVE RInv'
  BY <1>0, <1>8, SaveDiffKeepsRecord
<1>9. ASSUME NEW w \in Workers, NEW j \in Jobs, SaveCommit(w, j) PROVE RInv'
  <2>1. PICK v \in Verdict :
            /\ step[w][j] = IF v = "succeeded" THEN "txDiffed" ELSE "txFailed"
            /\ Committed(w, j, v)
            /\ \E s \in {"committedFailed", "committedReport"} : Goto(w, j, s)
            /\ got' = got /\ status' = status
    BY <1>9 DEF SaveCommit, Verdict, vars, rowVars
  <2>2. /\ \A x \in Workers, k \in Jobs : <<x, k>> # <<w, j>> => step'[x][k] = step[x][k]
        /\ step'[w][j] # "txDiffed"
    BY <1>0, <2>1 DEF Goto, Shape
  <2> QED
    BY <1>0, <2>1, <2>2, CommittedKeepsRecord
<1>10. ASSUME NEW w \in Workers, NEW j \in Jobs, CommitUnacknowledged(w, j) PROVE RInv'
  <2>1. PICK v \in Verdict :
            /\ step[w][j] = IF v = "succeeded" THEN "txDiffed" ELSE "txFailed"
            /\ Committed(w, j, v)
            /\ Leave(w, j, "err")
    BY <1>10 DEF CommitUnacknowledged, Verdict
  <2> QED
    BY <1>0, <2>1, LeaveForgets, CommittedKeepsRecord
<1>11. ASSUME NEW w \in Workers, NEW j \in Jobs,
             SaveFails(w, j) \/ AfterFailure(w, j) \/ AfterReport(w, j)
      PROVE  RInv'
  <2>1. PICK r \in {"ok", "err"} : Leave(w, j, r)
    BY <1>11 DEF SaveFails, AfterFailure, AfterReport
  <2>2. diff' = diff /\ Flushed
    BY <1>11 DEF SaveFails, AfterFailure, AfterReport, Flushed
  <2> QED
    BY <1>0, <2>1, <2>2, LeaveForgets, QuietKeepsRecord
<1>12. ASSUME NEW w \in Workers, Exit(w) PROVE RInv'
  <2>1. /\ audit' = audit /\ diff' = diff /\ status' = status
        /\ step' = [step EXCEPT ![w] = [j \in Jobs |-> "idle"]]
        /\ got' = [got EXCEPT ![w] = [j \in Jobs |-> None]]
    BY <1>12 DEF Exit, DrainDone, Killed, rowVars
  <2>2. GotType
    BY <1>0, <2>1 DEF RecordShape
  <2>3. \A x \in Workers, j \in Jobs :
           step'[x][j] = "txDiffed" => step[x][j] = "txDiffed" /\ got'[x][j] = got[x][j]
    BY <1>0, <2>1 DEF Shape, RecordShape
  <2> QED
    BY <1>0, <2>1, <2>2, <2>3, QuietKeepsRecord DEF Flushed
<1>13. ASSUME NEW w \in Workers, DispatchDone(w) PROVE RInv'
  BY <1>13, <1>1 DEF DispatchDone, vars, rowVars, Flushed
<1>14. CASE QueueStep
  <2>1. \A j \in Jobs : audit[j] = "absent" => status'[j] = status[j]
    BY <1>14, <1>2 DEF QueueStep, BackoffElapsed, Start, Cancel, ClaimLost, TakeRow, Claimable,
       MarkSucceeded, MarkRetry, MarkDead, MarkFails, Write, Outcome, rowVars, IInv,
       TypeOK, HolderOwnsRow
  <2> QED
    BY <1>14, <2>1, <1>1 DEF QueueStep, auditVars, Flushed
<1>15. CASE UNCHANGED pipeVars
  BY <1>15, <1>1 DEF pipeVars, auditVars, vars, rowVars, Flushed
<1> QED
  BY <1>3, <1>4, <1>5, <1>6, <1>7, <1>8, <1>9, <1>10, <1>11, <1>12, <1>13, <1>14, <1>15
     DEF PipeNext, Run


LEMMA RecordInvariance == PipeSpec => [](IInv /\ PInv /\ RInv)
<1>1. PipeInit => IInv /\ PInv /\ RInv
  BY InitIInv, InitPInv, InitRInv DEF PipeInit
<1>2. IInv /\ PInv /\ RInv /\ [PipeNext]_pipeVars => (IInv /\ PInv /\ RInv)'
  BY PipeStepIsQueueStep, IInvStep, PInvStep, RInvStep
<1> QED
  BY <1>1, <1>2, PTL DEF PipeSpec

\* Every report comes with its comparison to another one, whether or not
\* commits are acknowledged, and however often the job was tried.
THEOREM ReportHasDiffAlways == PipeSpec => []ReportHasDiff
<1>1. RInv => ReportHasDiff
  BY DEF RInv
<1> QED
  BY <1>1, RecordInvariance, PTL

-----------------------------------------------------------------------------
(* The pipeline implements the abstract record.                            *)

LEMMA ProgressIsRecordStep ==
    ASSUME Shape, Flushed, diff' = diff
    PROVE  [Record!Next]_<<audit, diff>>
<1>1. CASE audit' = audit
  BY <1>1
<1>2. ASSUME NEW j \in Jobs, audit' = Progress(j)
      PROVE  Record!Progress(j) \/ audit' = audit
  BY <1>2 DEF Shape, Progress, Record!Progress
<1> QED
  BY <1>1, <1>2 DEF Flushed, Record!Next

LEMMA CascadeIsDelete ==
    ASSUME NEW D \in SUBSET Jobs, Cascade(D),
           \A i, j \in Jobs : StoreOf[i] = StoreOf[j] /\ i \in D => j \in D
    PROVE  Record!Next
<1> DEFINE S == {StoreOf[j] : j \in D}
<1>1. S \in SUBSET Record!Stores
  BY DEF Record!Stores
<1>2. \A j \in Jobs : j \in D <=> StoreOf[j] \in S
  OBVIOUS
<1>3. Record!Delete(S)
  BY <1>2 DEF Cascade, Record!Delete
<1> QED
  BY <1>1, <1>3 DEF Record!Next

\* A failed attempt and a report are saved in one step each.
LEMMA CommittedIsRecordStep ==
    ASSUME ~ AckLoss, RInv, PInv, IInv, NEW w \in Workers, NEW j \in Jobs, NEW v \in Verdict,
           step[w][j] = IF v = "succeeded" THEN "txDiffed" ELSE "txFailed",
           Committed(w, j, v)
    PROVE  [Record!Next]_<<audit, diff>>
<1>1. phase[w][j] = "handling"
  BY DEF PInv, HandlerRuns
<1>2. audit[j] # "absent"
  BY <1>1 DEF IInv, HolderOwnsRow, RInv, JobHasAudit
<1>3. audit[j] # "succeeded"
  BY <1>1 DEF PInv, CommitIsFinal, Verdict
<1>4. audit \in [Jobs -> AuditStatus] /\ diff \in [Jobs -> Previously \cup {NoDiff}]
  BY DEF PInv, Shape, RInv, RecordShape
<1>5. audit[j] = "gone" \/ audit[j] \in Record!Open
  BY <1>2, <1>3, <1>4 DEF AuditStatus, Record!Open
<1>6. CASE v = "failed"
  <2>1. audit[j] = "gone" => audit' = audit /\ diff' = diff
    BY <1>4, <1>6 DEF Committed
  <2>2. audit[j] \in Record!Open => Record!Fail(j)
    BY <1>4, <1>6 DEF Committed, Record!Fail, Record!Open
  <2> QED
    BY <1>5, <2>1, <2>2 DEF Record!Next
<1>7. CASE v = "succeeded"
  <2>1. audit[j] # "gone" /\ got[w][j] \in Previously \ {j}
    BY <1>7 DEF RInv, FoundIsOfStore
  <2>2. got[w][j] \in {First} \cup {b \in Jobs : audit[b] = "succeeded" /\ StoreOf[b] = StoreOf[j]}
    BY <1>7, <2>1 DEF RInv, FoundIsOfStore, FoundIsReport, Previously
  <2>3. audit' = [audit EXCEPT ![j] = "succeeded"] /\ diff' = [diff EXCEPT ![j] = got[w][j]]
    BY <1>4, <1>7, <2>1 DEF Committed
  <2>4. Record!Publish(j)
    BY <1>5, <2>1, <2>2, <2>3 DEF Record!Publish
  <2> QED
    BY <2>4 DEF Record!Next
<1> QED
  BY <1>6, <1>7 DEF Verdict

LEMMA PipeStepIsRecordStep ==
    ASSUME ~ AckLoss, RInv, PInv, IInv, [PipeNext]_pipeVars
    PROVE  [Record!Next]_<<audit, diff>>
<1>0. Shape
  BY DEF PInv
<1>1. ASSUME NEW j \in Jobs, EnqueueAudit(j) PROVE Record!Next
  <2>1. Record!Create(j)
    BY <1>1 DEF EnqueueAudit, Record!Create
  <2> QED
    BY <2>1 DEF Record!Next
<1>2. ASSUME NEW t \in Tenants, DeleteTenant(t) PROVE Record!Next
  <2>1. \A i, j \in Jobs : StoreOf[i] = StoreOf[j] /\ i \in JobsOf(t) => j \in JobsOf(t)
    BY PipelineConstants DEF JobsOf
  <2> QED
    BY <1>2, <2>1, CascadeIsDelete DEF DeleteTenant, JobsOf
<1>3. ASSUME NEW s \in Stores, DeleteStore(s) PROVE Record!Next
  BY <1>3, CascadeIsDelete DEF DeleteStore
<1>4. ASSUME NEW w \in Workers, NEW j \in Jobs, SaveCommit(w, j)
      PROVE  [Record!Next]_<<audit, diff>>
  BY <1>4, CommittedIsRecordStep DEF SaveCommit, Verdict
<1>5. ASSUME NEW w \in Workers, NEW j \in Jobs,
             \/ BeginAudit(w, j) \/ StagesClose(w, j) \/ StageFails(w, j) \/ SaveBegin(w, j)
             \/ SaveDiff(w, j) \/ SaveFails(w, j) \/ AfterFailure(w, j) \/ AfterReport(w, j)
      PROVE  [Record!Next]_<<audit, diff>>
  <2>1. Flushed /\ diff' = diff
    BY <1>5 DEF Flushed, BeginAudit, StagesClose, StageFails, SaveBegin, SaveDiff, SaveFails,
       AfterFailure, AfterReport
  <2> QED
    BY <1>0, <2>1, ProgressIsRecordStep
<1>6. ASSUME NEW w \in Workers, Exit(w) \/ DispatchDone(w) PROVE UNCHANGED <<audit, diff>>
  BY <1>6 DEF Exit, DispatchDone
<1>7. ASSUME QueueStep \/ UNCHANGED pipeVars PROVE UNCHANGED <<audit, diff>>
  BY <1>7 DEF QueueStep, pipeVars, auditVars
<1> QED
  BY <1>1, <1>2, <1>3, <1>4, <1>5, <1>6, <1>7 DEF PipeNext, Run, CommitUnacknowledged

\* Where commits are acknowledged, claims, stages, statements and crashes are
\* invisible to readers of the tables: they see an audit published once, with a
\* comparison to a report that they could see already.
THEOREM PipelineIsRecord ==
    ASSUME ~ AckLoss
    PROVE  PipeSpec => RecordSpec
<1>1. PipeInit => Record!Init
  BY DEF PipeInit, Record!Init
<1>2. IInv /\ PInv /\ RInv /\ [PipeNext]_pipeVars => [Record!Next]_<<audit, diff>>
  BY PipeStepIsRecordStep
<1> QED
  BY <1>1, <1>2, RecordInvariance, PTL DEF PipeSpec, RecordSpec, Record!Spec

-----------------------------------------------------------------------------
(* What follows from the abstract record.                                  *)

\* A comparison is with a report of the same store that can still be read.
ComparedIsReport ==
    \A a \in Jobs :
        diff[a] \in Jobs => audit[diff[a]] = "succeeded" /\ StoreOf[diff[a]] = StoreOf[a]

RecordInv ==
    /\ audit \in [Jobs -> AuditStatus]
    /\ diff \in [Jobs -> Previously \cup {NoDiff}]
    /\ ComparedIsReport
    /\ DiffsAcyclic

LEMMA InitRecordInv == Record!Init => RecordInv
<1> SUFFICES ASSUME Record!Init PROVE RecordInv
  OBVIOUS
<1>1. ComparedIsReport
  BY PipelineConstants DEF Record!Init, ComparedIsReport
<1>2. DiffsAcyclic
  BY PipelineConstants DEF Record!Init, DiffsAcyclic
<1> QED
  BY <1>1, <1>2 DEF Record!Init, RecordInv, AuditStatus

\* A report published now is compared with by none so far, so that it closes
\* no cycle.
LEMMA PublishKeepsRecordInv ==
    ASSUME RecordInv, NEW a \in Jobs, Record!Publish(a)
    PROVE  RecordInv'
<1> USE PipelineConstants
<1>1. /\ audit[a] \in {"queued", "running", "failed"}
      /\ audit' = [audit EXCEPT ![a] = "succeeded"]
  BY DEF Record!Publish, Record!Open
<1>2. PICK prev \in {First} \cup {b \in Jobs : audit[b] = "succeeded" /\ StoreOf[b] = StoreOf[a]} :
          diff' = [diff EXCEPT ![a] = prev]
  BY DEF Record!Publish
<1>3. /\ audit' \in [Jobs -> AuditStatus]
      /\ diff' \in [Jobs -> Previously \cup {NoDiff}]
  BY <1>1, <1>2 DEF RecordInv, AuditStatus, Previously
<1>4. \A b \in Jobs \ {a} : diff'[b] = diff[b]
  BY <1>2 DEF RecordInv
<1>5. \A b \in Jobs : audit[b] = "succeeded" => audit'[b] = "succeeded" /\ b # a
  BY <1>1 DEF RecordInv
<1>6. ComparedIsReport'
  <2>1. diff'[a] = prev
    BY <1>2 DEF RecordInv
  <2> QED
    BY <1>2, <1>4, <1>5, <2>1 DEF RecordInv, ComparedIsReport
<1>7. ASSUME NEW S \in (SUBSET Jobs) \ {{}} PROVE \E b \in S : diff'[b] \notin S
  <2>1. \A b \in Jobs : diff[b] # a
    BY <1>1 DEF RecordInv, ComparedIsReport
  <2>2. CASE S = {a}
    BY <1>2, <1>5, <2>2 DEF RecordInv
  <2>3. CASE S # {a}
    <3>1. S \ {a} \in (SUBSET Jobs) \ {{}}
      BY <1>7, <2>3
    <3>2. PICK b \in S \ {a} : diff[b] \notin S \ {a}
      BY <3>1 DEF RecordInv, DiffsAcyclic
    <3> QED
      BY <1>4, <2>1, <3>2
  <2> QED
    BY <2>2, <2>3
<1> QED
  BY <1>3, <1>6, <1>7 DEF RecordInv, DiffsAcyclic

LEMMA DeleteKeepsRecordInv ==
    ASSUME RecordInv, NEW S \in SUBSET Record!Stores, Record!Delete(S)
    PROVE  RecordInv'
<1> USE PipelineConstants
<1>1. /\ audit' \in [Jobs -> AuditStatus]
      /\ diff' \in [Jobs -> Previously \cup {NoDiff}]
  BY DEF RecordInv, Record!Delete, AuditStatus
<1>2. \A a \in Jobs : IF StoreOf[a] \in S THEN diff'[a] = NoDiff
                      ELSE diff'[a] = diff[a] /\ audit'[a] = audit[a]
  BY DEF Record!Delete
<1>3. ComparedIsReport'
  BY <1>2 DEF RecordInv, ComparedIsReport
<1>4. DiffsAcyclic'
  BY <1>2 DEF RecordInv, DiffsAcyclic
<1> QED
  BY <1>1, <1>3, <1>4 DEF RecordInv

LEMMA RecordInvStep == RecordInv /\ [Record!Next]_<<audit, diff>> => RecordInv'
<1> SUFFICES ASSUME RecordInv, [Record!Next]_<<audit, diff>> PROVE RecordInv'
  OBVIOUS
<1>1. ASSUME NEW a \in Jobs, Record!Create(a) \/ Record!Progress(a) \/ Record!Fail(a)
      PROVE  RecordInv'
  <2>1. /\ diff' = diff /\ audit[a] # "succeeded"
        /\ \E s \in {"queued", "running", "failed"} : audit' = [audit EXCEPT ![a] = s]
    BY <1>1 DEF Record!Create, Record!Progress, Record!Fail, Record!Open
  <2>2. ComparedIsReport'
    BY <2>1 DEF RecordInv, ComparedIsReport
  <2> QED
    BY <2>1, <2>2 DEF RecordInv, AuditStatus, DiffsAcyclic, Previously
<1>2. ASSUME NEW a \in Jobs, Record!Publish(a) PROVE RecordInv'
  BY <1>2, PublishKeepsRecordInv
<1>3. ASSUME NEW S \in SUBSET Record!Stores, Record!Delete(S) PROVE RecordInv'
  BY <1>3, DeleteKeepsRecordInv
<1>4. CASE UNCHANGED <<audit, diff>>
  BY <1>4 DEF RecordInv, ComparedIsReport, DiffsAcyclic, Previously
<1> QED
  BY <1>1, <1>2, <1>3, <1>4 DEF Record!Next

\* Where commits are acknowledged, reports are never each other's predecessors,
\* directly or through a chain.
THEOREM DiffsAcyclicAlways ==
    ASSUME ~ AckLoss
    PROVE  PipeSpec => []DiffsAcyclic
<1>1. RecordSpec => []RecordInv
  BY InitRecordInv, RecordInvStep, PTL DEF RecordSpec, Record!Spec
<1>2. RecordInv => DiffsAcyclic
  BY DEF RecordInv
<1> QED
  BY <1>1, <1>2, PipelineIsRecord, PTL

\* Where commits are acknowledged, a report that users have seen never changes,
\* nor what it is compared with, until its store is deleted.
THEOREM ReportsStay ==
    ASSUME ~ AckLoss
    PROVE  PipeSpec =>
               [][\A j \in Jobs :
                     audit[j] = "succeeded" =>
                         \/ audit'[j] = "succeeded" /\ diff'[j] = diff[j]
                         \/ audit'[j] = "gone" /\ diff'[j] = NoDiff]_<<audit, diff>>
<1> DEFINE Stays ==
        \A j \in Jobs :
            audit[j] = "succeeded" =>
                \/ audit'[j] = "succeeded" /\ diff'[j] = diff[j]
                \/ audit'[j] = "gone" /\ diff'[j] = NoDiff
<1>1. RecordSpec => []RecordInv
  BY InitRecordInv, RecordInvStep, PTL DEF RecordSpec, Record!Spec
<1>2. RecordInv /\ [Record!Next]_<<audit, diff>> => [Stays]_<<audit, diff>>
  <2> SUFFICES ASSUME RecordInv, Record!Next PROVE Stays
    OBVIOUS
  <2>1. ASSUME NEW a \in Jobs,
               Record!Create(a) \/ Record!Progress(a) \/ Record!Fail(a) \/ Record!Publish(a)
        PROVE  Stays
    BY <2>1 DEF RecordInv, Record!Create, Record!Progress, Record!Fail, Record!Publish, Record!Open
  <2>2. ASSUME NEW S \in SUBSET Record!Stores, Record!Delete(S) PROVE Stays
    BY <2>2 DEF Record!Delete
  <2> QED
    BY <2>1, <2>2 DEF Record!Next
<1> QED
  BY <1>1, <1>2, PipelineIsRecord, PTL DEF RecordSpec, Record!Spec

=============================================================================
