------------------------------ MODULE JobQueue ------------------------------
(***************************************************************************)
(* The Postgres-backed job queue of internal/jobs: the audit_jobs table,   *)
(* and the worker processes that claim rows, run a handler in a goroutine  *)
(* and record the outcome.                                                 *)
(*                                                                         *)
(* A member of Workers is one run of a worker process: jobs.WorkerID gives *)
(* every process start a fresh locked_by value, so a restarted worker is a *)
(* new member.  What a handler does is left open here (AuditPipeline fills *)
(* it in): it returns nil, an error, or there is none for the job's kind.  *)
(***************************************************************************)
EXTENDS Naturals, FiniteSets

CONSTANTS
    Jobs,           \* ids of the rows of audit_jobs
    Workers,        \* runs of a worker process
    Reliable,       \* the processes that are never stopped, killed or cut
                    \* off from the database
    Registered,     \* the jobs whose kind has a registered handler
    TenantOf,       \* the tenant_id column of each job
    MaxAttempts,    \* the max_attempts column every row gets
    MaxConcurrent,  \* capacity of the worker's semaphore
    NumBackoffs,    \* len(Backoffs)
    None            \* SQL NULL in locked_by

ASSUME QueueConstants ==
    /\ Reliable \subseteq Workers
    /\ Registered \subseteq Jobs
    /\ MaxAttempts \in Nat \ {0}
    /\ MaxConcurrent \in Nat \ {0}
    /\ NumBackoffs \in Nat \ {0}
    /\ None \notin Workers

VARIABLES
    status,     \* audit_jobs.status; "absent" before INSERT, "gone" after DELETE
    attempts,   \* audit_jobs.attempts
    backoff,    \* which entry of Backoffs run_at still lies ahead by; 0: due
    lockedBy,   \* audit_jobs.locked_by
    proc,       \* life of each worker process
    phase,      \* phase[w][j]: where w's goroutine for job j stands
    seen        \* seen[w][j]: Job.Attempts as the claim returned it to w

rowVars  == <<status, attempts, backoff, lockedBy>>
slotVars == <<phase, seen>>
vars     == <<rowVars, proc, slotVars>>

Terminal == {"succeeded", "dead"}
Status   == {"absent", "queued", "running", "gone"} \cup Terminal
Outcome  == {"ok", "err", "unhandled"}
Phase    == {"none", "handling"} \cup Outcome
Proc     == {"new", "up", "draining", "stopped", "killed"}

Tenants      == {TenantOf[j] : j \in Jobs}
JobsOf(t)    == {j \in Jobs : TenantOf[j] = t}
InFlight(w)  == {j \in Jobs : phase[w][j] # "none"}
Held(j)      == \E w \in Workers : phase[w][j] # "none"
Orphan(j)    == status[j] = "running" /\ ~ Held(j)
IdleSlots    == [w \in Workers |-> [j \in Jobs |-> "none"]]

\* Backoffs[attempts-1] without the clamp.
BugBackoffIndex(attempt) == attempt

\* The clamped index into Backoffs, counted from 1.
BackoffIndex(attempt) ==
    IF attempt = 0 THEN 1 ELSE IF attempt > NumBackoffs THEN NumBackoffs ELSE attempt

Init ==
    /\ status   = [j \in Jobs |-> "absent"]
    /\ attempts = [j \in Jobs |-> 0]
    /\ backoff  = [j \in Jobs |-> 0]
    /\ lockedBy = [j \in Jobs |-> None]
    /\ proc     = [w \in Workers |-> "new"]
    /\ phase    = IdleSlots
    /\ seen     = [w \in Workers |-> [j \in Jobs |-> 0]]

-----------------------------------------------------------------------------
(* Rows come, become due and go.                                           *)

\* INSERT INTO audit_jobs (..., run_at) VALUES (..., now()), by the web
\* handlers and the scheduler.
Enqueue(j) ==
    /\ status[j] = "absent"
    /\ status' = [status EXCEPT ![j] = "queued"]
    /\ UNCHANGED <<attempts, backoff, lockedBy, proc, slotVars>>

\* run_at passes.
BackoffElapsed(j) ==
    /\ backoff[j] > 0
    /\ backoff' = [backoff EXCEPT ![j] = 0]
    /\ UNCHANGED <<status, attempts, lockedBy, proc, slotVars>>

\* Deleting a tenant cascades to its jobs, whatever their state.
TenantDeleted(t) ==
    /\ \E j \in JobsOf(t) : status[j] \notin {"absent", "gone"}
    /\ status'  = [j \in Jobs |-> IF TenantOf[j] = t THEN "gone" ELSE status[j]]
    /\ backoff' = [j \in Jobs |-> IF TenantOf[j] = t THEN 0 ELSE backoff[j]]
    /\ UNCHANGED <<attempts, lockedBy, proc, slotVars>>

-----------------------------------------------------------------------------
(* Worker.Run: claims.                                                     *)

Start(w) ==
    /\ proc[w] = "new"
    /\ proc' = [proc EXCEPT ![w] = "up"]
    /\ UNCHANGED <<rowVars, slotVars>>

\* A sweeper-minded claim that also takes rows already running.
BugClaimable(j) == status[j] \in {"queued", "running"} /\ backoff[j] = 0

Claimable(j) == status[j] = "queued" /\ backoff[j] = 0

\* attempts = attempts + 1 forgotten.
BugTakeRow(w, j) ==
    /\ Claimable(j)
    /\ status'   = [status EXCEPT ![j] = "running"]
    /\ lockedBy' = [lockedBy EXCEPT ![j] = w]
    /\ UNCHANGED <<attempts, backoff>>

\* The claim transaction: one statement picks a due row nobody has locked
\* and takes it.  Which due row is first by run_at is left open.
TakeRow(w, j) ==
    /\ Claimable(j)
    /\ status'   = [status EXCEPT ![j] = "running"]
    /\ attempts' = [attempts EXCEPT ![j] = @ + 1]
    /\ lockedBy' = [lockedBy EXCEPT ![j] = w]
    /\ UNCHANGED backoff

\* RETURNING the attempts of before the UPDATE.
BugClaim(w, j) ==
    /\ proc[w] = "up"
    /\ Cardinality(InFlight(w)) < MaxConcurrent
    /\ TakeRow(w, j)
    /\ phase' = [phase EXCEPT ![w][j] = "handling"]
    /\ seen'  = [seen EXCEPT ![w][j] = attempts[j]]
    /\ UNCHANGED proc

\* A semaphore slot is free, the claim commits and the goroutine starts.
Claim(w, j) ==
    /\ proc[w] = "up"
    /\ Cardinality(InFlight(w)) < MaxConcurrent
    /\ TakeRow(w, j)
    /\ phase' = [phase EXCEPT ![w][j] = "handling"]
    /\ seen'  = [seen EXCEPT ![w][j] = attempts[j] + 1]
    /\ UNCHANGED proc

\* The claim commits but the worker sees an error (acknowledgement lost,
\* context cancelled meanwhile): it gives the slot back and polls again.
ClaimLost(w, j) ==
    /\ w \notin Reliable
    /\ proc[w] = "up"
    /\ Cardinality(InFlight(w)) < MaxConcurrent
    /\ TakeRow(w, j)
    /\ UNCHANGED <<proc, slotVars>>

-----------------------------------------------------------------------------
(* Worker.handle: the handler's outcome is written back to the row.        *)

Outcomes(j) == IF j \in Registered THEN {"ok", "err"} ELSE {"unhandled"}

HandlerReturns(w, j, r) ==
    /\ phase[w][j] = "handling"
    /\ r \in Outcomes(j)
    /\ phase' = [phase EXCEPT ![w][j] = r]
    /\ UNCHANGED <<rowVars, proc, seen>>

\* An upsert brings a deleted row back.
BugWrite(var, j, val) == [var EXCEPT ![j] = val]

\* The mark statements all run UPDATE ... WHERE id = $1: they look neither at
\* status nor at locked_by, and touch no row when it is gone.
Write(var, j, val) == IF status[j] = "gone" THEN var ELSE [var EXCEPT ![j] = val]

Release(w, j) == phase' = [phase EXCEPT ![w][j] = "none"] /\ UNCHANGED <<proc, seen>>

\* One attempt too many, and dead once the backoff schedule is used up.
BugExhaustedLate(w, j)  == seen[w][j] > MaxAttempts
BugExhaustedEarly(w, j) == seen[w][j] >= NumBackoffs

Exhausted(w, j) == seen[w][j] >= MaxAttempts

MarkSucceeded(w, j) ==
    /\ proc[w] = "up"
    /\ phase[w][j] = "ok"
    /\ status' = Write(status, j, "succeeded")
    /\ Release(w, j)
    /\ UNCHANGED <<attempts, backoff, lockedBy>>

\* The retry schedules run_at but leaves the row at running.
BugMarkRetry(w, j) ==
    /\ proc[w] = "up"
    /\ phase[w][j] = "err" /\ ~ Exhausted(w, j)
    /\ backoff'  = Write(backoff, j, BackoffIndex(seen[w][j]))
    /\ Release(w, j)
    /\ UNCHANGED <<status, attempts, lockedBy>>

MarkRetry(w, j) ==
    /\ proc[w] = "up"
    /\ phase[w][j] = "err" /\ ~ Exhausted(w, j)
    /\ status'   = Write(status, j, "queued")
    /\ backoff'  = Write(backoff, j, BackoffIndex(seen[w][j]))
    /\ lockedBy' = Write(lockedBy, j, None)
    /\ Release(w, j)
    /\ UNCHANGED attempts

MarkDead(w, j) ==
    /\ proc[w] = "up"
    /\ \/ phase[w][j] = "unhandled"
       \/ phase[w][j] = "err" /\ Exhausted(w, j)
    /\ status' = Write(status, j, "dead")
    /\ Release(w, j)
    /\ UNCHANGED <<attempts, backoff, lockedBy>>

\* The UPDATE fails, always so once the context is cancelled: the error is
\* logged and the goroutine ends.
MarkFails(w, j) ==
    /\ w \notin Reliable
    /\ phase[w][j] \in Outcome
    /\ Release(w, j)
    /\ UNCHANGED rowVars

Mark(w, j) == MarkSucceeded(w, j) \/ MarkRetry(w, j) \/ MarkDead(w, j)

-----------------------------------------------------------------------------
(* Shutdown.                                                               *)

\* SIGTERM cancels the one context claims, handlers and marks share.
Cancel(w) ==
    /\ w \notin Reliable
    /\ proc[w] = "up"
    /\ proc' = [proc EXCEPT ![w] = "draining"]
    /\ UNCHANGED <<rowVars, slotVars>>

\* wg.Wait returns within the drain deadline.
DrainDone(w) ==
    /\ proc[w] = "draining"
    /\ InFlight(w) = {}
    /\ proc' = [proc EXCEPT ![w] = "stopped"]
    /\ UNCHANGED <<rowVars, slotVars>>

\* The drain deadline passes with jobs in flight, or the process dies.
Killed(w) ==
    /\ w \notin Reliable
    /\ proc[w] \in {"up", "draining"}
    /\ proc'  = [proc EXCEPT ![w] = "killed"]
    /\ phase' = [phase EXCEPT ![w] = [j \in Jobs |-> "none"]]
    /\ UNCHANGED <<rowVars, seen>>

-----------------------------------------------------------------------------

Next ==
    \/ \E j \in Jobs : Enqueue(j) \/ BackoffElapsed(j)
    \/ \E t \in Tenants : TenantDeleted(t)
    \/ \E w \in Workers : Start(w) \/ Cancel(w) \/ DrainDone(w) \/ Killed(w)
    \/ \E w \in Workers, j \in Jobs :
          \/ Claim(w, j) \/ ClaimLost(w, j)
          \/ \E r \in Outcome : HandlerReturns(w, j, r)
          \/ MarkSucceeded(w, j) \/ MarkRetry(w, j) \/ MarkDead(w, j)
          \/ MarkFails(w, j)

Spec == Init /\ [][Next]_vars

\* What the code's own loops guarantee: the poll ticker fires while the
\* process lives, a goroutine that can take a step takes it, time passes.
\* Nothing makes a user enqueue or a process fail.
Fairness ==
    /\ \A j \in Jobs : WF_vars(BackoffElapsed(j))
    /\ \A w \in Workers, j \in Jobs :
          /\ WF_vars(\E r \in Outcome : HandlerReturns(w, j, r))
          /\ WF_vars(Mark(w, j) \/ MarkFails(w, j))
    /\ \A w \in Workers : WF_vars(DrainDone(w))
    /\ \A w \in Reliable :
          /\ WF_vars(Start(w))
          /\ WF_vars(\E j \in Jobs : Claim(w, j))

FairSpec == Spec /\ Fairness

=============================================================================
