---------------------------- MODULE AuditPipeline ----------------------------
(***************************************************************************)
(* The audit_store handler that the worker registers with the job queue:   *)
(* Pipeline.Run and the PgPersister it saves through, composed with the    *)
(* queue of JobQueue.  Each job carries one audit, so both have one name,  *)
(* and the worker registers this handler: its instances have Registered    *)
(* equal to Jobs.                                                          *)
(*                                                                         *)
(* The seven stages are told apart only by what they do to the database:   *)
(* the stages before the last flush progress when they close, a required   *)
(* one that fails persists a failed audit, and the last one saves the      *)
(* report in a transaction: it writes the audit row, looks up the previous *)
(* audit of the store, and inserts the audit_diffs row.  After the commit  *)
(* a goroutine dispatches alerts (AlertDispatch models what it does).       *)
(***************************************************************************)
EXTENDS JobQueue, Sequences

CONSTANTS
    StoreOf,    \* the store_id of each audit
    First,      \* previous_audit_id IS NULL in an audit_diffs row
    NoDiff,     \* no audit_diffs row
    AckLoss     \* TRUE: a commit may be applied and reported as failed

ASSUME PipelineConstants ==
    /\ AckLoss \in BOOLEAN
    /\ {First, NoDiff} \cap Jobs = {} /\ First # NoDiff
    /\ \A i, j \in Jobs : StoreOf[i] = StoreOf[j] => TenantOf[i] = TenantOf[j]

VARIABLES
    audit,      \* audits.status; "absent" before INSERT, "gone" after DELETE
    diff,       \* the audit_diffs row: the previous audit it compares with
    order,      \* finished_at: the stamps <<audit, "row" or "tx">>, oldest first
    step,       \* step[w][j]: where Pipeline.Run of w for audit j stands
    got,        \* got[w][j]: the previous audit the open transaction found
    dispatching,\* dispatching[w]: alert goroutines of w under way
    fired       \* every alert goroutine started: <<audit, attempt, verdict>>

auditVars == <<audit, diff, order, step, got, dispatching, fired>>
pipeVars  == <<vars, auditVars>>

AuditStatus == {"absent", "queued", "running", "succeeded", "failed", "gone"}
Verdict     == {"succeeded", "failed"}
OpenTx      == {"txFailed", "txReport", "txDiffed"}
Step        == {"idle", "begun", "staged", "saveFailed",
                "committedFailed", "committedReport"} \cup OpenTx
Stores      == {StoreOf[j] : j \in Jobs}

\* An open transaction of Save holds the lock of the audit row it updated.
Locked(j)   == audit[j] # "gone" /\ \E w \in Workers : step[w][j] \in OpenTx

\* Pipeline.Run leaves with nil or an error; the handler passes it on.
Leave(w, j, r) ==
    /\ HandlerReturns(w, j, r)
    /\ step' = [step EXCEPT ![w][j] = "idle"]
    /\ got'  = [got EXCEPT ![w][j] = None]

Goto(w, j, s) ==
    /\ phase[w][j] = "handling"
    /\ step' = [step EXCEPT ![w][j] = s]

PipeInit ==
    /\ Init
    /\ audit = [j \in Jobs |-> "absent"]
    /\ diff  = [j \in Jobs |-> NoDiff]
    /\ order = <<>>
    /\ step  = [w \in Workers |-> [j \in Jobs |-> "idle"]]
    /\ got   = [w \in Workers |-> [j \in Jobs |-> None]]
    /\ dispatching = [w \in Workers |-> {}]
    /\ fired = {}

-----------------------------------------------------------------------------
(* Audits come and go.                                                     *)

\* The web handlers and the scheduler insert the audit and its job together.
EnqueueAudit(j) ==
    /\ audit[j] = "absent"
    /\ Enqueue(j)
    /\ audit' = [audit EXCEPT ![j] = "queued"]
    /\ UNCHANGED <<diff, order, step, got, dispatching, fired>>

\* The rows of the audits in S disappear, with their diffs, by ON DELETE CASCADE.
Cascade(S) ==
    /\ \A j \in S : ~ Locked(j)
    /\ audit' = [j \in Jobs |-> IF j \in S THEN "gone" ELSE audit[j]]
    /\ diff'  = [j \in Jobs |-> IF j \in S THEN NoDiff ELSE diff[j]]
    /\ order' = SelectSeq(order, LAMBDA stamp : stamp[1] \notin S)
    /\ UNCHANGED <<step, got, dispatching, fired>>

DeleteTenant(t) == TenantDeleted(t) /\ Cascade(JobsOf(t))

\* Deleting a store takes its audits along and leaves their jobs alone.
DeleteStore(s) ==
    /\ \E j \in Jobs : StoreOf[j] = s /\ audit[j] \notin {"absent", "gone"}
    /\ Cascade({j \in Jobs : StoreOf[j] = s})
    /\ UNCHANGED vars

-----------------------------------------------------------------------------
(* Pipeline.Run: the stages.                                               *)

BeginAudit(w, j) ==
    /\ Claim(w, j)
    /\ step' = [step EXCEPT ![w][j] = "begun"]
    /\ UNCHANGED <<audit, diff, order, got, dispatching, fired>>

\* SaveProgress as a bare UPDATE of status.
BugProgress(j) == [audit EXCEPT ![j] = IF @ = "gone" THEN @ ELSE "running"]

\* SaveProgress: only a queued audit turns to running.
Progress(j) == [audit EXCEPT ![j] = IF @ = "queued" THEN "running" ELSE @]

\* Stages close and flush their progress, in a context of their own.
StagesClose(w, j) ==
    /\ step[w][j] = "begun"
    /\ Goto(w, j, "staged")
    /\ \/ audit' = Progress(j)
       \/ w \notin Reliable /\ audit' = audit
    /\ UNCHANGED <<vars, diff, order, got, dispatching, fired>>

\* The error of a failed stage is returned without persistFailed.
BugStageFails(w, j) ==
    /\ step[w][j] \in {"begun", "staged"}
    /\ Leave(w, j, "err")
    /\ UNCHANGED <<audit, diff, order, dispatching, fired>>

\* Validate, crawl, detect or score fails, after any number of flushes.
StageFails(w, j) ==
    /\ step[w][j] \in {"begun", "staged"}
    /\ Goto(w, j, "saveFailed")
    /\ UNCHANGED <<vars, audit, diff, order, got, dispatching, fired>>

-----------------------------------------------------------------------------
(* PgPersister.Save, statement by statement.                               *)

\* BEGIN, and UPDATE audits stamps finished_at; a cancelled context cannot
\* begin.
SaveBegin(w, j) ==
    /\ proc[w] = "up"
    /\ \/ step[w][j] = "staged" /\ Goto(w, j, "txReport")
       \/ step[w][j] = "saveFailed" /\ Goto(w, j, "txFailed")
    /\ order' = IF audit[j] = "gone" THEN order ELSE Append(order, <<j, "tx">>)
    /\ UNCHANGED <<vars, audit, diff, got, dispatching, fired>>

\* The finished audits of the store, itself and failures included.
BugReports(j) == {b \in Jobs : StoreOf[b] = StoreOf[j] /\ audit[b] \in {"succeeded", "failed"}}

\* The other reports on the store, as committed so far.
Reports(j) == {b \in Jobs \ {j} : StoreOf[b] = StoreOf[j] /\ audit[b] = "succeeded"}

FinishedBefore(b, c) ==
    \E m, n \in DOMAIN order :
        m < n /\ order[m] = <<b, "row">> /\ order[n] = <<c, "row">>

\* differ.Persist: the last of the other reports to finish.
Previous(j) ==
    IF Reports(j) = {} THEN {First}
    ELSE {b \in Reports(j) : \A c \in Reports(j) : ~ FinishedBefore(b, c)}

\* Inserting issues and the diff row needs the audit row to exist.
SaveDiff(w, j) ==
    /\ proc[w] = "up"
    /\ step[w][j] = "txReport" /\ audit[j] # "gone"
    /\ Goto(w, j, "txDiffed")
    /\ \E prev \in Previous(j) : got' = [got EXCEPT ![w][j] = prev]
    /\ UNCHANGED <<vars, audit, diff, order, dispatching, fired>>

\* The diff row is left for later.
BugCommitted(w, j, v) ==
    /\ audit' = [audit EXCEPT ![j] = IF @ = "gone" THEN @ ELSE v]
    /\ order' = [n \in DOMAIN order |->
                    IF order[n] = <<j, "tx">> THEN <<j, "row">> ELSE order[n]]
    /\ UNCHANGED diff

\* What the commit makes visible: the audit row with its new finished_at,
\* and for a report the diff row.
Committed(w, j, v) ==
    /\ audit' = [audit EXCEPT ![j] = IF @ = "gone" THEN @ ELSE v]
    /\ diff'  = IF v = "succeeded" THEN [diff EXCEPT ![j] = got[w][j]] ELSE diff
    /\ order' = LET others == SelectSeq(order, LAMBDA stamp : stamp # <<j, "row">>)
                IN  [n \in DOMAIN others |->
                        IF others[n] = <<j, "tx">> THEN <<j, "row">> ELSE others[n]]

SaveCommit(w, j) ==
    /\ proc[w] = "up"
    /\ \/ step[w][j] = "txFailed" /\ Committed(w, j, "failed") /\ Goto(w, j, "committedFailed")
       \/ step[w][j] = "txDiffed" /\ Committed(w, j, "succeeded") /\ Goto(w, j, "committedReport")
    /\ UNCHANGED <<vars, got, dispatching, fired>>

\* COMMIT is applied and its answer lost: Save returns an error.
CommitUnacknowledged(w, j) ==
    /\ AckLoss /\ w \notin Reliable
    /\ \/ step[w][j] = "txFailed" /\ Committed(w, j, "failed")
       \/ step[w][j] = "txDiffed" /\ Committed(w, j, "succeeded")
    /\ Leave(w, j, "err")
    /\ UNCHANGED <<dispatching, fired>>

Rollback(S) == order' = SelectSeq(order, LAMBDA stamp : ~ (stamp[2] = "tx" /\ stamp[1] \in S))

\* A statement of Save fails: always for a report whose audit is gone, else
\* for want of the database or because the context is cancelled.  The
\* handler returns an error, the stage's own after persistFailed.
SaveFails(w, j) ==
    /\ step[w][j] \in {"staged", "saveFailed"} \cup OpenTx
    /\ w \in Reliable => step[w][j] = "txReport" /\ audit[j] = "gone"
    /\ Rollback({j})
    /\ Leave(w, j, "err")
    /\ UNCHANGED <<audit, diff, dispatching, fired>>

-----------------------------------------------------------------------------
(* AfterCommit, and the life of the process.                               *)

\* Save fires AfterCommit, which starts a goroutine with a context of its own
\* that nobody waits for, and returns nil.
StartDispatch(w, j, verdict) ==
    LET alert == <<j, seen[w][j], verdict>>
    IN  /\ fired' = fired \cup {alert}
        /\ dispatching' = [dispatching EXCEPT ![w] = @ \cup {alert}]

\* A stage's error is forgotten once persistFailed has saved it.
BugAfterFailure(w, j) ==
    /\ step[w][j] = "committedFailed"
    /\ StartDispatch(w, j, "failed")
    /\ Leave(w, j, "ok")
    /\ UNCHANGED <<audit, diff, order>>

\* Save was called by persistFailed: Run returns the stage's error.
AfterFailure(w, j) ==
    /\ step[w][j] = "committedFailed"
    /\ StartDispatch(w, j, "failed")
    /\ Leave(w, j, "err")
    /\ UNCHANGED <<audit, diff, order>>

\* The handler passes an error of the alert hook on.
BugAfterReport(w, j) ==
    /\ step[w][j] = "committedReport"
    /\ StartDispatch(w, j, "succeeded")
    /\ audit' = Progress(j)
    /\ \E r \in {"ok", "err"} : Leave(w, j, r)
    /\ UNCHANGED <<diff, order>>

\* Save was called by runPersist: its stage closes, which flushes progress
\* once more, and Run returns nil.
AfterReport(w, j) ==
    /\ step[w][j] = "committedReport"
    /\ StartDispatch(w, j, "succeeded")
    /\ audit' = Progress(j)
    /\ Leave(w, j, "ok")
    /\ UNCHANGED <<diff, order>>

DispatchDone(w) ==
    /\ \E alert \in dispatching[w] :
          dispatching' = [dispatching EXCEPT ![w] = @ \ {alert}]
    /\ UNCHANGED <<vars, audit, diff, order, step, got, fired>>

\* main returns once the jobs have drained, or the process dies: its
\* goroutines end and the server rolls its transactions back.
Exit(w) ==
    /\ DrainDone(w) \/ Killed(w)
    /\ step' = [step EXCEPT ![w] = [j \in Jobs |-> "idle"]]
    /\ got'  = [got EXCEPT ![w] = [j \in Jobs |-> None]]
    /\ Rollback({j \in Jobs : step[w][j] \in OpenTx})
    /\ dispatching' = [dispatching EXCEPT ![w] = {}]
    /\ UNCHANGED <<audit, diff, fired>>

-----------------------------------------------------------------------------

\* What the queue does without regard to the audit.
QueueStep ==
    /\ \/ \E j \in Jobs : BackoffElapsed(j)
       \/ \E w \in Workers : Start(w) \/ Cancel(w)
       \/ \E w \in Workers, j \in Jobs :
             \/ ClaimLost(w, j)
             \/ MarkSucceeded(w, j) \/ MarkRetry(w, j) \/ MarkDead(w, j)
             \/ MarkFails(w, j)
    /\ UNCHANGED auditVars

Run(w, j) ==
    \/ StagesClose(w, j) \/ StageFails(w, j)
    \/ SaveBegin(w, j) \/ SaveDiff(w, j) \/ SaveCommit(w, j)
    \/ SaveFails(w, j)
    \/ AfterFailure(w, j) \/ AfterReport(w, j)

PipeNext ==
    \/ \E j \in Jobs : EnqueueAudit(j)
    \/ \E t \in Tenants : DeleteTenant(t)
    \/ \E s \in Stores : DeleteStore(s)
    \/ \E w \in Workers, j \in Jobs : BeginAudit(w, j) \/ Run(w, j) \/ CommitUnacknowledged(w, j)
    \/ \E w \in Workers : Exit(w) \/ DispatchDone(w)
    \/ QueueStep

PipeSpec == PipeInit /\ [][PipeNext]_pipeVars

\* Every goroutine that can take a step takes one, and a process that stays up
\* keeps polling; a retry's run_at passes.
PipeFairness ==
    /\ \A j \in Jobs : WF_pipeVars(BackoffElapsed(j) /\ UNCHANGED auditVars)
    /\ \A w \in Workers, j \in Jobs :
          /\ WF_pipeVars(Run(w, j))
          /\ WF_pipeVars((Mark(w, j) \/ MarkFails(w, j)) /\ UNCHANGED auditVars)
    /\ \A w \in Reliable :
          /\ WF_pipeVars(Start(w) /\ UNCHANGED auditVars)
          /\ WF_pipeVars(\E j \in Jobs : BeginAudit(w, j))

FairPipeSpec == PipeSpec /\ PipeFairness

=============================================================================
