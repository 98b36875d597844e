----------------------- MODULE AuditPipelineProperties -----------------------
(***************************************************************************)
(* What the audit pipeline promises on top of the job queue.               *)
(***************************************************************************)
EXTENDS AuditPipeline, JobQueueProperties

Previously == Jobs \cup {First}

Record == INSTANCE AuditRecord WITH Audits <- Jobs

\* To a reader of the tables, with commits that are acknowledged, Save
\* publishes a report once and atomically, and compares it with one already
\* published (persist_pg.go:44-143, differ.go:119-192).
RecordSpec == Record!Spec

\* The queue's verdict and the report agree: a job is done only when its report
\* is there to be read, and one given up on leaves no report that users take for
\* its result.  The handler's error travels from Save, or from the failed stage
\* that Save recorded, through Pipeline.Run to the mark statements.
VerdictsAgree ==
    \A j \in Jobs :
        /\ status[j] = "succeeded" => audit[j] \in {"succeeded", "gone"}
        /\ status[j] = "dead" => audit[j] # "succeeded"

\* Every report comes with its comparison (differ.go:11-13), committed in one
\* transaction, however often the job was retried before.
ReportHasDiff ==
    \A j \in Jobs : audit[j] = "succeeded" => diff[j] \in Previously \ {j}

\* Two reports never count as each other's predecessor, directly or through
\* a chain, although two audits of a store may save at the same time.
DiffsAcyclic ==
    \A S \in (SUBSET Jobs) \ {{}} : \E j \in S : diff[j] \notin S

\* Alerts about a success are started at most once and are the last word: no
\* attempt after it, by this process or another, starts one of either kind.
SuccessAlertIsLast ==
    \A a, b \in fired :
        a[1] = b[1] /\ a # b /\ a[3] = "succeeded" => b[2] < a[2]

\* An audit queued while one process stays up is not left queued or running:
\* it reaches an end a user can see, unless a process that failed was the last
\* to run it and stranded its job or gave it up without saving why.
AuditDecided ==
    \A j \in Jobs :
        audit[j] = "queued" ~>
            \/ audit[j] \in {"succeeded", "failed", "gone"}
            \/ Orphan(j)
            \/ status[j] = "dead" /\ lockedBy[j] \notin Reliable

=============================================================================
