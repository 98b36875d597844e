-------------------------- MODULE JobQueueProperties -------------------------
(***************************************************************************)
(* What the job queue promises.                                            *)
(***************************************************************************)
EXTENDS JobQueue

TypeOK ==
    /\ status   \in [Jobs -> Status]
    /\ attempts \in [Jobs -> Nat]
    /\ backoff  \in [Jobs -> 0 .. NumBackoffs]
    /\ lockedBy \in [Jobs -> Workers \cup {None}]
    /\ proc     \in [Workers -> Proc]
    /\ phase    \in [Workers -> [Jobs -> Phase]]
    /\ seen     \in [Workers -> [Jobs -> Nat]]

\* A goroutine that holds a job is the one locked_by names, the row is still
\* running and the attempt number in its memory is the row's: so no two
\* goroutines ever hold one job, and the unconditional UPDATE ... WHERE id of
\* the mark functions (jobs.go:224-268) never overwrites another's claim.
HolderOwnsRow ==
    \A w \in Workers, j \in Jobs :
        phase[w][j] # "none" =>
            /\ proc[w] \in {"up", "draining"}
            /\ seen[w][j] = attempts[j]
            /\ status[j] \in {"running", "gone"}
            /\ lockedBy[j] = w

\* No two goroutines, of one process or two, run the same job.
MutualExclusion ==
    \A j \in Jobs, v, w \in Workers :
        phase[v][j] # "none" /\ phase[w][j] # "none" => v = w

\* A row never runs more often than its max_attempts, and one that waits for
\* another run still has one left (handle, jobs.go:217-221).
AttemptsWithinBudget ==
    \A j \in Jobs :
        /\ attempts[j] <= MaxAttempts
        /\ status[j] = "queued" => attempts[j] < MaxAttempts

\* dead is reached only by using up every attempt or for want of a handler.
DeadIsEarned ==
    \A j \in Jobs :
        status[j] = "dead" => attempts[j] = MaxAttempts \/ j \notin Registered

\* A row left at running with nobody working on it was claimed by a process
\* that was stopped, killed or cut off: every other path of handle writes the
\* row back.
OnlyFaultsOrphan ==
    \A j \in Jobs : Orphan(j) => lockedBy[j] \notin Reliable

\* A finished job stays as it is, and a deleted row is never written again,
\* although no mark statement checks the status it overwrites.
SettledForever ==
    [][\A j \in Jobs :
          status[j] \in Terminal \cup {"gone"} =>
              /\ status'[j] \in {status[j], "gone"}
              /\ attempts'[j] = attempts[j]
              /\ lockedBy'[j] = lockedBy[j]]_vars

\* With one process that keeps running, every queued job is finished,
\* deleted, or stranded by a process that was not so lucky; none is retried
\* for ever and none is starved by the others.
EventuallySettled ==
    \A j \in Jobs :
        status[j] = "queued" ~>
            (status[j] \in Terminal \cup {"gone"} \/ Orphan(j))

=============================================================================
