-------------------------- MODULE MonitorScheduler --------------------------
(***************************************************************************)
(* Scheduled audits: the timetable columns of stores, the scheduler        *)
(* processes that claim due stores and queue an audit for each             *)
(* (internal/scheduler), and the web handlers that add, switch and delete  *)
(* stores meanwhile.                                                       *)
(*                                                                         *)
(* A member of Schedulers is one run of cmd/scheduler.  A claim is one     *)
(* statement: it locks the due stores nobody else has locked and moves     *)
(* their next_audit_at ahead, and only then, one transaction per store,    *)
(* are the audits inserted.  What lies between is in the process's memory. *)
(***************************************************************************)
EXTENDS Integers, FiniteSets, Sequences, SequencesExt

CONSTANTS
    Stores,         \* the stores of one tenant
    Schedulers,     \* runs of a scheduler process
    Reliable,       \* those never stopped, killed or cut off from the database
    BatchSize       \* Scheduler.BatchSize

ASSUME SchedulerConstants ==
    /\ IsFiniteSet(Stores)
    /\ Reliable \subseteq Schedulers
    /\ Stores \cap Schedulers = {}
    /\ BatchSize \in Nat \ {0}

VARIABLES
    allowed,    \* the tenant's plan has a cadence other than off
    monitor,    \* stores.monitor_enabled; "absent" before INSERT, "gone" after DELETE
    locked,     \* stores whose DELETE has run in a request not yet committed
    next,       \* stores.next_audit_at: "null", "ahead" or "past"
    agenda,     \* the stores at "past", earliest next_audit_at first
    proc,       \* life of each process
    batch,      \* batch[p]: claimed stores p has yet to queue an audit for
    open,       \* history: the times a store came due that neither got an
                \* audit nor were lost
    fate        \* history: what became of the last time it came due; the
                \* process that lost it

storeVars == <<allowed, monitor, locked, next, agenda>>
vars      == <<storeVars, proc, batch, open, fate>>

Existing == {s \in Stores : monitor[s] \in {"on", "off"}}
Holders(s) == {p \in Schedulers : s \in batch[p]}

Init ==
    /\ allowed \in BOOLEAN
    /\ monitor = [s \in Stores |-> "absent"]
    /\ locked  = {}
    /\ next    = [s \in Stores |-> "null"]
    /\ agenda  = <<>>
    /\ proc    = [p \in Schedulers |-> "new"]
    /\ batch   = [p \in Schedulers |-> {}]
    /\ open    = [s \in Stores |-> 0]
    /\ fate    = [s \in Stores |-> "none"]

ComesDue(s) ==
    /\ open' = [open EXCEPT ![s] = @ + 1]
    /\ fate' = [fate EXCEPT ![s] = "pending"]

-----------------------------------------------------------------------------
(* The web: stores and their monitoring.                                   *)

\* StoreCreate leaves monitoring to the column defaults: enabled, never audited.
StoreCreate(s) ==
    /\ monitor[s] = "absent"
    /\ monitor' = [monitor EXCEPT ![s] = "on"]
    /\ ComesDue(s)
    /\ UNCHANGED <<allowed, locked, next, agenda, proc, batch>>

\* COALESCE(next_audit_at, now()): a date still ahead is kept.
MonitoringOn(s) ==
    /\ s \in Existing \ locked /\ allowed
    /\ monitor' = [monitor EXCEPT ![s] = "on"]
    /\ IF next[s] = "null"
       THEN next' = [next EXCEPT ![s] = "past"] /\ agenda' = Append(agenda, s)
       ELSE UNCHANGED <<next, agenda>>
    /\ UNCHANGED <<allowed, locked, proc, batch, open, fate>>

MonitoringOff(s) ==
    /\ s \in Existing \ locked
    /\ monitor' = [monitor EXCEPT ![s] = "off"]
    /\ UNCHANGED <<allowed, locked, next, agenda, proc, batch, open, fate>>

\* The DELETE runs in the request's transaction and locks the row until the
\* response is written.
StoreDelete(s) ==
    /\ s \in Existing \ locked
    /\ locked' = locked \cup {s}
    /\ UNCHANGED <<allowed, monitor, next, agenda, proc, batch, open, fate>>

\* The request's transaction ends, with COMMIT or without.
RequestEnds(s) ==
    /\ s \in locked
    /\ locked' = locked \ {s}
    /\ \/ /\ monitor' = [monitor EXCEPT ![s] = "gone"]
          /\ agenda'  = Remove(agenda, s)
       \/ UNCHANGED <<monitor, agenda>>
    /\ UNCHANGED <<allowed, next, proc, batch, open, fate>>

\* Billing moves the tenant to another plan; monitoring stays as it is.
PlanChanges ==
    /\ allowed' = ~ allowed
    /\ UNCHANGED <<monitor, locked, next, agenda, proc, batch, open, fate>>

\* next_audit_at passes.
TimePasses(s) ==
    /\ s \in Existing /\ next[s] = "ahead"
    /\ next'   = [next EXCEPT ![s] = "past"]
    /\ agenda' = Append(agenda, s)
    /\ ComesDue(s)
    /\ UNCHANGED <<allowed, monitor, locked, proc, batch>>

-----------------------------------------------------------------------------
(* Scheduler.Run.                                                          *)

Start(p) ==
    /\ proc[p] = "new"
    /\ proc' = [proc EXCEPT ![p] = "up"]
    /\ UNCHANGED <<storeVars, batch, open, fate>>

\* monitor_enabled and due, and not passed over by SKIP LOCKED.
Due == {s \in Stores \ locked : monitor[s] = "on" /\ next[s] \in {"null", "past"}}

\* ORDER BY next_audit_at DESC.
BugBefore(s, t) ==
    \/ next[s] = "null"
    \/ \E m, n \in DOMAIN agenda : m > n /\ agenda[m] = s /\ agenda[n] = t

\* ORDER BY next_audit_at NULLS FIRST.
Before(s, t) ==
    \/ next[s] = "null"
    \/ \E m, n \in DOMAIN agenda : m < n /\ agenda[m] = s /\ agenda[n] = t

\* What LIMIT leaves of the due stores; ties between NULLs are open.
Batches ==
    {S \in SUBSET Due :
        /\ S # {} /\ Cardinality(S) <= BatchSize
        /\ S # Due => Cardinality(S) = BatchSize
        /\ \A s \in S, t \in Due \ S : Before(s, t)}

\* The claim only selects, and next_audit_at is moved by whoever queues.
BugMoveAhead(S) == UNCHANGED <<next, agenda>>

MoveAhead(S) ==
    /\ next'   = [s \in Stores |-> IF s \in S THEN "ahead" ELSE next[s]]
    /\ agenda' = SelectSeq(agenda, LAMBDA s : s \notin S)

\* claimDue, at boot and on every tick.
ClaimDue(p) ==
    /\ proc[p] = "up" /\ batch[p] = {}
    /\ \E S \in Batches :
          /\ MoveAhead(S)
          /\ batch' = [batch EXCEPT ![p] = S]
    /\ UNCHANGED <<allowed, monitor, locked, proc, open, fate>>

\* Lose(p, S): p forgets the stores of S without an audit.
Lose(p, S) ==
    /\ open' = [s \in Stores |-> IF s \in S THEN open[s] - 1 ELSE open[s]]
    /\ fate' = [s \in Stores |-> IF s \in S /\ monitor[s] # "gone" THEN p ELSE fate[s]]

\* The statement commits and the process sees an error: it returns no stores
\* and waits for the next tick.
ClaimLost(p) ==
    /\ p \notin Reliable
    /\ proc[p] = "up" /\ batch[p] = {}
    /\ \E S \in Batches : MoveAhead(S) /\ Lose(p, S)
    /\ UNCHANGED <<allowed, monitor, locked, proc, batch>>

\* enqueueAudit: audit and job in one transaction.  The store need not be
\* monitored any longer, but it must exist, and the foreign key waits for a
\* request that is deleting it.
EnqueueAudit(p, s) ==
    /\ proc[p] = "up"
    /\ s \in batch[p] \cap (Existing \ locked)
    /\ batch' = [batch EXCEPT ![p] = @ \ {s}]
    /\ open'  = [open EXCEPT ![s] = @ - 1]
    /\ fate'  = [fate EXCEPT ![s] = "audited"]
    /\ UNCHANGED <<storeVars, proc>>

\* The transaction fails, always so when the store is gone or the context is
\* cancelled: the error is logged and the loop goes on.
EnqueueFails(p, s) ==
    /\ s \in batch[p]
    /\ \/ monitor[s] = "gone"
       \/ p \notin Reliable
    /\ batch' = [batch EXCEPT ![p] = @ \ {s}]
    /\ Lose(p, {s})
    /\ UNCHANGED <<storeVars, proc>>

\* SIGTERM cancels the context of claim and enqueue alike.
Cancel(p) ==
    /\ p \notin Reliable
    /\ proc[p] = "up"
    /\ proc' = [proc EXCEPT ![p] = "stopping"]
    /\ UNCHANGED <<storeVars, batch, open, fate>>

\* Run returns once runOnce has gone through its batch.
Stop(p) ==
    /\ proc[p] = "stopping" /\ batch[p] = {}
    /\ proc' = [proc EXCEPT ![p] = "stopped"]
    /\ UNCHANGED <<storeVars, batch, open, fate>>

Killed(p) ==
    /\ p \notin Reliable
    /\ proc[p] \in {"up", "stopping"}
    /\ proc'  = [proc EXCEPT ![p] = "killed"]
    /\ batch' = [batch EXCEPT ![p] = {}]
    /\ Lose(p, batch[p])
    /\ UNCHANGED storeVars

-----------------------------------------------------------------------------

Next ==
    \/ \E s \in Stores :
          \/ StoreCreate(s) \/ MonitoringOn(s) \/ MonitoringOff(s)
          \/ StoreDelete(s) \/ RequestEnds(s) \/ TimePasses(s)
    \/ PlanChanges
    \/ \E p \in Schedulers :
          \/ Start(p) \/ ClaimDue(p) \/ ClaimLost(p)
          \/ Cancel(p) \/ Stop(p) \/ Killed(p)
          \/ \E s \in Stores : EnqueueAudit(p, s) \/ EnqueueFails(p, s)

Spec == Init /\ [][Next]_vars

\* A process that stays up ticks, requests end, and an INSERT that waits for
\* the row lock of a request gets its turn.
Fairness ==
    /\ \A s \in Stores : WF_vars(RequestEnds(s))
    /\ \A p \in Schedulers, s \in Stores : SF_vars(EnqueueAudit(p, s) \/ EnqueueFails(p, s))
    /\ \A p \in Reliable : WF_vars(Start(p)) /\ WF_vars(ClaimDue(p))

FairSpec == Spec /\ Fairness

=============================================================================
