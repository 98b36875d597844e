--------------------- MODULE MonitorSchedulerProperties ---------------------
(***************************************************************************)
(* What scheduled audits promise.                                          *)
(***************************************************************************)
EXTENDS MonitorScheduler

\* Each time a store comes due is spent once: it is either still on the
\* timetable or in the hands of one process, and no store is audited twice
\* for one date however many schedulers run (scheduler.go:112-118).
EachDateOnce ==
    \A s \in Existing :
        open[s] = Cardinality(Holders(s)) + (IF next[s] = "ahead" THEN 0 ELSE 1)

\* With one process that stays up a monitored store that comes due gets its
\* audit, however many others are due and whatever happens to them, unless
\* monitoring is switched off, somebody asks for the store to be deleted or a
\* process that failed had claimed it.
DueIsAudited ==
    \A s \in Stores :
        monitor[s] = "on" /\ fate[s] = "pending" ~>
            \/ monitor[s] # "on" \/ s \in locked
            \/ fate[s] = "audited"
            \/ fate[s] \in Schedulers \ Reliable

=============================================================================
