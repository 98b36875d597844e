---------------------------- MODULE AlertDispatch ----------------------------
(***************************************************************************)
(* monitoring.Dispatcher: the goroutines that AfterCommit starts after the *)
(* audits of one store, each going over the store's subscriptions and      *)
(* sending at most one email for a subscription and a trigger.             *)
(*                                                                         *)
(* An audit that fails and is retried starts one goroutine per attempt, so *)
(* several may concern one audit; two workers may run two audits of the    *)
(* store at once.  A user has one subscription per store.                  *)
(***************************************************************************)
EXTENDS Integers, Sequences, SequencesExt

CONSTANTS
    Dispatches,     \* the calls of Dispatch
    Steady,         \* those whose process, database and mail server hold up
    AuditOf,        \* the audit each is about
    FailedIn,       \* those started after a failed attempt
    NewCritical,    \* the audits whose diff has new critical issues
    Delta,          \* score_delta of each audit; 0 also when there is no previous
    Users,          \* the subscribers of the store
    Threshold,      \* score_drop_threshold of each
    Settings         \* the settings of the on_* columns users choose among

Triggers   == {"new_critical", "score_drop", "audit_failed"}
AlwaysSend == {"new_critical", "audit_failed"}
Audits     == {AuditOf[d] : d \in Dispatches}

ASSUME AlertConstants ==
    /\ Steady \subseteq Dispatches
    /\ FailedIn \subseteq Dispatches
    /\ Delta \in [Audits -> Int]
    /\ Threshold \in [Users -> Nat \ {0}]
    /\ Settings \subseteq SUBSET Triggers

VARIABLES
    flags,      \* the on_* columns of each subscription
    at,         \* at[d]: where the goroutine stands
    todo,       \* todo[d]: the (user, trigger) pairs it still has to look at
    log,        \* the rows <<audit, user, trigger>> of alert_dispatches
    old,        \* the rows sent more than 24 hours ago
    mails,      \* mails[<<audit, user, trigger>>]: emails accepted by SMTP
    serial      \* history: never were two goroutines at work at once, and no
                \* rate-limit query has failed

alerting == <<flags, at, todo, log, old, mails, serial>>

Row    == Audits \X Users \X Triggers
Active(d) == at[d] \notin {"new", "done", "crashed"}

RowAt(d) == <<AuditOf[d], Head(todo[d])[1], Head(todo[d])[2]>>

AlertInit ==
    /\ flags \in [Users -> Settings]
    /\ at    = [d \in Dispatches |-> "new"]
    /\ todo  = [d \in Dispatches |-> <<>>]
    /\ log   = {} /\ old = {}
    /\ mails = [x \in Row |-> 0]
    /\ serial = TRUE

Goto(d, step) == at' = [at EXCEPT ![d] = step]

\* The loop body is left for the next pair.
Advance(d) ==
    /\ Goto(d, "looping")
    /\ todo' = [todo EXCEPT ![d] = Tail(@)]

-----------------------------------------------------------------------------
(* Dispatch.                                                               *)

StartDispatch(d) ==
    /\ at[d] = "new"
    /\ Goto(d, "started")
    /\ serial' = (serial /\ \A e \in Dispatches : ~ Active(e))
    /\ UNCHANGED <<flags, todo, log, old, mails>>

\* A failed attempt is reported as such and nothing else; a score drop counts
\* from one point on.
Fired(d) ==
    IF d \in FailedIn
    THEN <<"audit_failed">>
    ELSE SelectSeq(<<"new_critical", "score_drop">>,
            LAMBDA t : IF t = "new_critical" THEN AuditOf[d] \in NewCritical
                                             ELSE Delta[AuditOf[d]] <= -1)

\* Subscriptions are read once, in no particular order; a flag cleared later
\* is not noticed.
Load(d) ==
    /\ at[d] = "started"
    /\ \E order \in SetToSeqs(Users) :
          LET wanted(u) == SelectSeq(Fired(d), LAMBDA t : t \in flags[u])
              pairs(u)  == [n \in DOMAIN wanted(u) |-> <<u, wanted(u)[n]>>]
          IN  todo' = [todo EXCEPT ![d] = FlattenSeq([n \in DOMAIN order |-> pairs(order[n])])]
    /\ Goto(d, "looping")
    /\ UNCHANGED <<flags, log, old, mails, serial>>

LoadFails(d) ==
    /\ d \notin Steady
    /\ at[d] = "started"
    /\ Goto(d, "done")
    /\ UNCHANGED <<flags, todo, log, old, mails, serial>>

\* Only alerts of the same audit count.
BugRecentlyAlerted(d) == RowAt(d) \in log \ old

\* recentlyAlerted: rows of the last 24 hours, always-send triggers left out.
RecentlyAlerted(d) ==
    \E x \in log \ old : x[2] = RowAt(d)[2] /\ x[3] \notin AlwaysSend

\* Every trigger is held to the limit.
BugLimited(d) ==
    \E x \in log \ old : x[2] = RowAt(d)[2]

Limited(d) == RowAt(d)[3] \notin AlwaysSend /\ RecentlyAlerted(d)

SmallDrop(d) ==
    RowAt(d)[3] = "score_drop" /\ Delta[AuditOf[d]] > - Threshold[RowAt(d)[2]]

Skip(d) ==
    /\ at[d] = "looping" /\ todo[d] # <<>>
    /\ Limited(d) \/ SmallDrop(d)
    /\ Advance(d)
    /\ UNCHANGED <<flags, log, old, mails, serial>>

\* A rate-limit query that fails counts as not limited.
Admit(d) ==
    /\ at[d] = "looping" /\ todo[d] # <<>>
    /\ \/ ~ Limited(d) /\ serial' = serial
       \/ d \notin Steady /\ Limited(d) /\ serial' = FALSE
    /\ ~ SmallDrop(d)
    /\ Goto(d, "sending")
    /\ UNCHANGED <<flags, todo, log, old, mails>>

Finish(d) ==
    /\ at[d] = "looping" /\ todo[d] = <<>>
    /\ Goto(d, "done")
    /\ UNCHANGED <<flags, todo, log, old, mails, serial>>

\* send commits the row; ON CONFLICT DO NOTHING is no error, and how many
\* rows it inserted is not looked at.
LogRow(d) ==
    /\ at[d] = "sending"
    /\ log' = log \cup {RowAt(d)}
    /\ Goto(d, "mailing")
    /\ UNCHANGED <<flags, todo, old, mails, serial>>

LogFails(d) ==
    /\ d \notin Steady
    /\ at[d] = "sending"
    /\ Advance(d)
    /\ UNCHANGED <<flags, log, old, mails, serial>>

Mail(d) ==
    /\ at[d] = "mailing"
    /\ mails' = [mails EXCEPT ![RowAt(d)] = @ + 1]
    /\ Advance(d)
    /\ UNCHANGED <<flags, log, old, serial>>

MailFails(d) ==
    /\ d \notin Steady
    /\ at[d] = "mailing"
    /\ Advance(d)
    /\ UNCHANGED <<flags, log, old, mails, serial>>

Crash(d) ==
    /\ d \notin Steady
    /\ Active(d)
    /\ Goto(d, "crashed")
    /\ UNCHANGED <<flags, todo, log, old, mails, serial>>

-----------------------------------------------------------------------------
(* Users and time.                                                         *)

\* SubscriptionUpdate sets the flags; the link in an email clears one.
SetFlags(u) ==
    /\ \E f \in Settings : flags' = [flags EXCEPT ![u] = f]
    /\ UNCHANGED <<at, todo, log, old, mails, serial>>

\* A row becomes older than 24 hours.
Age ==
    /\ \E x \in log \ old : old' = old \cup {x}
    /\ UNCHANGED <<flags, at, todo, log, mails, serial>>

Work(d) ==
    \/ Load(d) \/ LoadFails(d) \/ Skip(d) \/ Admit(d) \/ Finish(d)
    \/ LogRow(d) \/ LogFails(d) \/ Mail(d) \/ MailFails(d)

AlertNext ==
    \/ \E d \in Dispatches : StartDispatch(d) \/ Work(d) \/ Crash(d)
    \/ \E u \in Users : SetFlags(u)
    \/ Age

AlertSpec == AlertInit /\ [][AlertNext]_alerting

FairAlertSpec == AlertSpec /\ \A d \in Dispatches : WF_alerting(Work(d))

=============================================================================
