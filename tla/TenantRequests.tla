---------------------------- MODULE TenantRequests ---------------------------
(***************************************************************************)
(* Requests to one tenant's pages: the transaction that SetRLSContext      *)
(* keeps open for the whole of a request, the second connection that       *)
(* handlers take from the pool beside it, the plan gate, and the handlers  *)
(* that change members, invitations and stores and queue audits.           *)
(*                                                                         *)
(* Transactions are READ COMMITTED.  A row is locked from the statement    *)
(* that writes it to the end of its transaction; a statement that meets a  *)
(* locked row waits, and every other reader sees the row as last           *)
(* committed.  The database role bypasses row-level security, as the       *)
(* queries that run on the pool need.                                      *)
(***************************************************************************)
EXTENDS Naturals, FiniteSets

CONSTANTS
    Users, Invitations, Stores,
    Requests,       \* requests under way at a time; each is used again
    Calls,          \* what users may ask for, see Call
    AsOwner,        \* the invitations whose role is owner
    Owner,          \* the user who made the tenant
    PoolSize,       \* connections of the pool
    StoreLimit,     \* the plan's quotas
    AuditLimit,
    MemberLimit,
    MaxMissed       \* bound: gate queries and increments that fail

Rows == Users \cup Invitations \cup Stores

Kinds == {"transfer", "remove", "invite", "revoke", "accept", "store", "forget", "audit"}
ByOwner == Kinds \ {"accept", "audit"}

\* by asks; on is the member, invitation or store concerned.
Call == [kind : Kinds, by : Users, on : Rows]

\* RemoveMembership refuses the user who asks.
ASSUME RequestConstants ==
    /\ Calls \subseteq Call
    /\ \A c \in Calls :
          /\ c.on \in Users <=> c.kind \in {"transfer", "remove"}
          /\ c.on \in Invitations <=> c.kind \in {"invite", "revoke", "accept"}
          /\ c.kind = "remove" => c.on # c.by
    /\ Users \cap Invitations = {} /\ Users \cap Stores = {} /\ Invitations \cap Stores = {}
    /\ AsOwner \subseteq Invitations
    /\ Owner \in Users
    /\ {PoolSize, StoreLimit, AuditLimit, MemberLimit, MaxMissed} \subseteq Nat
    /\ IsFiniteSet(Requests) /\ Requests # {}

VARIABLES
    row,        \* committed: role of each membership, status of each
                \* invitation, "live" stores; "none" without a row
    audits,     \* metered audits queued this month
    usage,      \* usage_counters.count of this month
    pc,         \* pc[r]: where request r stands
    call,       \* call[r]: what it asks for
    tx,         \* tx[r]: the rows its transaction has written, as a function
    joined,     \* history: joined[i]: the users invitation i made members
    serial,     \* history: never were two requests at work on memberships of
                \* owner and others at once, nor was a stranger made owner
    missed      \* history: gate queries and increments that failed

reqVars == <<pc, call, tx>>
vars    == <<row, audits, usage, reqVars, joined, serial, missed>>

NoCall == [kind |-> "none"]
Live(S) == {x \in S : row[x] # "none"}

Init ==
    /\ row  = [x \in Rows |-> IF x = Owner THEN "owner" ELSE "none"]
    /\ audits = 0 /\ usage = 0
    /\ pc   = [r \in Requests |-> "idle"]
    /\ call = [r \in Requests |-> NoCall]
    /\ tx   = [r \in Requests |-> <<>>]
    /\ joined = [i \in Invitations |-> {}]
    /\ serial = TRUE
    /\ missed = 0

-----------------------------------------------------------------------------
(* The pool and the locks.                                                 *)

\* EnqueueAudit gives its transaction back when it returns, not at COMMIT.
BugOwnTx == {"auditTx", "counting"}

OwnTx == {"auditTx"}

\* A request holds one connection, and one more for a transaction of its own.
ConnFree ==
    Cardinality({r \in Requests : pc[r] \notin {"idle", "entered"}})
        + Cardinality({r \in Requests : pc[r] \in OwnTx}) < PoolSize

\* The row the next statement of r is about.
Target(r) == IF pc[r] \in {"demote", "join"} THEN call[r].by ELSE call[r].on

\* An UPDATE or DELETE first finds its row among the committed ones.
Found(r) == row[Target(r)] \in
    (IF pc[r] \in {"revoke", "mark"} THEN {"pending"} ELSE {"member", "owner", "live"})

MakesOwner(r) ==
    \/ pc[r] = "promote" /\ Found(r)
    \/ pc[r] = "join" /\ call[r].on \in AsOwner

\* Whose end the statement waits for: the writer of its row, or of a row that
\* decides a unique index, be it (tenant_id, user_id) or one owner per tenant.
Blockers(r) ==
    {s \in Requests \ {r} :
        \/ pc[r] \in {"join", "insert"} /\ Target(r) \in DOMAIN tx[s]
        \/ pc[r] \in {"demote", "promote", "remove", "revoke", "mark", "forget", "auditTx"}
              /\ Found(r) /\ Target(r) \in DOMAIN tx[s]
        \/ MakesOwner(r) /\ \E u \in Users \cap DOMAIN tx[s] : "owner" \in {row[u], tx[s][u]}}

\* The rows as the transaction of r sees them.
Seen(r) == [x \in Rows |-> IF x \in DOMAIN tx[r] THEN tx[r][x] ELSE row[x]]

OwnerTaken(r) == \E u \in Users \ {Target(r)} : Seen(r)[u] = "owner"

Goto(r, step) == pc' = [pc EXCEPT ![r] = step]

Write(r, value) ==
    tx' = [tx EXCEPT ![r] =
              [x \in DOMAIN @ \cup {Target(r)} |-> IF x = Target(r) THEN value ELSE @[x]]]

\* An error aborts the transaction: its writes and locks are gone at once.
Abort(r) == Goto(r, "aborted") /\ tx' = [tx EXCEPT ![r] = <<>>]

\* A statement comes to its turn and is an error.
Refused(r) ==
    /\ Blockers(r) = {} /\ Abort(r)
    /\ UNCHANGED <<row, audits, usage, call, joined, serial, missed>>

\* A statement of the request's transaction: UPDATE and DELETE may find no row.
Update(r, step, value, next) ==
    /\ pc[r] = step /\ Blockers(r) = {}
    /\ IF Found(r) THEN Write(r, value) ELSE tx' = tx
    /\ Goto(r, next)
    /\ UNCHANGED <<row, audits, usage, call, joined, serial, missed>>

-----------------------------------------------------------------------------
(* The middlewares.                                                        *)

FirstStep ==
    [transfer |-> "demote", remove |-> "remove", invite |-> "gate", revoke |-> "revoke",
     accept |-> "read", store |-> "gate", forget |-> "forget", audit |-> "find"]

\* RequireMembership reads the role RequireOwner judges by before the
\* request's transaction begins.  Accepting needs no membership.
Enter(r, c) ==
    /\ pc[r] = "idle" /\ ConnFree
    /\ c.kind \in ByOwner => row[c.by] = "owner"
    /\ c.kind # "accept" => row[c.by] # "none"
    /\ Goto(r, "entered")
    /\ call' = [call EXCEPT ![r] = c]
    /\ serial' = (serial /\ (c.kind \in {"transfer", "remove"} =>
                     /\ \A s \in Requests : call[s].kind \notin {"transfer", "remove"}
                     /\ c.kind = "transfer" => row[c.on] # "none"))
    /\ UNCHANGED <<row, audits, usage, tx, joined, missed>>

\* SetRLSContext, or WithRequestContext for an invitation.
Begin(r) ==
    /\ pc[r] = "entered" /\ ConnFree
    /\ Goto(r, FirstStep[call[r].kind])
    /\ UNCHANGED <<row, audits, usage, call, tx, joined, serial, missed>>

\* The transaction and the request are over, and the connection is given back.
Idle(r) ==
    /\ Goto(r, "idle")
    /\ call' = [call EXCEPT ![r] = NoCall]
    /\ tx'   = [tx EXCEPT ![r] = <<>>]
    /\ UNCHANGED <<audits, usage, serial, missed>>

\* Answers below 500 commit; an aborted transaction rolls back all the same.
Commit(r) ==
    /\ pc[r] = "commit"
    /\ row' = Seen(r)
    /\ joined' = IF call[r].kind # "accept" THEN joined
                 ELSE [joined EXCEPT ![call[r].on] = @ \cup {call[r].by}]
    /\ Idle(r)

\* Aborted, or the connection is lost, the caller gone or the handler in panic.
Rollback(r) ==
    /\ pc[r] \in {"aborted", "commit"}
    /\ Idle(r)
    /\ UNCHANGED <<row, joined>>

-----------------------------------------------------------------------------
(* The plan gate and the handlers behind it.                               *)

BugUnderLimit(kind) ==
    CASE kind = "invite" -> Cardinality(Live(Users)) <= MemberLimit
      [] kind = "store"  -> Cardinality(Live(Stores)) <= StoreLimit
      [] kind = "audit"  -> usage <= AuditLimit

\* The gate counts committed rows, on a connection of its own.
UnderLimit(kind) ==
    CASE kind = "invite" -> Cardinality(Live(Users)) < MemberLimit
      [] kind = "store"  -> Cardinality(Live(Stores)) < StoreLimit
      [] kind = "audit"  -> usage < AuditLimit

PastGate(r) == Goto(r, IF call[r].kind = "audit" THEN "auditBegin" ELSE "insert")

EnforcePlanLimit(r) ==
    /\ pc[r] = "gate" /\ ConnFree
    /\ IF UnderLimit(call[r].kind) THEN PastGate(r) ELSE Goto(r, "commit")
    /\ UNCHANGED <<row, audits, usage, call, tx, joined, serial, missed>>

\* The error of the gate's query is dropped: 0 is under every limit.
GateFails(r) ==
    /\ pc[r] = "gate" /\ missed < MaxMissed
    /\ PastGate(r)
    /\ missed' = missed + 1
    /\ UNCHANGED <<row, audits, usage, call, tx, joined, serial>>

\* CreateInvitation and StoreCreate; a store may be connected already.
Insert(r) ==
    /\ pc[r] = "insert" /\ Blockers(r) = {}
    /\ IF row[Target(r)] # "none" THEN Abort(r)
       ELSE Write(r, IF call[r].kind = "invite" THEN "pending" ELSE "live") /\ Goto(r, "commit")
    /\ UNCHANGED <<row, audits, usage, call, joined, serial, missed>>

StoreDelete(r) == Update(r, "forget", "none", "commit")

\* EnqueueAudit looks for the store, and past the gate begins a transaction
\* of its own.
FindStore(r) ==
    /\ pc[r] = "find"
    /\ Goto(r, IF Found(r) THEN "gate" ELSE "commit")
    /\ UNCHANGED <<row, audits, usage, call, tx, joined, serial, missed>>

AuditBegin(r) ==
    /\ pc[r] = "auditBegin" /\ ConnFree
    /\ Goto(r, "auditTx")
    /\ UNCHANGED <<row, audits, usage, call, tx, joined, serial, missed>>

\* Its inserts wait for a deletion of the store, and fail once it is gone.
AuditCommit(r) ==
    /\ pc[r] = "auditTx" /\ Blockers(r) = {}
    /\ IF Found(r) THEN audits' = audits + 1 /\ Goto(r, "counting")
                   ELSE audits' = audits /\ Goto(r, "aborted")
    /\ UNCHANGED <<row, usage, call, tx, joined, serial, missed>>

IncrementUsage(r) ==
    /\ pc[r] = "counting" /\ ConnFree
    /\ usage' = usage + 1
    /\ Goto(r, "commit")
    /\ UNCHANGED <<row, audits, call, tx, joined, serial, missed>>

IncrementFails(r) ==
    /\ pc[r] = "counting" /\ missed < MaxMissed
    /\ missed' = missed + 1
    /\ Goto(r, "commit")
    /\ UNCHANGED <<row, audits, usage, call, tx, joined, serial>>

-----------------------------------------------------------------------------
(* Members and invitations.                                                *)

\* The demotion runs on the pool and commits at once.
BugDemote(r) ==
    /\ pc[r] = "demote" /\ Blockers(r) = {}
    /\ row' = IF Found(r) THEN [row EXCEPT ![call[r].by] = "member"] ELSE row
    /\ Goto(r, "promote")
    /\ UNCHANGED <<audits, usage, call, tx, joined, serial, missed>>

\* TransferOwnership demotes the owner and promotes the other.
Demote(r) == Update(r, "demote", "member", "promote")

\* Nobody is promoted when the other is no member.
Promote(r) ==
    /\ pc[r] = "promote"
    /\ IF Found(r) /\ OwnerTaken(r) THEN Refused(r) ELSE Update(r, "promote", "owner", "commit")

RemoveMembership(r) == Update(r, "remove", "none", "commit")

RevokeInvitation(r) == Update(r, "revoke", "revoked", "commit")

\* AcceptInvitation: the invitation must be pending and in time.
ReadInvitation(r) ==
    /\ pc[r] = "read"
    /\ \/ row[call[r].on] = "pending" /\ Goto(r, "join")
       \/ Goto(r, "aborted")
    /\ UNCHANGED <<row, audits, usage, call, tx, joined, serial, missed>>

InsertMembership(r) ==
    /\ pc[r] = "join" /\ Blockers(r) = {}
    /\ IF row[Target(r)] # "none" \/ (MakesOwner(r) /\ OwnerTaken(r)) THEN Abort(r)
       ELSE /\ Write(r, IF MakesOwner(r) THEN "owner" ELSE "member")
            /\ Goto(r, "mark")
    /\ UNCHANGED <<row, audits, usage, call, joined, serial, missed>>

\* Nobody looks at the rows affected.
BugMarkAccepted(r) == Update(r, "mark", "accepted", "commit")

\* The UPDATE asks for a pending invitation again; none is an error.
MarkAccepted(r) ==
    /\ pc[r] = "mark"
    /\ IF Found(r) THEN Update(r, "mark", "accepted", "commit") ELSE Refused(r)

-----------------------------------------------------------------------------
(* Faults and time.                                                        *)

\* A statement, a query or a ping fails, or the caller goes away.
StatementFails(r) ==
    /\ pc[r] \notin {"idle", "aborted", "commit", "counting"}
    /\ Abort(r)
    /\ UNCHANGED <<row, audits, usage, call, joined, serial, missed>>

\* Requests that wait for each other in a circle: PostgreSQL fails one.
Deadlocked(r) ==
    \E S \in SUBSET Requests :
        r \in S /\ \A s \in S : pc[s] # "idle" /\ Blockers(s) \cap S # {}

BreakDeadlock(r) == Deadlocked(r) /\ StatementFails(r)

MonthTurns ==
    /\ audits > 0 \/ usage > 0
    /\ audits' = 0 /\ usage' = 0
    /\ UNCHANGED <<row, reqVars, joined, serial, missed>>

-----------------------------------------------------------------------------

Work(r) ==
    \/ Begin(r) \/ Commit(r) \/ Rollback(r)
    \/ EnforcePlanLimit(r) \/ Insert(r) \/ StoreDelete(r)
    \/ FindStore(r) \/ AuditBegin(r) \/ AuditCommit(r) \/ IncrementUsage(r)
    \/ Demote(r) \/ Promote(r) \/ RemoveMembership(r) \/ RevokeInvitation(r)
    \/ ReadInvitation(r) \/ InsertMembership(r) \/ MarkAccepted(r)
    \/ BreakDeadlock(r)

Next ==
    \/ \E r \in Requests :
          \/ \E c \in Calls : Enter(r, c)
          \/ Work(r)
          \/ GateFails(r) \/ IncrementFails(r) \/ StatementFails(r)
    \/ MonthTurns

Spec == Init /\ [][Next]_vars

\* The pool hands connections, and PostgreSQL row locks, to those who wait in
\* the order they came, so that a request gets its turn between the others.
Fairness == \A r \in Requests : SF_vars(Work(r))

FairSpec == Spec /\ Fairness

=============================================================================
