------------------------ MODULE TenantRequestsProofs ------------------------
(***************************************************************************)
(* Proofs, for any number of requests, users, invitations and stores: an   *)
(* invitation admits one user, the tenant keeps an owner, and the quotas   *)
(* are exceeded by less than the requests at work.                         *)
(***************************************************************************)
EXTENDS TenantRequestsProperties, FiniteSetTheorems, TLAPS

Steps == {"idle", "entered", "gate", "insert", "forget", "find", "auditBegin", "auditTx",
          "counting", "demote", "promote", "remove", "revoke", "read", "join", "mark",
          "commit", "aborted"}

Values == {"none", "member", "owner", "pending", "accepted", "revoked", "live"}
Written == UNION {[D -> Values] : D \in SUBSET Rows}

\* The types, and the statements each kind of request is made of.
Shape ==
    /\ row \in [Rows -> Values]
    /\ pc \in [Requests -> Steps]
    /\ call \in [Requests -> Calls \cup {NoCall}]
    /\ tx \in [Requests -> Written]
    /\ joined \in [Invitations -> SUBSET Users]
    /\ \A r \in Requests :
          /\ pc[r] # "idle" => call[r] \in Calls
          /\ pc[r] \notin {"idle", "entered", "commit", "aborted"} =>
                (call[r].kind = "accept" <=> pc[r] \in {"read", "join", "mark"})

\* No row is locked twice, and the row of a spent invitation not at all.
Locks ==
    \A r \in Requests :
        /\ \A s \in Requests \ {r} : DOMAIN tx[r] \cap DOMAIN tx[s] = {}
        /\ \A i \in Invitations \cap DOMAIN tx[r] : row[i] # "accepted"

\* Who is about to commit an acceptance has spent the invitation.
Spending ==
    \A r \in Requests :
        pc[r] = "commit" /\ call[r].kind = "accept" =>
            call[r].on \in DOMAIN tx[r] /\ tx[r][call[r].on] = "accepted"

Spent ==
    \A i \in Invitations :
        \/ joined[i] = {}
        \/ row[i] = "accepted" /\ \E u \in Users : joined[i] = {u}

IInv == Shape /\ Locks /\ Spending /\ Spent

-----------------------------------------------------------------------------

LEMMA Nothing == <<>> \in Written /\ DOMAIN <<>> = {}
<1>1. DOMAIN <<>> = {}
  OBVIOUS
<1>2. <<>> = [x \in {} |-> "none"]
  OBVIOUS
<1> QED
  BY <1>1, <1>2 DEF Written

\* The target of a statement is a row of its kind.
LEMMA TargetIsRow ==
    ASSUME Shape, NEW r \in Requests, pc[r] # "idle"
    PROVE  /\ call[r] \in Call
           /\ Target(r) \in Rows
           /\ pc[r] \in {"demote", "join"} => Target(r) \notin Invitations
BY RequestConstants DEF Shape, Target, Rows, Call

\* A transaction writes a row nobody else has locked.
LEMMA WriteKeeps ==
    ASSUME Shape, Locks, NEW r \in Requests, NEW v \in Values,
           Target(r) \in Rows,
           \A s \in Requests \ {r} : Target(r) \notin DOMAIN tx[s],
           Target(r) \in Invitations => row[Target(r)] # "accepted",
           Write(r, v), row' = row
    PROVE  /\ tx' \in [Requests -> Written]
           /\ Locks'
           /\ Target(r) \in DOMAIN tx'[r] /\ tx'[r][Target(r)] = v
           /\ \A s \in Requests \ {r} : tx'[s] = tx[s]
<1> DEFINE w == [x \in DOMAIN tx[r] \cup {Target(r)} |-> IF x = Target(r) THEN v ELSE tx[r][x]]
<1>1. tx[r] \in Written
  BY DEF Shape
<1>2. PICK D \in SUBSET Rows : tx[r] \in [D -> Values]
  BY <1>1 DEF Written
<1>3. w \in [D \cup {Target(r)} -> Values] /\ w[Target(r)] = v
  BY <1>2
<1>4. w \in Written
  BY <1>3 DEF Written
<1>5. tx'[r] = w /\ tx' \in [Requests -> Written] /\ \A s \in Requests \ {r} : tx'[s] = tx[s]
  BY <1>4 DEF Write, Shape
<1>6. DOMAIN tx'[r] = DOMAIN tx[r] \cup {Target(r)}
  BY <1>2, <1>3, <1>5
<1>7. Locks'
  BY <1>5, <1>6 DEF Locks
<1> QED
  BY <1>3, <1>5, <1>6, <1>7

LEMMA EmptyKeeps ==
    ASSUME Shape, Locks, NEW r \in Requests, tx' = [tx EXCEPT ![r] = <<>>],
           \A i \in Invitations : row'[i] = "accepted" =>
               row[i] = "accepted" \/ i \in DOMAIN tx[r]
    PROVE  tx' \in [Requests -> Written] /\ Locks'
<1>1. tx' \in [Requests -> Written]
  BY Nothing DEF Shape
<1>2. DOMAIN tx'[r] = {} /\ \A s \in Requests \ {r} : tx'[s] = tx[s]
  BY Nothing DEF Shape
<1> QED
  BY <1>1, <1>2 DEF Locks

\* Which statement may come next.
Follows(r, step) ==
    /\ step \in Steps \ {"idle", "entered"}
    /\ IF call[r].kind = "accept" THEN step \in {"read", "join", "mark", "commit", "aborted"}
                                  ELSE step \notin {"read", "join", "mark"}

\* A step that writes no row and leads to no acceptance's commit.
LEMMA GotoKeeps ==
    ASSUME IInv, NEW r \in Requests, NEW step, pc[r] # "idle",
           Goto(r, step), Follows(r, step),
           step = "commit" => call[r].kind # "accept",
           row' = row, tx' = tx, call' = call, joined' = joined
    PROVE  IInv'
<1>1. Shape'
  BY DEF IInv, Shape, Goto, Follows
<1>2. Locks' /\ Spent'
  BY DEF IInv, Locks, Spent
<1>3. Spending'
  BY DEF IInv, Spending, Goto, Shape
<1> QED
  BY <1>1, <1>2, <1>3 DEF IInv

\* A statement that writes its target.
LEMMA StatementKeeps ==
    ASSUME IInv, NEW r \in Requests, NEW step, NEW v \in Values, pc[r] # "idle",
           Goto(r, step), Follows(r, step),
           step = "commit" /\ call[r].kind = "accept" => v = "accepted" /\ Target(r) = call[r].on,
           Target(r) \in Rows,
           \A s \in Requests \ {r} : Target(r) \notin DOMAIN tx[s],
           Target(r) \in Invitations => row[Target(r)] # "accepted",
           Write(r, v), row' = row, call' = call, joined' = joined
    PROVE  IInv'
<1>1. /\ tx' \in [Requests -> Written] /\ Locks'
      /\ Target(r) \in DOMAIN tx'[r] /\ tx'[r][Target(r)] = v
      /\ \A s \in Requests \ {r} : tx'[s] = tx[s]
  BY WriteKeeps DEF IInv
<1>2. Shape'
  BY <1>1 DEF IInv, Shape, Goto, Follows
<1>3. Spent'
  BY DEF IInv, Spent
<1>4. Spending'
  BY <1>1 DEF IInv, Spending, Goto, Shape
<1> QED
  BY <1>1, <1>2, <1>3, <1>4 DEF IInv

LEMMA AbortKeeps ==
    ASSUME IInv, NEW r \in Requests, pc[r] # "idle", Abort(r),
           row' = row, call' = call, joined' = joined
    PROVE  IInv'
<1>1. tx' \in [Requests -> Written] /\ Locks'
  BY EmptyKeeps DEF IInv, Abort
<1>2. Shape'
  BY <1>1 DEF IInv, Shape, Abort, Goto, Steps
<1>3. Spent' /\ Spending'
  BY DEF IInv, Spent, Spending, Abort, Goto, Shape
<1> QED
  BY <1>1, <1>2, <1>3 DEF IInv

\* An update waits for the row's lock, or finds no row and writes none.
LEMMA UpdateKeeps ==
    ASSUME IInv, NEW r \in Requests, NEW step, NEW next, NEW v \in Values,
           step \in {"demote", "promote", "remove", "revoke", "mark", "forget"},
           Update(r, step, v, next), Follows(r, next),
           next = "commit" /\ call[r].kind = "accept" =>
               Found(r) /\ v = "accepted" /\ Target(r) = call[r].on
    PROVE  IInv'
<1>1. pc[r] = step /\ Goto(r, next) /\ row' = row /\ call' = call /\ joined' = joined
  BY DEF Update
<1>2. Target(r) \in Rows
  BY <1>1, TargetIsRow DEF IInv
<1>3. CASE Found(r)
  <2>1. \A s \in Requests \ {r} : Target(r) \notin DOMAIN tx[s]
    BY <1>1, <1>3 DEF Update, Blockers
  <2>2. row[Target(r)] # "accepted"
    BY <1>3 DEF Found
  <2> QED
    BY <1>1, <1>2, <1>3, <2>1, <2>2, StatementKeeps DEF Update
<1>4. CASE ~Found(r)
  BY <1>1, <1>4, GotoKeeps DEF Update
<1> QED
  BY <1>3, <1>4

LEMMA RefusedKeeps ==
    ASSUME IInv, NEW r \in Requests, pc[r] # "idle", Refused(r)
    PROVE  IInv'
BY AbortKeeps DEF Refused

-----------------------------------------------------------------------------
(* The actions.                                                            *)

LEMMA EnterKeeps ==
    ASSUME IInv, NEW r \in Requests, NEW c \in Calls, Enter(r, c)
    PROVE  IInv'
<1>1. Shape'
  BY DEF IInv, Shape, Enter, Goto, Steps
<1>2. Locks' /\ Spent' /\ Spending'
  BY DEF IInv, Shape, Enter, Goto, Locks, Spent, Spending
<1> QED
  BY <1>1, <1>2 DEF IInv

\* An acceptance commits while the invitation is still pending for others,
\* for it has locked it.
LEMMA CommitKeeps ==
    ASSUME IInv, NEW r \in Requests, Commit(r)
    PROVE  IInv'
<1> USE DEF Commit, Idle
<1>1. /\ row' = Seen(r) /\ row' \in [Rows -> Values]
      /\ \A x \in DOMAIN tx[r] : row'[x] = tx[r][x]
      /\ \A x \in Rows \ DOMAIN tx[r] : row'[x] = row[x]
  <2>1. PICK D \in SUBSET Rows : tx[r] \in [D -> Values]
    BY DEF IInv, Shape, Written
  <2> QED
    BY <2>1 DEF IInv, Shape, Seen
<1>2. call[r] \in Calls /\ (call[r].kind = "accept" => call[r].by \in Users /\ call[r].on \in Invitations)
  BY RequestConstants DEF IInv, Shape, Call
<1>3. tx' \in [Requests -> Written] /\ Locks'
  BY <1>1, EmptyKeeps DEF IInv, Rows
<1>4. Shape'
  BY <1>1, <1>2, <1>3 DEF IInv, Shape, Goto, Steps
<1>5. Spending'
  BY DEF IInv, Shape, Spending, Goto
<1>6. ASSUME NEW i \in Invitations
      PROVE  \/ joined'[i] = {}
             \/ row'[i] = "accepted" /\ \E u \in Users : joined'[i] = {u}
  <2>1. CASE call[r].kind = "accept" /\ call[r].on = i
    <3>1. i \in DOMAIN tx[r] /\ tx[r][i] = "accepted"
      BY <2>1 DEF IInv, Spending
    <3>2. joined[i] = {}
      BY <3>1 DEF IInv, Locks, Spent
    <3> QED
      BY <1>1, <1>2, <2>1, <3>1, <3>2 DEF IInv, Shape
  <2>2. CASE ~(call[r].kind = "accept" /\ call[r].on = i)
    <3>1. joined'[i] = joined[i]
      BY <2>2 DEF IInv, Shape
    <3>2. joined[i] # {} => row'[i] = "accepted"
      BY <1>1 DEF IInv, Locks, Spent, Rows
    <3> QED
      BY <3>1, <3>2 DEF IInv, Spent
  <2> QED
    BY <2>1, <2>2
<1> QED
  BY <1>3, <1>4, <1>5, <1>6 DEF IInv, Spent

LEMMA RollbackKeeps ==
    ASSUME IInv, NEW r \in Requests, Rollback(r)
    PROVE  IInv'
<1> USE DEF Rollback, Idle
<1>1. tx' \in [Requests -> Written] /\ Locks'
  BY EmptyKeeps DEF IInv
<1>2. Shape'
  BY <1>1 DEF IInv, Shape, Goto, Steps
<1>3. Spent' /\ Spending'
  BY DEF IInv, Shape, Spent, Spending, Goto
<1> QED
  BY <1>1, <1>2, <1>3 DEF IInv

LEMMA InsertKeeps ==
    ASSUME IInv, NEW r \in Requests, Insert(r) \/ InsertMembership(r)
    PROVE  IInv'
<1>1. /\ pc[r] \in {"insert", "join"} /\ Blockers(r) = {}
      /\ row' = row /\ call' = call /\ joined' = joined
  BY DEF Insert, InsertMembership
<1>2. Target(r) \in Rows
  BY <1>1, TargetIsRow DEF IInv
<1>3. \A s \in Requests \ {r} : Target(r) \notin DOMAIN tx[s]
  BY <1>1 DEF Blockers
<1>4. CASE Abort(r)
  BY <1>1, <1>4, AbortKeeps
<1>5. ASSUME NEW v \in {"pending", "live", "owner", "member"}, NEW step \in {"commit", "mark"},
             Write(r, v), Goto(r, step), row[Target(r)] = "none",
             IF pc[r] = "join" THEN step = "mark" ELSE step = "commit"
      PROVE  IInv'
  <2>1. v \in Values
    BY DEF Values
  <2>2. call[r].kind = "accept" <=> pc[r] = "join"
    BY <1>1 DEF IInv, Shape
  <2>3. Follows(r, step)
    BY <2>2, <1>5 DEF Follows, Steps
  <2> QED
    BY <1>1, <1>2, <1>3, <1>5, <2>1, <2>2, <2>3, StatementKeeps
<1> QED
  BY <1>1, <1>4, <1>5 DEF Insert, InsertMembership

\* Everything a request does between its beginning and its end.
LEMMA UpdatesKeep ==
    ASSUME IInv, NEW r \in Requests,
           \/ StoreDelete(r) \/ Demote(r) \/ Promote(r)
           \/ RemoveMembership(r) \/ RevokeInvitation(r) \/ MarkAccepted(r)
    PROVE  IInv'
<1> DEFINE Kind == call[r].kind = "accept"
<1>1. pc[r] \notin {"idle", "entered", "commit", "aborted"} => (Kind <=> pc[r] \in {"read", "join", "mark"})
  BY DEF IInv, Shape
<1>2. CASE StoreDelete(r)
  <2>1. pc[r] = "forget" /\ ~Kind /\ Follows(r, "commit")
    BY <1>1, <1>2 DEF StoreDelete, Update, Follows, Steps
  <2> QED
    BY <1>2, <2>1, UpdateKeeps DEF StoreDelete, Values
<1>3. CASE Demote(r)
  <2>1. pc[r] = "demote" /\ ~Kind /\ Follows(r, "promote")
    BY <1>1, <1>3 DEF Demote, Update, Follows, Steps
  <2> QED
    BY <1>3, <2>1, UpdateKeeps DEF Demote, Values
<1>4. CASE Promote(r)
  <2>1. pc[r] = "promote" /\ ~Kind /\ Follows(r, "commit")
    BY <1>1, <1>4 DEF Promote, Follows, Steps
  <2> QED
    BY <1>4, <2>1, UpdateKeeps, RefusedKeeps DEF Promote, Values
<1>5. CASE RemoveMembership(r)
  <2>1. pc[r] = "remove" /\ ~Kind /\ Follows(r, "commit")
    BY <1>1, <1>5 DEF RemoveMembership, Update, Follows, Steps
  <2> QED
    BY <1>5, <2>1, UpdateKeeps DEF RemoveMembership, Values
<1>6. CASE RevokeInvitation(r)
  <2>1. pc[r] = "revoke" /\ ~Kind /\ Follows(r, "commit")
    BY <1>1, <1>6 DEF RevokeInvitation, Update, Follows, Steps
  <2> QED
    BY <1>6, <2>1, UpdateKeeps DEF RevokeInvitation, Values
<1>7. CASE MarkAccepted(r)
  <2>1. pc[r] = "mark" /\ Kind /\ Follows(r, "commit") /\ Target(r) = call[r].on
    BY <1>1, <1>7 DEF MarkAccepted, Follows, Steps, Target
  <2> QED
    BY <1>7, <2>1, UpdateKeeps, RefusedKeeps DEF MarkAccepted, Values
<1> QED
  BY <1>2, <1>3, <1>4, <1>5, <1>6, <1>7

LEMMA QuietKeeps ==
    ASSUME IInv, NEW r \in Requests,
           \/ Begin(r) \/ EnforcePlanLimit(r) \/ GateFails(r) \/ FindStore(r) \/ AuditBegin(r)
           \/ AuditCommit(r) \/ IncrementUsage(r) \/ IncrementFails(r) \/ ReadInvitation(r)
    PROVE  IInv'
<1>1. /\ row' = row /\ tx' = tx /\ call' = call /\ joined' = joined
      /\ pc[r] \notin {"idle", "commit", "aborted"}
  BY DEF Begin, EnforcePlanLimit, GateFails, FindStore, AuditBegin,
     AuditCommit, IncrementUsage, IncrementFails, ReadInvitation
<1>2. pc[r] # "entered" => (call[r].kind = "accept" <=> pc[r] \in {"read", "join", "mark"})
  BY <1>1 DEF IInv, Shape
<1>3. CASE Begin(r)
  <2>1. call[r].kind \in Kinds
    BY <1>1, RequestConstants DEF IInv, Shape, Call
  <2>2. Follows(r, FirstStep[call[r].kind]) /\ FirstStep[call[r].kind] # "commit"
    BY <2>1 DEF Kinds, FirstStep, Follows, Steps
  <2> QED
    BY <1>1, <1>3, <2>2, GotoKeeps DEF Begin
<1>4. CASE ReadInvitation(r)
  <2>1. Follows(r, "join") /\ Follows(r, "aborted")
    BY <1>2, <1>4 DEF ReadInvitation, Follows, Steps
  <2> QED
    BY <1>1, <1>4, <2>1, GotoKeeps DEF ReadInvitation
<1>5. CASE ~Begin(r) /\ ~ReadInvitation(r)
  <2>1. pc[r] \in {"gate", "find", "auditBegin", "auditTx", "counting"}
    BY <1>5 DEF EnforcePlanLimit, GateFails, FindStore, AuditBegin,
       AuditCommit, IncrementUsage, IncrementFails
  <2>2. PICK step \in {"gate", "insert", "auditBegin", "auditTx", "counting", "commit", "aborted"} :
            Goto(r, step)
    BY <1>5 DEF EnforcePlanLimit, GateFails, FindStore, AuditBegin,
       AuditCommit, IncrementUsage, IncrementFails, PastGate
  <2>3. call[r].kind # "accept" /\ Follows(r, step)
    BY <1>2, <2>1 DEF Follows, Steps
  <2> QED
    BY <1>1, <2>1, <2>2, <2>3, GotoKeeps
<1> QED
  BY <1>3, <1>4, <1>5

-----------------------------------------------------------------------------

LEMMA InitIInv == Init => IInv
<1> SUFFICES ASSUME Init PROVE IInv
  OBVIOUS
<1>1. Shape
  BY RequestConstants, Nothing DEF Init, Shape, Values, Steps, Rows
<1>2. Locks /\ Spending /\ Spent
  BY Nothing DEF Init, Locks, Spending, Spent
<1> QED
  BY <1>1, <1>2 DEF IInv

LEMMA NextIInv == IInv /\ [Next]_vars => IInv'
<1> SUFFICES ASSUME IInv, [Next]_vars PROVE IInv'
  OBVIOUS
<1>1. ASSUME NEW r \in Requests, NEW c \in Calls, Enter(r, c) PROVE IInv'
  BY <1>1, EnterKeeps
<1>2. ASSUME NEW r \in Requests, StatementFails(r) PROVE IInv'
  BY <1>2, AbortKeeps DEF StatementFails
<1>3. ASSUME NEW r \in Requests, Work(r) PROVE IInv'
  BY <1>2, <1>3, CommitKeeps, RollbackKeeps, InsertKeeps, UpdatesKeep, QuietKeeps
     DEF Work, BreakDeadlock
<1>4. ASSUME NEW r \in Requests, GateFails(r) \/ IncrementFails(r) PROVE IInv'
  BY <1>4, QuietKeeps
<1>5. CASE MonthTurns
  BY <1>5 DEF MonthTurns, reqVars, IInv, Shape, Locks, Spending, Spent
<1>6. CASE UNCHANGED vars
  BY <1>6 DEF vars, reqVars, IInv, Shape, Locks, Spending, Spent
<1> QED
  BY <1>1, <1>2, <1>3, <1>4, <1>5, <1>6 DEF Next

LEMMA IInvAdmitsOne == IInv => InvitationAdmitsOne
<1>1. ASSUME Spent, NEW i \in Invitations
      PROVE  Cardinality(joined[i]) <= 1 /\ (joined[i] # {} => row[i] = "accepted")
  <2>1. CASE joined[i] = {}
    BY <2>1, FS_EmptySet
  <2>2. CASE \E u \in Users : joined[i] = {u}
    BY SMTT(30), <1>1, <2>2, FS_Singleton DEF Spent
  <2> QED
    BY <1>1, <2>1, <2>2 DEF Spent
<1> QED
  BY <1>1 DEF IInv, InvitationAdmitsOne

\* However many requests are at work, an invitation makes one user a member
\* at most, and is spent when it has.
THEOREM AdmitsOne == Spec => []InvitationAdmitsOne
<1>1. Spec => []IInv
  BY InitIInv, NextIInv, PTL DEF Spec
<1> QED
  BY <1>1, IInvAdmitsOne, PTL

-----------------------------------------------------------------------------
(* The course of each kind of request, and the rows it writes.             *)

StepsOf ==
    [transfer |-> {"demote", "promote"}, remove |-> {"remove"}, invite |-> {"gate", "insert"},
     revoke |-> {"revoke"}, accept |-> {"read", "join", "mark"}, store |-> {"gate", "insert"},
     forget |-> {"forget"}, audit |-> {"find", "gate", "auditBegin", "auditTx", "counting"}]

Course ==
    \A r \in Requests :
        pc[r] \notin {"idle", "entered", "commit", "aborted"} => pc[r] \in StepsOf[call[r].kind]

Roles == {"none", "member", "owner"}

RowRoles == \A u \in Users : row[u] \in Roles

\* A request writes rows of its own kind of call only; an acceptance makes a
\* member of one who is none, and stays the only one to do so until it ends.
TouchedBy(r) ==
    /\ pc[r] \in {"idle", "entered"} => DOMAIN tx[r] = {}
    /\ \A u \in Users \cap DOMAIN tx[r] :
          /\ tx[r][u] \in Roles
          /\ call[r].kind \in {"transfer", "remove", "accept"}
          /\ call[r].kind = "accept" => row[u] = "none"
          /\ call[r].kind = "remove" => u = call[r].on
    /\ \A s \in Stores \cap DOMAIN tx[r] :
          /\ s = call[r].on
          /\ call[r].kind = "store" \/ (call[r].kind = "forget" /\ tx[r][s] = "none")

Touched == \A r \in Requests : TouchedBy(r)

\* A step of request r that leaves the committed rows and its call as they are.
Inside(r) ==
    /\ pc[r] # "idle"
    /\ UNCHANGED <<row, call, serial>>
    /\ \E step \in Steps \ {"idle", "entered"} : Goto(r, step)

Moves(r) ==
    /\ Inside(r) /\ tx' = tx
    /\ pc'[r] = "commit" /\ call[r].kind = "transfer" => row[call[r].on] \notin {"member", "owner"}

Writes(r) ==
    /\ Inside(r)
    /\ \E v \in Values :
          /\ Write(r, v)
          /\ pc'[r] = "commit" /\ call[r].kind = "transfer" => v = "owner" /\ Target(r) = call[r].on
          /\ Target(r) \in Users =>
                /\ v \in Roles
                /\ call[r].kind \in {"transfer", "remove", "accept"}
                /\ call[r].kind = "accept" => row[Target(r)] = "none"
                /\ call[r].kind = "remove" => Target(r) = call[r].on
          /\ Target(r) \in Stores =>
                /\ Target(r) = call[r].on
                /\ \/ call[r].kind = "store" /\ pc[r] = "insert"
                   \/ call[r].kind = "forget" /\ v = "none"

Aborts(r) == Inside(r) /\ pc'[r] = "aborted" /\ tx' = [tx EXCEPT ![r] = <<>>]

\* The course of a request that has begun, by its step.
LEMMA StepTellsKind ==
    ASSUME Shape, Course, NEW r \in Requests,
           pc[r] \notin {"idle", "entered", "commit", "aborted"}
    PROVE  /\ call[r] \in Calls /\ call[r].kind \in Kinds
           /\ pc[r] \in {"demote", "promote"} <=> call[r].kind = "transfer"
           /\ pc[r] = "remove" <=> call[r].kind = "remove"
           /\ pc[r] = "revoke" <=> call[r].kind = "revoke"
           /\ pc[r] = "forget" <=> call[r].kind = "forget"
           /\ pc[r] \in {"read", "join", "mark"} <=> call[r].kind = "accept"
           /\ pc[r] = "insert" => call[r].kind \in {"invite", "store"}
           /\ pc[r] = "gate" => call[r].kind \in {"invite", "store", "audit"}
           /\ pc[r] \in {"find", "auditBegin", "auditTx", "counting"} => call[r].kind = "audit"
           /\ call[r].kind = "store" => pc[r] \in {"gate", "insert"}
<1>1. call[r] \in Calls /\ call[r].kind \in Kinds
  BY RequestConstants DEF Shape, Call
<1>2. pc[r] \in StepsOf[call[r].kind]
  BY DEF Course
<1> QED
  BY <1>1, <1>2 DEF StepsOf, Kinds

\* What a call is about, by its kind.
LEMMA CallTellsRows ==
    ASSUME NEW c \in Calls
    PROVE  /\ c.by \in Users /\ c.on \in Rows
           /\ c.kind \in {"transfer", "remove"} => c.on \in Users
           /\ c.kind \in {"invite", "revoke", "accept"} => c.on \in Invitations
           /\ c.kind \in {"store", "forget", "audit"} => c.on \in Stores
           /\ c.kind = "remove" => c.on # c.by
BY RequestConstants DEF Call, Kinds, Rows

LEMMA UpdateIsStep ==
    ASSUME IInv, Course, NEW r \in Requests, NEW step, NEW v \in Values, NEW next,
           Update(r, step, v, next),
           \/ step = "demote" /\ v = "member" /\ next = "promote"
           \/ step = "promote" /\ v = "owner" /\ next = "commit"
           \/ step \in {"remove", "forget"} /\ v = "none" /\ next = "commit"
           \/ step = "revoke" /\ v = "revoked" /\ next = "commit"
           \/ step = "mark" /\ v = "accepted" /\ next = "commit"
    PROVE  Moves(r) \/ Writes(r)
<1>1. pc[r] = step /\ Goto(r, next) /\ UNCHANGED <<row, call, serial>>
  BY DEF Update
<1>2. /\ call[r] \in Calls
      /\ step \in {"demote", "promote"} <=> call[r].kind = "transfer"
      /\ step = "remove" <=> call[r].kind = "remove"
      /\ step = "revoke" <=> call[r].kind = "revoke"
      /\ step = "forget" <=> call[r].kind = "forget"
      /\ step = "mark" <=> call[r].kind = "accept"
  BY <1>1, StepTellsKind DEF IInv
<1>3. Target(r) = IF step = "demote" THEN call[r].by ELSE call[r].on
  BY <1>1, <1>2 DEF Target
<1>4. Inside(r) /\ pc'[r] = next
  BY <1>1 DEF Inside, Goto, Steps, IInv, Shape
<1>5. CASE Found(r)
  <2>1. Write(r, v)
    BY <1>5 DEF Update
  <2> QED
    BY <1>2, <1>3, <1>4, <2>1, CallTellsRows, RequestConstants DEF Writes, Roles
<1>6. CASE ~ Found(r)
  <2>1. tx' = tx
    BY <1>6 DEF Update
  <2>2. call[r].kind = "transfer" /\ next = "commit" => row[call[r].on] \notin {"member", "owner"}
    BY <1>1, <1>2, <1>3, <1>6 DEF Found
  <2> QED
    BY <1>4, <2>1, <2>2 DEF Moves
<1> QED
  BY <1>5, <1>6

LEMMA AbortIsStep ==
    ASSUME Shape, NEW r \in Requests, pc[r] # "idle", Abort(r), UNCHANGED <<row, call, serial>>
    PROVE  Aborts(r)
BY DEF Shape, Abort, Aborts, Inside, Goto, Steps

\* What a request does between its beginning and its end.
Acts(r) ==
    \/ Begin(r) \/ EnforcePlanLimit(r) \/ GateFails(r) \/ Insert(r) \/ StoreDelete(r)
    \/ FindStore(r) \/ AuditBegin(r) \/ AuditCommit(r) \/ IncrementUsage(r) \/ IncrementFails(r)
    \/ Demote(r) \/ Promote(r) \/ RemoveMembership(r) \/ RevokeInvitation(r)
    \/ ReadInvitation(r) \/ InsertMembership(r) \/ MarkAccepted(r)
    \/ StatementFails(r)

LEMMA NextActs ==
    ASSUME [Next]_vars
    PROVE  \/ \E r \in Requests :
                 \/ \E c \in Calls : Enter(r, c)
                 \/ Acts(r) \/ Commit(r) \/ Rollback(r)
           \/ MonthTurns \/ UNCHANGED vars
BY DEF Next, Work, BreakDeadlock, Acts

LEMMA InsertIsStep ==
    ASSUME IInv, Course, NEW r \in Requests, Insert(r) \/ InsertMembership(r)
    PROVE  Writes(r) \/ Aborts(r)
<1>1. pc[r] \in {"insert", "join"} /\ UNCHANGED <<row, call, serial>>
  BY DEF Insert, InsertMembership
<1>2. CASE Abort(r)
  BY <1>1, <1>2, AbortIsStep DEF IInv
<1>3. CASE Insert(r) /\ ~ Abort(r)
  <2>1. /\ pc[r] = "insert" /\ Goto(r, "commit") /\ call[r].kind \in {"invite", "store"}
        /\ Write(r, IF call[r].kind = "invite" THEN "pending" ELSE "live")
    BY <1>3, StepTellsKind DEF Insert, IInv
  <2>2. Inside(r) /\ Target(r) = call[r].on
    BY <1>1, <2>1 DEF Inside, Steps, Target
  <2> QED
    BY <2>1, <2>2, StepTellsKind, CallTellsRows, RequestConstants DEF Writes, Values, IInv
<1>4. CASE InsertMembership(r) /\ ~ Abort(r)
  <2>1. /\ pc[r] = "join" /\ Goto(r, "mark") /\ call[r].kind = "accept"
        /\ Write(r, IF MakesOwner(r) THEN "owner" ELSE "member")
        /\ row[Target(r)] = "none"
    BY <1>4, StepTellsKind DEF InsertMembership, IInv
  <2>2. Inside(r) /\ Target(r) = call[r].by /\ pc'[r] = "mark"
    BY <1>1, <2>1 DEF Inside, Steps, Target, Goto, IInv, Shape
  <2> QED
    BY <2>1, <2>2, StepTellsKind, CallTellsRows, RequestConstants DEF Writes, Values, Roles, IInv
<1> QED
  BY <1>2, <1>3, <1>4

LEMMA ActsAreSteps ==
    ASSUME IInv, Course, NEW r \in Requests, Acts(r)
    PROVE  Moves(r) \/ Writes(r) \/ Aborts(r)
<1>1. CASE Insert(r) \/ InsertMembership(r)
  BY <1>1, InsertIsStep
<1>2. CASE StatementFails(r)
  BY <1>2, AbortIsStep DEF StatementFails, IInv
<1>3. ASSUME Refused(r), pc[r] # "idle" PROVE Aborts(r)
  BY <1>3, AbortIsStep DEF Refused, IInv
<1>4. CASE StoreDelete(r) \/ Demote(r) \/ RemoveMembership(r) \/ RevokeInvitation(r)
  BY <1>4, UpdateIsStep DEF StoreDelete, Demote, RemoveMembership, RevokeInvitation, Values
<1>5. CASE Promote(r)
  BY <1>3, <1>5, UpdateIsStep DEF Promote, Values
<1>6. CASE MarkAccepted(r)
  BY <1>3, <1>6, UpdateIsStep DEF MarkAccepted, Values
<1>7. CASE Begin(r)
  <2>1. pc[r] = "entered" /\ call[r].kind \in Kinds
    BY <1>7, RequestConstants DEF Begin, IInv, Shape, Call
  <2>2. FirstStep[call[r].kind] \in Steps \ {"idle", "entered", "commit"}
    BY <2>1 DEF Kinds, FirstStep, Steps
  <2> QED
    BY <1>7, <2>1, <2>2 DEF Begin, Moves, Inside, Goto, IInv, Shape
<1>8. CASE \/ EnforcePlanLimit(r) \/ GateFails(r) \/ FindStore(r) \/ AuditBegin(r)
           \/ AuditCommit(r) \/ IncrementUsage(r) \/ IncrementFails(r) \/ ReadInvitation(r)
  <2>1. /\ UNCHANGED <<row, call, serial, tx>>
        /\ pc[r] \in {"gate", "find", "auditBegin", "auditTx", "counting", "read"}
        /\ \E step \in Steps \ {"idle", "entered"} : Goto(r, step)
    BY <1>8 DEF EnforcePlanLimit, GateFails, FindStore, AuditBegin, AuditCommit,
       IncrementUsage, IncrementFails, ReadInvitation, PastGate, Steps
  <2>2. call[r].kind # "transfer"
    BY <2>1, StepTellsKind DEF IInv
  <2> QED
    BY <2>1, <2>2 DEF Moves, Inside
<1> QED
  BY <1>1, <1>2, <1>4, <1>5, <1>6, <1>7, <1>8 DEF Acts

LEMMA ActsKeepCourse ==
    ASSUME IInv, Course, NEW r \in Requests, Acts(r)
    PROVE  Course'
<1> USE DEF IInv
<1>1. PICK step \in Steps \ {"idle", "entered"} : Goto(r, step) /\ call' = call /\ pc[r] # "idle"
  BY ActsAreSteps DEF Moves, Writes, Aborts, Inside
<1>2. step \notin {"commit", "aborted"} => step \in StepsOf[call[r].kind]
  <2>1. CASE Begin(r)
    <3>1. call[r].kind \in Kinds
      BY <2>1, RequestConstants DEF Begin, Shape, Call
    <3>2. pc'[r] = FirstStep[call[r].kind]
      BY <2>1 DEF Begin, Goto, Shape
    <3> QED
      BY <1>1, <3>1, <3>2 DEF Kinds, FirstStep, StepsOf, Goto, Shape
  <2>2. ASSUME step \notin {"commit", "aborted"},
               Insert(r) \/ Demote(r) \/ ReadInvitation(r) \/ InsertMembership(r)
        PROVE  \/ step = "promote" /\ call[r].kind = "transfer"
               \/ step \in {"join", "mark"} /\ call[r].kind = "accept"
    BY <1>1, <2>2, StepTellsKind DEF Insert, Demote, Update, ReadInvitation, InsertMembership,
       Goto, Shape, Abort
  <2>3. ASSUME step \notin {"commit", "aborted"},
               \/ EnforcePlanLimit(r) \/ GateFails(r) \/ FindStore(r)
               \/ AuditBegin(r) \/ AuditCommit(r)
        PROVE  \/ step = "insert" /\ call[r].kind \in {"invite", "store"}
               \/ step \in {"gate", "auditBegin", "auditTx", "counting"} /\ call[r].kind = "audit"
    BY <1>1, <2>3, StepTellsKind DEF EnforcePlanLimit, GateFails, FindStore, AuditBegin,
       AuditCommit, PastGate, Goto, Shape
  <2>4. ASSUME \/ StoreDelete(r) \/ IncrementUsage(r) \/ IncrementFails(r) \/ Promote(r)
               \/ RemoveMembership(r) \/ RevokeInvitation(r) \/ MarkAccepted(r)
               \/ StatementFails(r)
        PROVE  step \in {"commit", "aborted"}
    BY <1>1, <2>4 DEF StoreDelete, IncrementUsage, IncrementFails, Promote,
       RemoveMembership, RevokeInvitation, MarkAccepted, StatementFails, Update, Refused,
       Abort, Goto, Shape
  <2> QED
    BY <2>1, <2>2, <2>3, <2>4 DEF Acts, StepsOf
<1> QED
  BY <1>1, <1>2 DEF Course, Goto, Shape

\* What a write adds to a transaction.
LEMMA WriteAdds ==
    ASSUME Shape, NEW r \in Requests, NEW v, Write(r, v)
    PROVE  /\ DOMAIN tx'[r] = DOMAIN tx[r] \cup {Target(r)}
           /\ tx'[r][Target(r)] = v
           /\ \A x \in DOMAIN tx[r] \ {Target(r)} : tx'[r][x] = tx[r][x]
           /\ \A s \in Requests \ {r} : tx'[s] = tx[s]
<1> DEFINE w == [x \in DOMAIN tx[r] \cup {Target(r)} |-> IF x = Target(r) THEN v ELSE tx[r][x]]
<1>1. tx'[r] = w /\ \A s \in Requests \ {r} : tx'[s] = tx[s]
  BY DEF Shape, Write
<1> QED
  BY <1>1

\* What a commit does to the rows.
LEMMA CommitWrites ==
    ASSUME Shape, NEW r \in Requests, Commit(r)
    PROVE  /\ \A x \in Rows \cap DOMAIN tx[r] : row'[x] = tx[r][x]
           /\ \A x \in Rows \ DOMAIN tx[r] : row'[x] = row[x]
BY DEF Shape, Commit, Seen

\* A request that ends, or is refused, has no rows and no call.
LEMMA EndsEmpty ==
    ASSUME Shape, NEW r \in Requests, tx' = [tx EXCEPT ![r] = <<>>]
    PROVE  DOMAIN tx'[r] = {} /\ \A s \in Requests \ {r} : tx'[s] = tx[s]
BY Nothing DEF Shape

LEMMA ActsKeepTouched ==
    ASSUME IInv, Course, RowRoles, Touched, NEW r \in Requests, Acts(r)
    PROVE  RowRoles' /\ Touched'
<1> USE DEF IInv
<1>1. /\ pc[r] # "idle" /\ pc'[r] \notin {"idle", "entered"}
      /\ \A s \in Requests \ {r} : pc'[s] = pc[s]
      /\ row' = row /\ call' = call
  BY ActsAreSteps DEF Moves, Writes, Aborts, Inside, Goto, Shape
<1>2. RowRoles'
  BY <1>1 DEF RowRoles
<1> SUFFICES ASSUME NEW s \in Requests PROVE TouchedBy(s)'
  BY <1>2 DEF Touched
<1>3. TouchedBy(s)
  BY DEF Touched
<1>4. CASE tx' = tx
  BY <1>1, <1>3, <1>4 DEF TouchedBy
<1>5. CASE tx' = [tx EXCEPT ![r] = <<>>]
  <2>1. DOMAIN tx'[r] = {} /\ \A q \in Requests \ {r} : tx'[q] = tx[q]
    BY <1>5, EndsEmpty
  <2>2. CASE s = r
    BY <1>1, <2>1, <2>2 DEF TouchedBy
  <2>3. CASE s # r
    BY <1>1, <1>3, <2>1, <2>3 DEF TouchedBy
  <2> QED
    BY <2>2, <2>3
<1>6. CASE Writes(r)
  <2>1. PICK v \in Values :
            /\ Write(r, v)
            /\ Target(r) \in Users =>
                /\ v \in Roles
                /\ call[r].kind \in {"transfer", "remove", "accept"}
                /\ call[r].kind = "accept" => row[Target(r)] = "none"
                /\ call[r].kind = "remove" => Target(r) = call[r].on
            /\ Target(r) \in Stores =>
                /\ Target(r) = call[r].on
                /\ \/ call[r].kind = "store" /\ pc[r] = "insert"
                   \/ call[r].kind = "forget" /\ v = "none"
    BY <1>6 DEF Writes
  <2>2. /\ DOMAIN tx'[r] = DOMAIN tx[r] \cup {Target(r)}
        /\ tx'[r][Target(r)] = v
        /\ \A x \in DOMAIN tx[r] \ {Target(r)} : tx'[r][x] = tx[r][x]
        /\ \A q \in Requests \ {r} : tx'[q] = tx[q]
    BY <2>1, WriteAdds
  <2>3. CASE s = r
    BY <1>1, <1>3, <2>1, <2>2, <2>3 DEF TouchedBy
  <2>4. CASE s # r
    BY <1>1, <1>3, <2>2, <2>4 DEF TouchedBy
  <2> QED
    BY <2>3, <2>4
<1> QED
  BY <1>4, <1>5, <1>6, ActsAreSteps DEF Moves, Aborts

\* A row that an acceptance has locked is written by nobody else.
LEMMA CommitKeepsTouched ==
    ASSUME IInv, RowRoles, Touched, NEW r \in Requests, Commit(r)
    PROVE  RowRoles' /\ Touched'
<1> USE DEF IInv
<1>1. /\ DOMAIN tx'[r] = {} /\ \A s \in Requests \ {r} : tx'[s] = tx[s]
      /\ \A s \in Requests \ {r} : call'[s] = call[s] /\ pc'[s] = pc[s]
  BY EndsEmpty DEF Commit, Idle, Goto, Shape
<1>2. RowRoles'
  BY CommitWrites DEF RowRoles, Touched, TouchedBy, Rows
<1>3. ASSUME NEW s \in Requests \ {r}, NEW u \in Users \cap DOMAIN tx[s]
      PROVE  row'[u] = row[u]
  <2>1. u \notin DOMAIN tx[r] /\ u \in Rows
    BY DEF Locks, Rows
  <2> QED
    BY <2>1, CommitWrites
<1>4. Touched'
  BY <1>1, <1>3 DEF Touched, TouchedBy
<1> QED
  BY <1>2, <1>4

-----------------------------------------------------------------------------
(* The owner.                                                              *)

Alone(r) == call[r].kind \in {"transfer", "remove"}

\* As long as the history is serial, one request at most changes roles of
\* members; a transfer's next owner is a member to the end, and one who removes
\* another stays the owner.
OwnerInv ==
    serial =>
        /\ \A r, s \in Requests : Alone(r) /\ Alone(s) => r = s
        /\ \A r \in Requests :
              /\ call[r].kind = "transfer" =>
                    /\ row[call[r].on] # "none"
                    /\ pc[r] = "commit" => call[r].on \in DOMAIN tx[r] /\ tx[r][call[r].on] = "owner"
              /\ call[r].kind = "remove" => row[call[r].by] = "owner"
        /\ \E u \in Users : row[u] = "owner"

LEMMA ActsKeepOwner ==
    ASSUME IInv, Course, RowRoles, OwnerInv, NEW r \in Requests, Acts(r)
    PROVE  OwnerInv'
<1> USE DEF IInv
<1>1. /\ \A s \in Requests \ {r} : pc'[s] = pc[s]
      /\ row' = row /\ call' = call /\ serial' = serial
  BY ActsAreSteps DEF Moves, Writes, Aborts, Inside, Goto, Shape
<1>2. \A s \in Requests \ {r} : tx'[s] = tx[s]
  BY ActsAreSteps, WriteAdds, EndsEmpty DEF Moves, Writes, Aborts
<1>3. ASSUME serial, call[r].kind = "transfer", pc'[r] = "commit"
      PROVE  call[r].on \in DOMAIN tx'[r] /\ tx'[r][call[r].on] = "owner"
  <2>1. call[r] \in Calls
    BY <1>3, ActsAreSteps DEF Moves, Writes, Aborts, Inside, Shape
  <2>2. row[call[r].on] \in {"member", "owner"}
    BY <1>3, <2>1, CallTellsRows DEF OwnerInv, RowRoles, Roles
  <2>3. Writes(r)
    BY <1>3, <2>2, ActsAreSteps DEF Moves, Aborts
  <2> QED
    BY <1>3, <2>3, WriteAdds DEF Writes
<1> QED
  BY <1>1, <1>2, <1>3 DEF OwnerInv, Alone

LEMMA EnterKeepsOwner ==
    ASSUME IInv, OwnerInv, NEW r \in Requests, NEW c \in Calls, Enter(r, c)
    PROVE  OwnerInv'
<1>1. /\ call' = [call EXCEPT ![r] = c] /\ row' = row /\ tx' = tx
      /\ pc'[r] = "entered" /\ \A s \in Requests \ {r} : pc'[s] = pc[s]
  BY DEF Enter, Goto, IInv, Shape
<1>2. /\ call'[r] = c /\ \A s \in Requests \ {r} : call'[s] = call[s]
      /\ c.kind = "remove" => row[c.by] = "owner"
  BY <1>1 DEF Enter, IInv, Shape, ByOwner, Kinds
<1>3. serial' => /\ serial
                 /\ c.kind \in {"transfer", "remove"} =>
                       /\ \A s \in Requests : ~ Alone(s)
                       /\ c.kind = "transfer" => row[c.on] # "none"
  BY DEF Enter, Alone
<1> QED
  BY <1>1, <1>2, <1>3 DEF OwnerInv, Alone

\* Whoever commits leaves an owner: an acceptance makes a member of one who was
\* none, a removal spares the one who asks for it, and a transfer makes one.
LEMMA CommitKeepsOwner ==
    ASSUME IInv, Touched, OwnerInv, NEW r \in Requests, Commit(r)
    PROVE  OwnerInv'
<1> USE DEF IInv
<1>1. /\ \A s \in Requests \ {r} : tx'[s] = tx[s] /\ call'[s] = call[s] /\ pc'[s] = pc[s]
      /\ call'[r].kind = "none" /\ serial' = serial
  BY EndsEmpty DEF Commit, Idle, Goto, Shape, NoCall
<1>2. pc[r] = "commit" /\ call[r] \in Calls
  BY DEF Commit, Shape
<1> SUFFICES ASSUME serial PROVE OwnerInv'
  BY <1>1 DEF OwnerInv
<1>3. CASE ~ Alone(r)
  <2>1. \A u \in Users : row[u] # "none" => row'[u] = row[u]
    <3>1. ASSUME NEW u \in Users, row[u] # "none" PROVE u \in Rows \ DOMAIN tx[r]
      BY <1>3, <3>1 DEF Touched, TouchedBy, Alone, Rows
    <3> QED
      BY <3>1, CommitWrites
  <2>2. \A s \in Requests : Alone(s) => call[s].by \in Users /\ call[s].on \in Users
    BY CallTellsRows DEF Alone, Shape, NoCall
  <2> QED
    BY <1>1, <2>1, <2>2 DEF OwnerInv, Alone
<1>4. CASE call[r].kind = "remove"
  <2>1. \A s \in Requests : call'[s].kind \notin {"transfer", "remove"}
    BY <1>1, <1>4 DEF OwnerInv, Alone
  <2>2. call[r].by \in Users /\ call[r].by \notin DOMAIN tx[r] /\ row[call[r].by] = "owner"
    BY <1>2, <1>4, CallTellsRows DEF OwnerInv, Touched, TouchedBy
  <2>3. row'[call[r].by] = "owner"
    BY <2>2, CommitWrites DEF Rows
  <2> QED
    BY <2>1, <2>2, <2>3 DEF OwnerInv, Alone
<1>5. CASE call[r].kind = "transfer"
  <2>1. \A s \in Requests : call'[s].kind \notin {"transfer", "remove"}
    BY <1>1, <1>5 DEF OwnerInv, Alone
  <2>2. call[r].on \in Users /\ call[r].on \in DOMAIN tx[r] /\ tx[r][call[r].on] = "owner"
    BY <1>2, <1>5, CallTellsRows DEF OwnerInv
  <2>3. row'[call[r].on] = "owner"
    BY <2>2, CommitWrites DEF Rows
  <2> QED
    BY <2>1, <2>2, <2>3 DEF OwnerInv, Alone
<1> QED
  BY <1>3, <1>4, <1>5 DEF Alone

OInv == Course /\ RowRoles /\ Touched /\ OwnerInv

LEMMA RollbackKeepsOInv ==
    ASSUME IInv, OInv, NEW r \in Requests, Rollback(r)
    PROVE  OInv'
<1> USE DEF IInv, OInv
<1>1. /\ DOMAIN tx'[r] = {} /\ call'[r].kind = "none" /\ pc'[r] = "idle"
      /\ \A s \in Requests \ {r} : tx'[s] = tx[s] /\ call'[s] = call[s] /\ pc'[s] = pc[s]
      /\ row' = row /\ serial' = serial
  BY EndsEmpty DEF Rollback, Idle, Goto, Shape, NoCall
<1>2. Course' /\ RowRoles'
  BY <1>1 DEF Course, RowRoles
<1>3. Touched'
  BY <1>1 DEF Touched, TouchedBy
<1>4. OwnerInv'
  BY <1>1 DEF OwnerInv, Alone
<1> QED
  BY <1>2, <1>3, <1>4

LEMMA InitOInv == Init => OInv
<1> SUFFICES ASSUME Init PROVE OInv
  OBVIOUS
<1>1. Course /\ RowRoles
  BY RequestConstants DEF Init, Course, RowRoles, Roles, Rows
<1>2. Touched
  BY Nothing DEF Init, Touched, TouchedBy
<1>3. OwnerInv
  BY RequestConstants DEF Init, OwnerInv, Alone, NoCall, Rows
<1> QED
  BY <1>1, <1>2, <1>3 DEF OInv

LEMMA OInvStep == IInv /\ OInv /\ [Next]_vars => OInv'
<1> SUFFICES ASSUME IInv, OInv, [Next]_vars PROVE OInv'
  OBVIOUS
<1> USE DEF OInv
<1>1. ASSUME NEW r \in Requests, NEW c \in Calls, Enter(r, c) PROVE OInv'
  <2>1. /\ call'[r] = c /\ pc[r] = "idle" /\ pc'[r] = "entered" /\ row' = row /\ tx' = tx
        /\ \A s \in Requests \ {r} : call'[s] = call[s] /\ pc'[s] = pc[s]
    BY <1>1 DEF Enter, Goto, IInv, Shape
  <2>2. Course' /\ RowRoles' /\ Touched'
    BY <2>1 DEF Course, RowRoles, Touched, TouchedBy
  <2> QED
    BY <1>1, <2>2, EnterKeepsOwner
<1>2. ASSUME NEW r \in Requests, Acts(r) PROVE OInv'
  BY <1>2, ActsKeepCourse, ActsKeepTouched, ActsKeepOwner
<1>3. ASSUME NEW r \in Requests, Commit(r) PROVE OInv'
  <2>1. Course'
    BY <1>3 DEF Commit, Idle, Goto, IInv, Shape, Course
  <2> QED
    BY <1>3, <2>1, CommitKeepsTouched, CommitKeepsOwner
<1>4. ASSUME NEW r \in Requests, Rollback(r) PROVE OInv'
  BY <1>4, RollbackKeepsOInv
<1>5. CASE MonthTurns \/ UNCHANGED vars
  BY <1>5 DEF MonthTurns, vars, reqVars, Course, RowRoles, Touched, TouchedBy, OwnerInv, Alone
<1> QED
  BY <1>1, <1>2, <1>3, <1>4, <1>5, NextActs

\* However requests interleave and wherever they fail, the tenant has an owner,
\* as long as transfers and removals come one at a time and name members.
THEOREM OwnerKeptAlways == Spec => []OwnerKept
<1>1. IInv /\ OInv /\ [Next]_vars => (IInv /\ OInv)'
  BY NextIInv, OInvStep
<1>2. OInv => OwnerKept
  BY DEF OInv, OwnerInv, OwnerKept
<1> QED
  BY <1>1, <1>2, InitIInv, InitOInv, PTL DEF Spec

-----------------------------------------------------------------------------
(* The quotas.                                                             *)

\* Requests past the gate: with a store yet to be committed, with an audit yet
\* to be committed, with an audit yet to be counted.
Building ==
    {r \in Requests :
        call[r].kind = "store" /\ (pc[r] = "insert" \/ call[r].on \in DOMAIN tx[r])}
Auditing == {r \in Requests : pc[r] \in {"auditBegin", "auditTx"}}
Counting == {r \in Requests : pc[r] = "counting"}

\* What is there and what is on its way stay within the overshoot, and an audit
\* that no counter shows yet is being counted or was missed.
QInv ==
    /\ audits \in Nat /\ usage \in Nat /\ missed \in Nat
    /\ IsFiniteSet(Live(Stores))
    /\ Cardinality(Live(Stores)) + Cardinality(Building)
          <= StoreLimit - 1 + Cardinality(Requests) + missed
    /\ audits + Cardinality(Auditing) <= AuditLimit - 1 + Cardinality(Requests) + missed
    /\ audits <= usage + Cardinality(Counting) + missed

\* What one element more or less does to the size of a set.
LEMMA Sizes ==
    ASSUME NEW S, IsFiniteSet(S), NEW T
    PROVE  /\ Cardinality(S) \in Nat
           /\ T \subseteq S =>
                 IsFiniteSet(T) /\ Cardinality(T) \in Nat /\ Cardinality(T) <= Cardinality(S)
           /\ \A x : T \subseteq S \cup {x} =>
                 IsFiniteSet(T) /\ Cardinality(T) \in Nat /\ Cardinality(T) <= Cardinality(S) + 1
           /\ \A x \in S : T \subseteq S \ {x} => Cardinality(T) <= Cardinality(S) - 1
<1>1. Cardinality(S) \in Nat
  BY FS_CardinalityType
<1>2. ASSUME T \subseteq S
      PROVE  IsFiniteSet(T) /\ Cardinality(T) \in Nat /\ Cardinality(T) <= Cardinality(S)
  BY <1>2, FS_Subset, FS_CardinalityType
<1>3. ASSUME NEW x, T \subseteq S \cup {x}
      PROVE  IsFiniteSet(T) /\ Cardinality(T) \in Nat /\ Cardinality(T) <= Cardinality(S) + 1
  <2>1. /\ IsFiniteSet(S \cup {x})
        /\ Cardinality(S \cup {x}) = IF x \in S THEN Cardinality(S) ELSE Cardinality(S) + 1
    BY FS_AddElement
  <2>2. IsFiniteSet(T) /\ Cardinality(T) \in Nat /\ Cardinality(T) <= Cardinality(S \cup {x})
    BY <1>3, <2>1, FS_Subset, FS_CardinalityType
  <2>3. CASE x \in S
    BY <2>1, <2>2, <2>3, <1>1
  <2>4. CASE x \notin S
    BY <2>1, <2>2, <2>4, <1>1
  <2> QED
    BY <2>3, <2>4
<1>4. ASSUME NEW x \in S, T \subseteq S \ {x} PROVE Cardinality(T) <= Cardinality(S) - 1
  <2>1. /\ IsFiniteSet(S \ {x}) /\ Cardinality(S \ {x}) = Cardinality(S) - 1
    BY FS_RemoveElement
  <2>2. Cardinality(T) <= Cardinality(S \ {x})
    BY <1>4, <2>1, FS_Subset
  <2> QED
    BY <2>1, <2>2
<1> QED
  BY <1>1, <1>2, <1>3, <1>4

LEMMA ApartWithin ==
    ASSUME NEW S, IsFiniteSet(S), NEW A, NEW B, A \subseteq S, B \subseteq S, A \cap B = {}
    PROVE  Cardinality(A) + Cardinality(B) <= Cardinality(S)
<1>1. /\ IsFiniteSet(A) /\ IsFiniteSet(B) /\ IsFiniteSet(A \cup B)
      /\ Cardinality(A \cup B) <= Cardinality(S)
  BY FS_Subset
<1>2. Cardinality(A) \in Nat /\ Cardinality(B) \in Nat
  BY <1>1, FS_CardinalityType
<1>3. Cardinality(A \cup B) = Cardinality(A) + Cardinality(B) - Cardinality(A \cap B)
  BY <1>1, FS_Union
<1> QED
  BY <1>1, <1>2, <1>3, FS_EmptySet

\* The sizes are numbers.
LEMMA PastGateSizes ==
    /\ IsFiniteSet(Requests) /\ Cardinality(Requests) \in Nat /\ Cardinality(Requests) >= 1
    /\ StoreLimit \in Nat /\ AuditLimit \in Nat
    /\ IsFiniteSet(Building) /\ Cardinality(Building) \in Nat
    /\ IsFiniteSet(Auditing) /\ Cardinality(Auditing) \in Nat
    /\ IsFiniteSet(Counting) /\ Cardinality(Counting) \in Nat
<1>1. Building \subseteq Requests /\ Auditing \subseteq Requests /\ Counting \subseteq Requests
  BY DEF Building, Auditing, Counting
<1>2. IsFiniteSet(Requests) /\ Cardinality(Requests) \in Nat
  BY RequestConstants, FS_CardinalityType
<1>3. Cardinality(Requests) # 0
  BY RequestConstants, FS_EmptySet
<1>4. /\ IsFiniteSet(Building) /\ Cardinality(Building) \in Nat
      /\ IsFiniteSet(Auditing) /\ Cardinality(Auditing) \in Nat
      /\ IsFiniteSet(Counting) /\ Cardinality(Counting) \in Nat
  BY <1>1, <1>2, Sizes
<1> QED
  BY <1>2, <1>3, <1>4, RequestConstants

\* Neither the beginning of a request nor what it does elsewhere leads past the
\* gate or into an audit.
LEMMA OtherActs ==
    ASSUME Shape, NEW r \in Requests,
           \/ Begin(r) \/ Insert(r) \/ InsertMembership(r) \/ ReadInvitation(r)
           \/ FindStore(r) \/ StatementFails(r) \/ StoreDelete(r) \/ Demote(r) \/ Promote(r)
           \/ RemoveMembership(r) \/ RevokeInvitation(r) \/ MarkAccepted(r)
    PROVE  /\ pc[r] # "counting"
           /\ pc'[r] \notin {"insert", "auditBegin", "auditTx", "counting"}
<1>1. CASE Begin(r)
  <2>1. call[r].kind \in Kinds
    BY <1>1, RequestConstants DEF Begin, Shape, Call
  <2>2. pc'[r] = FirstStep[call[r].kind] /\ pc[r] = "entered"
    BY <1>1 DEF Begin, Goto, Shape
  <2> QED
    BY <2>1, <2>2 DEF Kinds, FirstStep
<1>2. CASE \/ Insert(r) \/ InsertMembership(r) \/ ReadInvitation(r)
           \/ FindStore(r) \/ StatementFails(r)
  BY <1>2 DEF Insert, InsertMembership, ReadInvitation, FindStore, StatementFails,
     Abort, Goto, Shape
<1>3. CASE \/ StoreDelete(r) \/ Demote(r) \/ Promote(r) \/ RemoveMembership(r)
           \/ RevokeInvitation(r) \/ MarkAccepted(r)
  BY <1>3 DEF StoreDelete, Demote, Promote, RemoveMembership, RevokeInvitation, MarkAccepted,
     Update, Refused, Abort, Goto, Shape
<1> QED
  BY <1>1, <1>2, <1>3

\* Only the gate lets requests past it; only what was committed is counted.
LEMMA PastGateSteps ==
    ASSUME IInv, Course, Touched, NEW r \in Requests, Acts(r)
    PROVE  /\ row' = row
           /\ Building' \subseteq Building \cup {r} /\ Auditing' \subseteq Auditing \cup {r}
           /\ pc[r] # "gate" => Building' \subseteq Building /\ Auditing' \subseteq Auditing
           /\ ~ AuditCommit(r) /\ ~ IncrementUsage(r) /\ ~ IncrementFails(r) => Counting' = Counting
<1> USE DEF IInv
<1>1. /\ \A s \in Requests \ {r} : pc'[s] = pc[s] /\ tx'[s] = tx[s]
      /\ row' = row /\ call' = call
  BY ActsAreSteps, WriteAdds, EndsEmpty DEF Moves, Writes, Aborts, Inside, Goto, Shape
<1>2. ASSUME pc[r] # "gate"
      PROVE  /\ pc'[r] # "insert"
             /\ pc'[r] \in {"auditBegin", "auditTx"} => pc[r] \in {"auditBegin", "auditTx"}
  <2>1. CASE AuditBegin(r) \/ AuditCommit(r) \/ IncrementUsage(r) \/ IncrementFails(r)
    BY <2>1 DEF AuditBegin, AuditCommit, IncrementUsage, IncrementFails, Goto, Shape
  <2> QED
    BY <1>2, <2>1, OtherActs DEF Acts, EnforcePlanLimit, GateFails
<1>3. call[r].kind = "store" /\ call[r].on \in DOMAIN tx'[r] => r \in Building
  <2>1. SUFFICES ASSUME call[r].kind = "store", call[r].on \in DOMAIN tx'[r],
                        call[r].on \notin DOMAIN tx[r]
                 PROVE  pc[r] = "insert"
    BY DEF Building
  <2>2. Writes(r)
    BY <2>1, ActsAreSteps, EndsEmpty DEF Moves, Aborts
  <2>3. Target(r) = call[r].on
    BY <2>1, <2>2, WriteAdds DEF Writes
  <2>4. call[r] \in Calls
    BY <2>2 DEF Writes, Inside, Shape
  <2> QED
    BY <2>1, <2>2, <2>3, <2>4, CallTellsRows DEF Writes
<1>4. ASSUME ~ AuditCommit(r), ~ IncrementUsage(r), ~ IncrementFails(r)
      PROVE  pc'[r] = "counting" <=> pc[r] = "counting"
  <2>1. CASE AuditBegin(r) \/ EnforcePlanLimit(r) \/ GateFails(r)
    BY <2>1 DEF AuditBegin, EnforcePlanLimit, GateFails, PastGate, Goto, Shape
  <2> QED
    BY <1>4, <2>1, OtherActs DEF Acts
<1>5. Building' \subseteq Building \cup {r} /\ (pc[r] # "gate" => Building' \subseteq Building)
  BY <1>1, <1>2, <1>3 DEF Building
<1>6. Auditing' \subseteq Auditing \cup {r} /\ (pc[r] # "gate" => Auditing' \subseteq Auditing)
  BY <1>1, <1>2 DEF Auditing
<1> QED
  BY <1>1, <1>4, <1>5, <1>6 DEF Counting

LEMMA GateKeepsQuota ==
    ASSUME IInv, Course, Touched, QInv, NEW r \in Requests, EnforcePlanLimit(r)
    PROVE  QInv'
<1>1. /\ row' = row /\ audits' = audits /\ usage' = usage /\ missed' = missed
      /\ pc[r] = "gate" /\ Counting' = Counting /\ call' = call /\ tx' = tx
      /\ call[r].kind \in {"invite", "store", "audit"}
  BY PastGateSteps, StepTellsKind DEF Acts, EnforcePlanLimit, AuditCommit, IncrementUsage,
     IncrementFails, IInv
<1>2. Live(Stores)' = Live(Stores)
  BY <1>1 DEF Live
<1>3. /\ IsFiniteSet(Building') /\ Cardinality(Building') \in Nat
      /\ IsFiniteSet(Auditing') /\ Cardinality(Auditing') \in Nat
  <2>1. Building' \subseteq Requests /\ Auditing' \subseteq Requests
    BY DEF Building, Auditing
  <2> QED
    BY <2>1, PastGateSizes, Sizes
<1>4. Cardinality(Live(Stores)) \in Nat
  BY FS_CardinalityType DEF QInv
<1>5. Cardinality(Live(Stores)) + Cardinality(Building')
          <= StoreLimit - 1 + Cardinality(Requests) + missed
  <2>1. CASE call[r].kind = "store" /\ UnderLimit("store")
    <3>1. Cardinality(Live(Stores)) < StoreLimit
      BY <2>1 DEF UnderLimit
    <3>2. Cardinality(Building') <= Cardinality(Requests)
      <4>1. Building' \subseteq Requests
        BY DEF Building
      <4> QED
        BY <4>1, PastGateSizes, Sizes
    <3> QED
      BY <1>3, <1>4, <3>1, <3>2, PastGateSizes DEF QInv
  <2>2. CASE ~ (call[r].kind = "store" /\ UnderLimit("store"))
    <3>1. call[r].kind = "store" => pc'[r] # "insert"
      BY <1>1, <2>2 DEF EnforcePlanLimit, PastGate, Goto, IInv, Shape
    <3>2. \A s \in Requests \ {r} : pc'[s] = pc[s]
      BY DEF EnforcePlanLimit, PastGate, Goto, IInv, Shape
    <3>3. Building' \subseteq Building
      BY <1>1, <3>1, <3>2 DEF Building
    <3>4. Cardinality(Building') <= Cardinality(Building)
      BY <3>3, PastGateSizes, Sizes
    <3> QED
      BY <1>3, <1>4, <3>4, PastGateSizes DEF QInv
  <2> QED
    BY <2>1, <2>2
<1>6. audits + Cardinality(Auditing') <= AuditLimit - 1 + Cardinality(Requests) + missed
  <2>1. CASE call[r].kind = "audit" /\ UnderLimit("audit")
    <3>1. usage < AuditLimit
      BY <2>1 DEF UnderLimit
    <3>2. Cardinality(Auditing') + Cardinality(Counting) <= Cardinality(Requests)
      <4>1. /\ Auditing' \subseteq Requests /\ Counting' \subseteq Requests
            /\ Auditing' \cap Counting' = {}
        BY DEF Auditing, Counting
      <4> QED
        BY <1>1, <4>1, PastGateSizes, ApartWithin
    <3> QED
      BY <1>3, <3>1, <3>2, PastGateSizes DEF QInv
  <2>2. CASE ~ (call[r].kind = "audit" /\ UnderLimit("audit"))
    <3>1. pc'[r] \notin {"auditBegin", "auditTx"}
      BY <1>1, <2>2 DEF EnforcePlanLimit, PastGate, Goto, IInv, Shape
    <3>2. \A s \in Requests \ {r} : pc'[s] = pc[s]
      BY DEF EnforcePlanLimit, PastGate, Goto, IInv, Shape
    <3>3. Auditing' \subseteq Auditing
      BY <3>1, <3>2 DEF Auditing
    <3>4. Cardinality(Auditing') <= Cardinality(Auditing)
      BY <3>3, PastGateSizes, Sizes
    <3> QED
      BY <1>3, <3>4, PastGateSizes DEF QInv
  <2> QED
    BY <2>1, <2>2
<1> QED
  BY <1>1, <1>2, <1>5, <1>6 DEF QInv

LEMMA GateFailsKeepsQuota ==
    ASSUME IInv, Course, Touched, QInv, NEW r \in Requests, GateFails(r)
    PROVE  QInv'
<1>1. /\ row' = row /\ audits' = audits /\ usage' = usage /\ missed' = missed + 1
      /\ Counting' = Counting
      /\ Building' \subseteq Building \cup {r} /\ Auditing' \subseteq Auditing \cup {r}
  BY PastGateSteps DEF Acts, GateFails, AuditCommit, IncrementUsage, IncrementFails
<1>2. Live(Stores)' = Live(Stores)
  BY <1>1 DEF Live
<1>3. /\ Cardinality(Building') \in Nat /\ Cardinality(Building') <= Cardinality(Building) + 1
      /\ Cardinality(Auditing') \in Nat /\ Cardinality(Auditing') <= Cardinality(Auditing) + 1
  BY <1>1, PastGateSizes, Sizes
<1>4. Cardinality(Live(Stores)) \in Nat
  BY FS_CardinalityType DEF QInv
<1> QED
  BY <1>1, <1>2, <1>3, <1>4, PastGateSizes DEF QInv

LEMMA AuditKeepsQuota ==
    ASSUME IInv, Course, Touched, QInv, NEW r \in Requests, AuditCommit(r)
    PROVE  QInv'
<1>1. /\ row' = row /\ usage' = usage /\ missed' = missed
      /\ Building' \subseteq Building /\ Auditing' \subseteq Auditing
      /\ pc[r] = "auditTx" /\ \A s \in Requests \ {r} : pc'[s] = pc[s]
      /\ \/ audits' = audits /\ pc'[r] = "aborted"
         \/ audits' = audits + 1 /\ pc'[r] = "counting"
  BY PastGateSteps DEF Acts, AuditCommit, Goto, IInv, Shape
<1>2. Live(Stores)' = Live(Stores)
  BY <1>1 DEF Live
<1>3. /\ Cardinality(Building') \in Nat /\ Cardinality(Building') <= Cardinality(Building)
      /\ Cardinality(Auditing') \in Nat
  BY <1>1, PastGateSizes, Sizes
<1>4. Cardinality(Auditing') <= Cardinality(Auditing) - 1
  <2>1. r \in Auditing /\ Auditing' \subseteq Auditing \ {r}
    BY <1>1 DEF Auditing
  <2> QED
    BY <2>1, PastGateSizes, Sizes
<1>5. /\ Cardinality(Counting') \in Nat
      /\ audits' + Cardinality(Counting) <= audits + Cardinality(Counting')
  <2>1. Counting' \subseteq Counting \cup {r} /\ Counting \subseteq Counting'
    BY <1>1 DEF Counting
  <2>2. /\ IsFiniteSet(Counting') /\ Cardinality(Counting') \in Nat
        /\ Cardinality(Counting) <= Cardinality(Counting')
    BY <2>1, PastGateSizes, Sizes
  <2>3. CASE audits' = audits
    BY <2>2, <2>3, PastGateSizes DEF QInv
  <2>4. CASE audits' = audits + 1 /\ pc'[r] = "counting"
    <3>1. r \in Counting' /\ Counting \subseteq Counting' \ {r}
      BY <1>1, <2>1, <2>4 DEF Counting
    <3>2. Cardinality(Counting) <= Cardinality(Counting') - 1
      BY <2>2, <3>1, Sizes
    <3> QED
      BY <2>2, <2>4, <3>2, PastGateSizes DEF QInv
  <2> QED
    BY <1>1, <2>3, <2>4
<1>6. Cardinality(Live(Stores)) \in Nat
  BY FS_CardinalityType DEF QInv
<1> QED
  BY <1>1, <1>2, <1>3, <1>4, <1>5, <1>6, PastGateSizes DEF QInv

LEMMA CountKeepsQuota ==
    ASSUME IInv, Course, Touched, QInv, NEW r \in Requests, IncrementUsage(r) \/ IncrementFails(r)
    PROVE  QInv'
<1>1. /\ row' = row /\ audits' = audits
      /\ Building' \subseteq Building /\ Auditing' \subseteq Auditing
      /\ pc[r] = "counting" /\ pc'[r] = "commit" /\ \A s \in Requests \ {r} : pc'[s] = pc[s]
      /\ \/ usage' = usage + 1 /\ missed' = missed
         \/ usage' = usage /\ missed' = missed + 1
  BY PastGateSteps DEF Acts, IncrementUsage, IncrementFails, Goto, IInv, Shape
<1>2. Live(Stores)' = Live(Stores)
  BY <1>1 DEF Live
<1>3. /\ Cardinality(Building') \in Nat /\ Cardinality(Building') <= Cardinality(Building)
      /\ Cardinality(Auditing') \in Nat /\ Cardinality(Auditing') <= Cardinality(Auditing)
  BY <1>1, PastGateSizes, Sizes
<1>4. Cardinality(Counting') \in Nat /\ Cardinality(Counting) <= Cardinality(Counting') + 1
  <2>1. Counting' \subseteq Counting /\ Counting \subseteq Counting' \cup {r}
    BY <1>1 DEF Counting
  <2> QED
    BY <2>1, PastGateSizes, Sizes
<1>5. Cardinality(Live(Stores)) \in Nat
  BY FS_CardinalityType DEF QInv
<1> QED
  BY <1>1, <1>2, <1>3, <1>4, <1>5, PastGateSizes DEF QInv

LEMMA CommitKeepsQuota ==
    ASSUME IInv, Course, Touched, QInv, NEW r \in Requests, Commit(r) \/ Rollback(r)
    PROVE  QInv'
<1> USE DEF IInv
<1>1. /\ pc[r] \in {"commit", "aborted"} /\ pc'[r] = "idle" /\ DOMAIN tx'[r] = {}
      /\ call'[r].kind = "none"
      /\ \A s \in Requests \ {r} : pc'[s] = pc[s] /\ tx'[s] = tx[s] /\ call'[s] = call[s]
      /\ audits' = audits /\ usage' = usage /\ missed' = missed
  BY EndsEmpty DEF Commit, Rollback, Idle, Goto, Shape, NoCall
<1>2. Building' \subseteq Building \ {r} /\ Auditing' = Auditing /\ Counting' = Counting
  BY <1>1 DEF Building, Auditing, Counting
<1>3. Cardinality(Live(Stores)) \in Nat /\ IsFiniteSet(Live(Stores))
  BY FS_CardinalityType DEF QInv
<1>4. /\ IsFiniteSet(Live(Stores)') /\ Cardinality(Building') \in Nat
      /\ Cardinality(Live(Stores)') \in Nat
      /\ Cardinality(Live(Stores)') + Cardinality(Building')
            <= Cardinality(Live(Stores)) + Cardinality(Building)
  <2>1. CASE Live(Stores)' \subseteq Live(Stores)
    BY <1>2, <1>3, <2>1, PastGateSizes, Sizes
  <2>2. CASE ~ (Live(Stores)' \subseteq Live(Stores))
    <3>1. Commit(r)
      BY <2>2 DEF Rollback, Live
    <3>2. PICK s \in Stores : row'[s] # "none" /\ row[s] = "none"
      BY <2>2 DEF Live
    <3>3. s \in DOMAIN tx[r] /\ tx[r][s] # "none"
      BY <3>1, <3>2, CommitWrites DEF Rows
    <3>4. s = call[r].on /\ call[r].kind = "store"
      BY <3>3 DEF Touched, TouchedBy
    <3>5. r \in Building
      BY <3>3, <3>4 DEF Building
    <3>6. Live(Stores)' \subseteq Live(Stores) \cup {s}
      <4>1. \A t \in Stores \ {s} : t \notin DOMAIN tx[r]
        BY <3>4 DEF Touched, TouchedBy
      <4> QED
        BY <3>1, <4>1, CommitWrites DEF Rows, Live
    <3>7. /\ IsFiniteSet(Live(Stores)') /\ Cardinality(Live(Stores)') \in Nat
          /\ Cardinality(Live(Stores)') <= Cardinality(Live(Stores)) + 1
      BY <1>3, <3>6, Sizes
    <3>8. Cardinality(Building') \in Nat /\ Cardinality(Building') <= Cardinality(Building) - 1
      BY <1>2, <3>5, PastGateSizes, Sizes
    <3> QED
      BY <1>3, <3>7, <3>8, PastGateSizes
  <2> QED
    BY <2>1, <2>2
<1> QED
  BY <1>1, <1>2, <1>3, <1>4, PastGateSizes DEF QInv

LEMMA InitQInv == Init => QInv
<1> SUFFICES ASSUME Init PROVE QInv
  OBVIOUS
<1>1. Live(Stores) = {}
  BY RequestConstants DEF Init, Live, Rows
<1>2. Building = {} /\ Auditing = {} /\ Counting = {}
  BY DEF Init, Building, Auditing, Counting, NoCall
<1> QED
  BY <1>1, <1>2, PastGateSizes, FS_EmptySet DEF Init, QInv

LEMMA QInvStep == IInv /\ OInv /\ QInv /\ [Next]_vars => QInv'
<1> SUFFICES ASSUME IInv, OInv, QInv, [Next]_vars PROVE QInv'
  OBVIOUS
<1> USE DEF OInv
<1>1. ASSUME NEW r \in Requests, NEW c \in Calls, Enter(r, c) PROVE QInv'
  <2>1. /\ pc[r] = "idle" /\ pc'[r] = "entered" /\ DOMAIN tx[r] = {} /\ row' = row /\ tx' = tx
        /\ \A s \in Requests \ {r} : call'[s] = call[s] /\ pc'[s] = pc[s]
        /\ audits' = audits /\ usage' = usage /\ missed' = missed
    BY <1>1 DEF Enter, Goto, IInv, Shape, Touched, TouchedBy
  <2>2. Building' \subseteq Building /\ Auditing' = Auditing /\ Counting' = Counting
    BY <2>1 DEF Building, Auditing, Counting
  <2>3. Cardinality(Building') \in Nat /\ Cardinality(Building') <= Cardinality(Building)
    BY <2>2, PastGateSizes, Sizes
  <2>4. Live(Stores)' = Live(Stores) /\ Cardinality(Live(Stores)) \in Nat
    BY <2>1, FS_CardinalityType DEF Live, QInv
  <2> QED
    BY <2>1, <2>2, <2>3, <2>4, PastGateSizes DEF QInv
<1>2. ASSUME NEW r \in Requests, Acts(r),
             ~ EnforcePlanLimit(r), ~ GateFails(r), ~ AuditCommit(r),
             ~ IncrementUsage(r), ~ IncrementFails(r)
      PROVE  QInv'
  <2>1. audits' = audits /\ usage' = usage /\ missed' = missed
    BY <1>2 DEF Acts, Begin, Insert, StoreDelete, FindStore, AuditBegin, Demote, Promote,
       RemoveMembership, RevokeInvitation, ReadInvitation, InsertMembership, MarkAccepted,
       StatementFails, Update, Refused
  <2>2. Building' \subseteq Building /\ Auditing' \subseteq Auditing /\ Counting' = Counting /\ row' = row
    <3>1. CASE pc[r] # "gate"
      BY <1>2, <3>1, PastGateSteps
    <3>2. CASE pc[r] = "gate"
      <4>1. StatementFails(r)
        BY <1>2, <3>2 DEF Acts, Begin, Insert, StoreDelete, FindStore, AuditBegin, Demote, Promote,
           RemoveMembership, RevokeInvitation, ReadInvitation, InsertMembership, MarkAccepted, Update
      <4>2. /\ pc'[r] = "aborted" /\ DOMAIN tx'[r] = {} /\ call' = call
            /\ \A s \in Requests \ {r} : pc'[s] = pc[s] /\ tx'[s] = tx[s]
        BY <4>1, EndsEmpty DEF StatementFails, Abort, Goto, IInv, Shape
      <4> QED
        BY <1>2, <4>2, PastGateSteps DEF Building, Auditing
    <3> QED
      BY <3>1, <3>2
  <2>3. /\ Cardinality(Building') \in Nat /\ Cardinality(Building') <= Cardinality(Building)
        /\ Cardinality(Auditing') \in Nat /\ Cardinality(Auditing') <= Cardinality(Auditing)
    BY <2>2, PastGateSizes, Sizes
  <2>4. Live(Stores)' = Live(Stores) /\ Cardinality(Live(Stores)) \in Nat
    BY <2>2, FS_CardinalityType DEF Live, QInv
  <2> QED
    BY <2>1, <2>2, <2>3, <2>4, PastGateSizes DEF QInv
<1>3. ASSUME NEW r \in Requests, Acts(r) PROVE QInv'
  BY <1>2, <1>3, GateKeepsQuota, GateFailsKeepsQuota, AuditKeepsQuota, CountKeepsQuota
<1>4. ASSUME NEW r \in Requests, Commit(r) \/ Rollback(r) PROVE QInv'
  BY <1>4, CommitKeepsQuota
<1>5. CASE MonthTurns
  <2>1. /\ row' = row /\ pc' = pc /\ call' = call /\ tx' = tx /\ missed' = missed
        /\ audits' = 0 /\ usage' = 0
    BY <1>5 DEF MonthTurns, reqVars
  <2>2. /\ Building' = Building /\ Auditing' = Auditing /\ Counting' = Counting
        /\ Live(Stores)' = Live(Stores)
    BY <2>1 DEF Building, Auditing, Counting, Live
  <2> QED
    BY <2>1, <2>2, PastGateSizes DEF QInv
<1>6. CASE UNCHANGED vars
  BY <1>6 DEF vars, reqVars, QInv, Building, Auditing, Counting, Live
<1> QED
  BY <1>1, <1>3, <1>4, <1>5, <1>6, NextActs

\* However many requests pass the gate before the first of them is counted, and
\* whatever fails, the quota is exceeded by less than their number and the
\* failures.
THEOREM QuotaOvershootAlways == Spec => []QuotaOvershoot
<1>1. IInv /\ OInv /\ QInv /\ [Next]_vars => (IInv /\ OInv /\ QInv)'
  BY NextIInv, OInvStep, QInvStep
<1>2. QInv => QuotaOvershoot
  <2>1. QInv => Cardinality(Live(Stores)) \in Nat
    BY FS_CardinalityType DEF QInv
  <2> QED
    BY <2>1, PastGateSizes DEF QInv, QuotaOvershoot
<1> QED
  BY <1>1, <1>2, InitIInv, InitOInv, InitQInv, PTL DEF Spec

=============================================================================
