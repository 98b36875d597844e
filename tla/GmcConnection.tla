---------------------------- MODULE GmcConnection ----------------------------
(***************************************************************************)
(* Connections of stores to Google Merchant Center: the rows of            *)
(* store_gmc_connections, the consent flow and the disconnect of the       *)
(* pages, the syncs of the worker's audits and of the scheduler's          *)
(* refresher, and the access tokens each process caches for itself.        *)
(*                                                                         *)
(* A grant is one consent at Google with its refresh token; the access     *)
(* tokens minted from it are named by the grant.  Google answers for a     *)
(* "good" grant, refuses every call for a "barred" one (403) but still     *)
(* refreshes it, and refuses both for one that is "gone".  What the calls   *)
(* return, and the snapshots an audit stores of it, are left out.          *)
(***************************************************************************)
EXTENDS Naturals, FiniteSets, Sequences

CONSTANTS
    Connections,    \* a store with a merchant account it may be linked to
    Stores,
    StoreOf,        \* the store of each connection
    Paying,         \* stores whose plan has a refresh cadence
    Grants,         \* bound: consents users give
    Flows,          \* pages an owner has open
    Audits,         \* syncs the worker may run at a time
    Refresher,      \* the scheduler's loop
    Quota,          \* connections the plan allows
    Batch,          \* LIMIT of loadDue
    AuditCalls,     \* bound: calls an audit's sync makes
    MaxMissed,      \* bound: faults, see missed
    None

Tasks == Audits \cup {Refresher}

ASSUME GmcConstants ==
    /\ StoreOf \in [Connections -> Stores]
    /\ Paying \subseteq Stores
    /\ Refresher \notin Audits
    /\ None \notin Connections \cup Grants
    /\ {Quota, Batch, AuditCalls, MaxMissed} \subseteq Nat
    /\ AuditCalls > 0

VARIABLES
    row,        \* status and refresh token of each connection
    created,    \* the rows in the order they were inserted
    sync,       \* last_sync_status
    due,        \* rows whose last_sync_at is NULL or a cadence ago
    cache,      \* access tokens each process holds, ConnectionStore.tok
    google,     \* what Google thinks of each grant
    task,       \* each sync: step, connection, grant of its token, calls to
                \* make, and whether that token expired while it waited
    batch,      \* what the refresher has still to look at
    flow,       \* each page: step, grant and connection
    held,       \* history: the grants a row has had
    missed      \* history: writes that failed, tokens that expired in a call,
                \* processes that stopped

vars == <<row, created, sync, due, cache, google, task, batch, flow, held, missed>>

Processes == {"worker", "scheduler"}
ProcessOf(t) == IF t = Refresher THEN "scheduler" ELSE "worker"

\* Account, pages of products and feeds for an audit, the account for a refresh.
Requests(t) == IF t = Refresher THEN 1 ELSE AuditCalls

AtRest == [pc |-> "idle", on |-> None, grant |-> None, left |-> 0, late |-> FALSE]
NoFlow == [pc |-> "idle", on |-> None, grant |-> None]

Init ==
    /\ row    = [c \in Connections |-> [status |-> "none", grant |-> None]]
    /\ created = <<>>
    /\ sync   = [c \in Connections |-> "never"]
    /\ due    = {}
    /\ cache  = [p \in Processes |-> [c \in Connections |-> None]]
    /\ google = [g \in Grants |-> "unused"]
    /\ task   = [t \in Tasks |-> AtRest]
    /\ batch  = {}
    /\ flow   = [f \in Flows |-> NoFlow]
    /\ held   = [c \in Connections |-> {}]
    /\ missed = 0

Active == {c \in Connections : row[c].status = "active"}

\* GetByStore: of the connections of a store that are not revoked, the one
\* whose row is the youngest.
Newest(s) ==
    LET live == {i \in DOMAIN created : StoreOf[created[i]] = s /\ row[created[i]].status # "revoked"}
    IN  IF live = {} THEN None ELSE created[CHOOSE i \in live : \A j \in live : j <= i]

-----------------------------------------------------------------------------
(* ConnectionStore: the writes to a row.                                   *)

\* The caches of access tokens are left as they are.
Upsert(c, g) ==
    /\ row' = [row EXCEPT ![c] = [status |-> "active", grant |-> g]]
    /\ created' = IF row[c].status = "none" THEN Append(created, c) ELSE created
    /\ due' = IF row[c].status = "none" THEN due \cup {c} ELSE due
    /\ held' = [held EXCEPT ![c] = @ \cup {g}]

\* The UPDATE is made by id, whatever the row holds by now.
Revoked(c) == [row EXCEPT ![c] = [status |-> "revoked", grant |-> None]]

\* Only a success is recorded.
BugTouch(c, status) ==
    /\ sync' = [sync EXCEPT ![c] = IF status = "ok" THEN "ok" ELSE @]
    /\ due' = due \ {c}
    /\ missed' = missed

\* last_sync_at is set for errors too.
Touch(c, status) ==
    \/ /\ sync' = [sync EXCEPT ![c] = status]
       /\ due' = due \ {c}
       /\ missed' = missed
    \/ /\ missed < MaxMissed
       /\ missed' = missed + 1
       /\ UNCHANGED <<sync, due>>

-----------------------------------------------------------------------------
(* The pages: consent, picker, disconnect.                                 *)

FlowTo(f, step, g, c) == flow' = [flow EXCEPT ![f] = [pc |-> step, grant |-> g, on |-> c]]

otherThanFlow == <<sync, cache, task, batch, missed>>

\* GMCConnect: the plan gate is passed here, and only here.  A state names the
\* store, which is told by any of its connections.
Connect(f, c) ==
    /\ flow[f].pc = "idle"
    /\ Cardinality(Active) < Quota
    /\ FlowTo(f, "away", None, c)
    /\ UNCHANGED <<row, created, due, google, held, otherThanFlow>>

\* GMCCallback: the user has consented, the code is exchanged for the grant, and
\* ListAccounts finds one account, linked at once, or several to pick from.
Callback(f, g) ==
    /\ flow[f].pc = "away" /\ google[g] = "unused"
    /\ google' = [google EXCEPT ![g] = "good"]
    /\ \E step \in {"linking", "picker"} : FlowTo(f, step, g, flow[f].on)
    /\ UNCHANGED <<row, created, due, held, otherThanFlow>>

\* GMCPickerSubmit refreshes the grant before it saves the account picked.
Pick(f, c) ==
    /\ flow[f].pc = "picker" /\ StoreOf[c] = StoreOf[flow[f].on]
    /\ google[flow[f].grant] # "gone"
    /\ FlowTo(f, "picked", flow[f].grant, c)
    /\ UNCHANGED <<row, created, due, google, held, otherThanFlow>>

\* The pick token is not spent by its use.
Save(f) ==
    /\ flow[f].pc \in {"linking", "picked"}
    /\ Upsert(flow[f].on, flow[f].grant)
    /\ flow' = [flow EXCEPT ![f] =
                   IF @.pc = "picked" THEN [@ EXCEPT !.pc = "picker"] ELSE NoFlow]
    /\ UNCHANGED <<google, otherThanFlow>>

\* Consent denied, an error page, a state that is ten minutes old.
GiveUp(f) ==
    /\ flow[f].pc \notin {"idle", "disconnecting"}
    /\ flow' = [flow EXCEPT ![f] = NoFlow]
    /\ UNCHANGED <<row, created, due, google, held, otherThanFlow>>

\* GMCDisconnect reads the row and asks Google to revoke its grant, in vain
\* perhaps.
AskDisconnect(f, s) ==
    LET c == Newest(s) IN
    /\ flow[f].pc = "idle" /\ c # None
    /\ \/ google' = google
       \/ google' = [google EXCEPT ![row[c].grant] = "gone"]
    /\ FlowTo(f, "disconnecting", None, c)
    /\ UNCHANGED <<row, created, due, held, otherThanFlow>>

\* The server caches no access tokens.
Disconnect(f) ==
    /\ flow[f].pc = "disconnecting"
    /\ row' = Revoked(flow[f].on)
    /\ flow' = [flow EXCEPT ![f] = NoFlow]
    /\ UNCHANGED <<created, due, google, held, otherThanFlow>>

-----------------------------------------------------------------------------
(* A sync: load the connection, make the calls, record what came of it.    *)

otherThanSync == <<created, google, flow, held>>

Start(t, c) ==
    task' = [task EXCEPT ![t] = [AtRest EXCEPT !.pc = "token", !.on = c, !.left = Requests(t)]]

Step(t, step) == task' = [task EXCEPT ![t].pc = step]

\* buildGMCSync, for an audit of store s.
AuditSync(t, s) ==
    /\ t \in Audits /\ task[t].pc = "idle"
    /\ Newest(s) # None /\ row[Newest(s)].status = "active"
    /\ Start(t, Newest(s))
    /\ UNCHANGED <<row, sync, due, cache, batch, missed, otherThanSync>>

\* loadDue: Batch rows at most; rows may be equally old and come in any order.
LoadDue ==
    /\ batch = {} /\ task[Refresher].pc = "idle"
    /\ batch' \in {rows \in SUBSET (due \cap Active) :
                      \/ rows = due \cap Active /\ Cardinality(rows) \in 1..Batch
                      \/ Cardinality(due \cap Active) > Batch /\ Cardinality(rows) = Batch}
    /\ UNCHANGED <<row, sync, due, cache, task, missed, otherThanSync>>

\* refreshOne: a plan without refreshes or a sync in the meantime skips the
\* row, and it is the newest connection of the row's store that is refreshed.
RefreshOne(b) ==
    /\ b \in batch /\ task[Refresher].pc = "idle"
    /\ batch' = batch \ {b}
    /\ LET c == Newest(StoreOf[b]) IN
       IF StoreOf[b] \in Paying /\ b \in due /\ c # None
       THEN Start(Refresher, c)
       ELSE task' = task
    /\ UNCHANGED <<row, sync, due, cache, missed, otherThanSync>>

\* Tokens are cached by store.
BugCachedToken(t) ==
    /\ task[t].pc = "token"
    /\ \E c \in Connections :
          /\ StoreOf[c] = StoreOf[task[t].on] /\ cache[ProcessOf(t)][c] # None
          /\ task' = [task EXCEPT ![t].pc = "call", ![t].grant = cache[ProcessOf(t)][c]]
    /\ UNCHANGED <<row, sync, due, cache, batch, missed, otherThanSync>>

\* SupplierFor: a cached token serves whatever has become of the row.
CachedToken(t) ==
    LET g == cache[ProcessOf(t)][task[t].on] IN
    /\ task[t].pc = "token" /\ g # None
    /\ task' = [task EXCEPT ![t].pc = "call", ![t].grant = g]
    /\ UNCHANGED <<row, sync, due, cache, batch, missed, otherThanSync>>

LoadToken(t) ==
    LET r == row[task[t].on] IN
    /\ task[t].pc = "token" /\ cache[ProcessOf(t)][task[t].on] = None
    /\ task' = [task EXCEPT ![t].pc = IF r.status = "active" THEN "mint" ELSE "failed",
                            ![t].grant = r.grant]
    /\ UNCHANGED <<row, sync, due, cache, batch, missed, otherThanSync>>

\* OAuth.Refresh, whose token is cached though the row may be revoked by now.
Mint(t) ==
    /\ task[t].pc = "mint" /\ google[task[t].grant] # "gone"
    /\ cache' = [cache EXCEPT ![ProcessOf(t)][task[t].on] = task[t].grant]
    /\ Step(t, "call")
    /\ UNCHANGED <<row, sync, due, batch, missed, otherThanSync>>

\* Answers 200: the next call asks for a token again.
Answered(t) ==
    /\ task[t].pc = "call" /\ google[task[t].grant] = "good" /\ ~ task[t].late
    /\ task' = [task EXCEPT ![t].left = @ - 1,
                            ![t].pc = IF task[t].left = 1 THEN "done" ELSE "token"]
    /\ UNCHANGED <<row, sync, due, cache, batch, missed, otherThanSync>>

\* A Retry-After of up to an hour, four times: the token expires meanwhile, and
\* the request goes on with it.
Oversleep(t) ==
    /\ task[t].pc = "call" /\ ~ task[t].late
    /\ missed < MaxMissed /\ missed' = missed + 1
    /\ task' = [task EXCEPT ![t].late = TRUE]
    /\ UNCHANGED <<row, sync, due, cache, batch, otherThanSync>>

\* Every error of Google's is taken for a refusal.
BugUnauthorized(t) ==
    /\ task[t].pc = "call"
    /\ Step(t, "refused")
    /\ UNCHANGED <<row, sync, due, cache, batch, missed, otherThanSync>>

\* 401 or 403, ErrUnauthorized.
Unauthorized(t) ==
    /\ task[t].pc = "call"
    /\ google[task[t].grant] # "good" \/ task[t].late
    /\ Step(t, "refused")
    /\ UNCHANGED <<row, sync, due, cache, batch, missed, otherThanSync>>

\* Any other error: the last retry, a decoding error, invalid_grant.
Failed(t) ==
    /\ task[t].pc \in {"mint", "call"}
    /\ Step(t, "failed")
    /\ UNCHANGED <<row, sync, due, cache, batch, missed, otherThanSync>>

\* handleSyncError and refreshOne: the row is revoked and the token of this
\* process forgotten, whichever token it was that Google refused.
MarkRevoked(t) ==
    /\ task[t].pc = "refused"
    /\ \/ row' = Revoked(task[t].on) /\ missed' = missed
       \/ row' = row /\ missed < MaxMissed /\ missed' = missed + 1
    /\ cache' = [cache EXCEPT ![ProcessOf(t)][task[t].on] = None]
    /\ Step(t, "notify")
    /\ UNCHANGED <<sync, due, batch, otherThanSync>>

\* NotifyOwnerOfRevoke, whether the row was marked or not.
Notify(t) ==
    /\ task[t].pc = "notify"
    /\ task' = [task EXCEPT ![t] = AtRest]
    /\ UNCHANGED <<row, sync, due, cache, batch, missed, otherThanSync>>

\* Touch, and after a success UpdateAccountSummary; no row is asked for its
\* status.
Record(t) ==
    /\ task[t].pc \in {"done", "failed"}
    /\ Touch(task[t].on, IF task[t].pc = "done" THEN "ok" ELSE "error")
    /\ task' = [task EXCEPT ![t] = AtRest]
    /\ UNCHANGED <<row, cache, batch, otherThanSync>>

-----------------------------------------------------------------------------
(* The world: Google's users, time, and processes that stop.               *)

\* Removes the application, or its access to the merchant account.
Withdraw(g) ==
    /\ google[g] = "good"
    /\ \E verdict \in {"barred", "gone"} : google' = [google EXCEPT ![g] = verdict]
    /\ UNCHANGED <<row, created, sync, due, cache, task, batch, flow, held, missed>>

\* An entry lasts for as long as it is used.
BugExpire(p, c) ==
    /\ cache[p][c] # None
    /\ \A t \in Tasks : ProcessOf(t) = p => task[t].on # c
    /\ cache' = [cache EXCEPT ![p][c] = None]
    /\ UNCHANGED <<row, created, sync, due, google, task, batch, flow, held, missed>>

\* Five minutes at most, on each entry.
Expire(p, c) ==
    /\ cache[p][c] # None
    /\ cache' = [cache EXCEPT ![p][c] = None]
    /\ UNCHANGED <<row, created, sync, due, google, task, batch, flow, held, missed>>

FallDue(c) ==
    /\ row[c].status # "none" /\ c \notin due
    /\ due' = due \cup {c}
    /\ UNCHANGED <<row, created, sync, cache, google, task, batch, flow, held, missed>>

\* Killed, or stopped in the middle of its syncs.
Restart(p) ==
    /\ missed < MaxMissed /\ missed' = missed + 1
    /\ task' = [t \in Tasks |-> IF ProcessOf(t) = p THEN AtRest ELSE task[t]]
    /\ cache' = [cache EXCEPT ![p] = [c \in Connections |-> None]]
    /\ batch' = IF p = "scheduler" THEN {} ELSE batch
    /\ UNCHANGED <<row, created, sync, due, google, flow, held>>

-----------------------------------------------------------------------------
Page ==
    \E f \in Flows :
        \/ \E c \in Connections : Connect(f, c) \/ Pick(f, c)
        \/ \E g \in Grants : Callback(f, g)
        \/ Save(f) \/ GiveUp(f) \/ Disconnect(f)
        \/ \E s \in Stores : AskDisconnect(f, s)

Refresh == LoadDue \/ \E b \in batch : RefreshOne(b)

Outcome(t) == MarkRevoked(t) \/ Notify(t) \/ Record(t)

Call(t) ==
    \/ CachedToken(t) \/ LoadToken(t) \/ Mint(t)
    \/ Answered(t) \/ Unauthorized(t) \/ Failed(t)

Sync ==
    \/ Refresh
    \/ \E t \in Tasks : Call(t) \/ Oversleep(t) \/ Outcome(t)
    \/ \E t \in Audits, s \in Stores : AuditSync(t, s)

World ==
    \/ \E g \in Grants : Withdraw(g)
    \/ \E p \in Processes, c \in Connections : Expire(p, c)
    \/ \E c \in Connections : FallDue(c)
    \/ \E p \in Processes : Restart(p)

Next == Page \/ Sync \/ World

\* The refresher is one loop that ticks, requests have timeouts, time passes for
\* every entry of a cache.
Fairness ==
    /\ WF_vars(Refresh \/ Call(Refresher) \/ Outcome(Refresher))
    /\ \A t \in Audits : WF_vars(Call(t) \/ Outcome(t))
    /\ \A p \in Processes, c \in Connections : WF_vars(Expire(p, c))
    /\ WF_vars(\E c \in Connections : FallDue(c))

Spec == Init /\ [][Next]_vars /\ Fairness

=============================================================================
