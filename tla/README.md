# A verification project for gmcauditor

The repository is a multi-tenant web application that audits online stores for
Google Merchant Center problems.  A web server, worker processes and a scheduler
share one PostgreSQL database, which is nearly the only thing they share: each process
keeps caches of its own beside it.  This directory holds TLA+ models of the system's
components, TLC runs over small instances of them, and TLAPS proofs about ten of them.

## The system

| Component | Code | State it keeps | Operations | Model |
|---|---|---|---|---|
| Job queue | `internal/jobs`, `cmd/worker/main.go` | `audit_jobs` rows; goroutines, semaphore and context of a process | enqueue, claim, handle, mark, drain | `JobQueue` |
| Audit pipeline and persister | `internal/audit/{pipeline,persist_pg}.go`, `internal/audit/differ` | `audits`, `issues`, `audit_diffs` | stages, `SaveProgress`, `Save`, `differ.Persist`, `AfterCommit` | `AuditPipeline`, `AuditRecord` |
| Crawler | `internal/crawler` | permits of a store and of the process, pages so far | robots.txt, homepage, sitemaps, fan-out | `Crawler` |
| Audit checks, score, comparison | `internal/audit/checks`, `pipeline.go`, `differ.go` | none | 29 checks, score, diff | `StoreChecks`, `StoreAudit` |
| AI client and enrichment | `internal/ai`, `pipeline.go` | budget, retries, the worker's client | batches of fixes, summary | `Enrichment` |
| Platform settings | `internal/settings`, settings form of `handlers_admin.go` | `platform_settings`, a cache per process | get, set, age, invalidate | `PlatformSettings` |
| Alert dispatcher | `internal/monitoring/dispatcher.go` | `alert_dispatches`, `store_alert_subscriptions` | `Dispatch`, `send`, subscription changes | `AlertDispatch` |
| Gumroad billing | `internal/billing`, `handlers_billing.go` | `gumroad_webhook_events`, `purchases`, plan columns of `tenants` | the webhook, five event types, the admin's plan change | `GumroadBilling` |
| Scheduler and monitoring settings | `internal/scheduler/scheduler.go`, `cmd/scheduler`, `handlers_monitoring.go`, `handlers_stores.go` | timetable columns of `stores`, a batch in memory | claim due stores, queue audits, switch monitoring, add and delete stores | `MonitorScheduler` |
| GMC connections | `internal/gmc`, `handlers_gmc.go`, `cmd/worker/gmc_sync.go`, `scheduler/gmc_refresh.go` | `store_gmc_connections`, a token cache per process | consent, picker, disconnect, audit sync, refresh | `GmcConnection` |
| Sessions and account tokens | `internal/auth`, `handlers.go`, `internal/store` | `users`, `sessions`, two token tables, `impersonation_log` | sign up and in and out, verify, reset, impersonate | `Accounts` |
| Login limiter | `ratelimit.go` | windows in memory | check, record | `Accounts` |
| Plan gate, request transactions | `plan_gate.go`, `plan_limits.go`, `middleware_tenant.go` | counts, `usage_counters`, pool connections | quota checks before inserts | `TenantRequests` (connections: `GmcConnection`; monitoring: `MonitorScheduler`) |
| Tenants, members, invitations | `handlers_tenant.go`, `internal/store/{memberships,invitations}.go` | `memberships`, `invitations` | invite, accept, revoke, remove, transfer | `TenantRequests` |
| Admin area | `handlers_admin.go`, `handlers_mail.go` | none of its own | plan change, impersonation, settings; lists; mailboxes | in `GumroadBilling`, `Accounts`, `PlatformSettings`; the rest not modelled |
| Server plumbing, mailer, seed, migrations, marketing site | | none of their own | | not modelled |

How they interact.  A web handler or the scheduler inserts an audit and its job in one
transaction.  A worker claims the job in another, runs the pipeline in a goroutine
(crawl, sync with Google, checks, score, enrichment), which saves the audit in a third,
and after its commit starts a goroutine that sends alerts; when the pipeline returns, the
worker writes the job's outcome in a fourth.  Gumroad's webhooks change the tenant's plan,
which the plan gate, the monitoring form and the refresher look at.  The server writes
GMC connections; worker and scheduler use them and may revoke them.  The server writes
settings; the worker reads them through its cache.  Users delete stores and tenants at any
time, which cascades to rows that others work with.

What is hard: nothing serialises those transactions but row locks and the conditions in
their WHERE clauses; a process can stop between any two; a commit may be applied and
reported as failed; contexts are cancelled at SIGTERM for some steps and not for others;
Gumroad repeats and reorders its calls; caches outlive what they were filled from; fetches
of one crawl arrive in any order and fail silently.  `PROJECT.json` lists the hazards with
the line at which each bites and the properties aimed at it.

## Modules

Names follow the code.  Every module of a component `C` comes as `C` (the model),
`CProperties` (what it promises), `MCC` (values for TLC) and, where something is proved,
`CProofs`; the proofs about the queue and the pipeline, which extends it, are together in
`WorkerProofs`, those about the scheduler and the alerts in `MonitoringProofs`.  Mutated operators (`Bug...`) stand before the operators they vary; they are
used only to show that the properties notice a plausible mistake.

**JobQueue.**  `status`, `attempts`, `backoff` and `lockedBy` are columns; `backoff` says
which entry of `Backoffs` the row's `run_at` lies ahead by, 0 when it is due.  `proc`,
`phase` and `seen` are the memory of each process: its life, the goroutine it has for a
job, and the attempt number the claim returned.  One action per statement: `Claim` is the
`FOR UPDATE SKIP LOCKED` update, `HandlerReturns` the handler, `MarkSucceeded`,
`MarkRetry` and `MarkDead` the updates of `handle`, which look at nothing but the id
(`Write` leaves a deleted row alone).  `ClaimLost`, `MarkFails`, `Cancel` and `Killed` are
the faults.  A restarted worker is a new member of `Workers`, because `WorkerID` is new
for each process.

**AuditPipeline** extends `JobQueue` and replaces `HandlerReturns` by `Pipeline.Run`, with
`PgPersister.Save` split at its statements, so that two saves of one store, a deletion and
a shutdown can fall between any two of them.  `order` holds the `finished_at` stamps of
rows and of open transactions, and `Previous` is the set of reports an audit may be compared
with: the last to finish of those committed.  Every audit has the pipeline for its handler,
so the instances give `Registered` the value of `Jobs`; no proof about the pipeline uses
it.  Each of its actions is built on an action of the queue or leaves the queue alone, so
it refines the queue by construction; that is a lemma of the proofs and no result about
the code.  **AuditRecord** is the abstract view of the two tables, refined by the
pipeline (`RecordSpec`) when commits are acknowledged.

**Crawler, StoreChecks, StoreAudit** follow one audit in depth.  A site is a record of what
a store would answer, and a page a record of what the checks tell apart.  `fetch[c]` says
for each fetch whether it waits for a global permit (`"global"`), for one of its store
(`"store"`), or is under way (`"http"`).  `StoreChecks` has one operator per check, from a
`CheckContext` to its issues, then `Score`, `Rows` and `NewIssues` (the diff).  Issues and
rows are sets, because nothing that is modelled depends on their order; `nth` keeps several
issues of one check about one page, or one code, apart, so that they count as many.  Pages
that arrived, Google's products and feeds keep their order; a product of Google's is told by
its place, where the code uses its `ProductID`, as Google lists each once.  `SiteData` says what is assumed
of a site: the links of the homepage lead to pages, a page is known by its URL, which also
decides its kind, and Google's answers are finite.
`StoreAudit` composes them: `Sync` adds what Google says, `Report` runs the checks on what
the crawl has seen and compares with the store's report before.  The choice Go's map order
makes among equally frequent currencies is `Baselines`.

**Enrichment** extends **PlatformSettings.**  `row` is `platform_settings`, `cache[p]` the
TTL map of process `p`, filled in a step after the load, so that a `Set` can fall in
between.  `audit` is what `runEnrich` and `runSummarize` have in their hands; a fix is known
by the issue it was written for, so that a fix at the wrong issue shows.  `client` is
chosen once when the worker starts.

**AlertDispatch** has one goroutine per call of `Dispatch`; `todo` is the rest of its two
nested loops.  `log` is `alert_dispatches`; rows move to `old` after 24 hours.  `serial`
is a history variable that turns false when two goroutines overlap or a rate-limit query
fails.

**GumroadBilling** treats one delivery as one step, as it is one transaction, with one
action per way it can end: `Process`, `SkipDuplicate`, `Refuse` and `Abort`.  Deliveries
answered with an error change nothing and come again.  `acked` is Gumroad's memory.

**MonitorScheduler.**  `next` is `next_audit_at` seen from now, and `agenda` orders the
dates that have passed.  `ClaimDue` is the claim statement with its `ORDER BY` and
`LIMIT`; `batch` is what a process has claimed and not yet queued.  `open` and `fate` are
history variables.  Deletion takes two steps, because the request's transaction keeps the
row locked until the response is written; `SKIP LOCKED` passes over it and the foreign key
of an insert waits for it.

**GmcConnection.**  A grant is one consent with its refresh token; access tokens are named
by the grant they were minted from, so a token on the wrong connection shows.  `google`
says what Google thinks of each grant.  `task` follows each sync from the token through its
calls to the statements that record the outcome; `Oversleep` is a token that expires while
the client waits between retries.  `created` orders the rows, because `GetByStore` takes
the youngest that is not revoked.  `held` is a history variable: the grants a row has had.

**Accounts.**  Every handler is split where another can come between: `Follow` reads a link
and `Consume` spends it, `LoginCheck` asks the limiter, `LoginLookup` reads the account,
`LoginReject` or `LoginCreate` and `LoginDone` act on it.  The limiter is the one of one
address; `failures` holds the ticks each failure still counts.  The three steps of
`ImpersonationStart` and the two of `ImpersonationStop` may each fail.  `jar` is the
browser's two cookies.  `uses` and `unrevoked` are history variables.

**TenantRequests** follows requests statement by statement: `pc[r]` is the statement that
comes next, `tx[r]` the rows the request's transaction has written, which are the rows it
has locked.  `row` holds memberships, invitations and stores as last committed.  A
statement waits while `Blockers` is not empty; `Found` is the condition of its WHERE
clause, looked at again when the wait is over.  `ConnFree` counts the pool: a request holds
a connection from `Begin` to its answer, and the gate, the usage counter and an audit's
transaction need another.  `joined`, `serial` and `missed` are history variables.  The plan
is fixed; its quotas are constants.

Five MC modules have a variable `scene` (in `MCTenantRequests`, `asked`), chosen at the
start and kept: the behaviours of each scene are those of the model under a restriction,
which keeps a run from multiplying situations that hardly affect one another.  In
`MCGmcConnection` the scene `"apart"` has two connections with a grant each; it leaves out
actions that fairness is about, so it is there for where tokens go and says nothing about
liveness.

## Runs

| Run | Question | Bounds |
|---|---|---|
| `JobQueueSafety` | does a job ever have two holders, or run too often; who strands rows | 3 jobs of 2 tenants, one without a handler; 2 processes, one subject to all faults; 3 attempts; 2 slots |
| `AuditPipelineSafety` | do queue and report agree, and does the pipeline implement the abstract audit record | 2 audits of one store, 2 processes, 2 attempts |
| `AuditPipelineLiveness` | with lost acknowledgements: reports and comparisons stay together, a success alert is the last, everything is decided | 1 audit, 2 processes, 3 attempts |
| `AlertDispatchTwoAudits` | does the limit hold, and is a critical alert never held back | a failed attempt, its retry and the next audit; 1 user who keeps changing the settings |
| `GumroadBillingMixed` | do plan, purchases and recorded events agree | 8 events of 4 sales, faults, an admin |
| `GumroadBillingLost` | violated: an answered event is recorded | 3 events |
| `MonitorScheduler` | is each date spent once, does a due store starve | 2 stores, 2 schedulers, 1 store per tick |
| `TenantRequests` | does a tenant keep its owner, whom does an invitation admit, by how much is a quota exceeded, is every request answered | 2 requests at a time, any number in turn; 3 users, an invitation of each role; 3 stores and quotas of 1; a pool of 3; 1 failure of the gate |
| `GmcConnection` | do tokens stay with their connection, are they left alone once it is gone, what revokes one, does a broken one show | a connection renewed under two processes; two connections with a consent each in one process; two connections of one store under the refresher; one consent with a fault |
| `Accounts` | does a link work once, what does the limiter let through, is acting for a user always in the log | 2 requests at a time; 3 links, 3 sessions, 1 fault; 3 failures in a window of 6 ticks, a wait of at most 4 |
| `Enrichment` | does each fix fit its issue, does the audit go on, is what was saved used | 5 issues in batches of 2 with a budget of 2 calls; or 2 audits, a test of the connection and a form; 1 fault |
| `StoreAudit` | does the score depend on the order of arrival, what makes an issue new, is a finding reported once, do crawls end | 5 sites; a store crawled twice with a lost fetch, two crawls that compete for 3 permits, or one that is cancelled |

Why the bounds are enough.  Holding, stranding and rate limiting are about two actors and
one row; a third job and the limit of two slots make a worker choose and wait.  Three
attempts with one backoff entry reach every clamp of the index and both sides of the
budget.  Two audits of one store are enough for either order of every pair of statements
of `Save`.  `LIMIT` 1 with two stores lets one be passed over for ever, if the order
allowed it.  One run of the pipeline has commits that are always acknowledged, because
only then does a report appear once; the other drops this.  Two requests with quotas of 1
reach the overshoot `QuotaOvershoot` allows, and three stores would exceed it; two are
enough to meet in an invitation, in a lock and, with transfers in opposite directions, in
a deadlock.  Two grants and two processes are enough for a token of the old grant to be
refused after the new one was saved; two connections of one store, each with its own grant,
for a cache to hand one the token of the other, and for the refresher to look at one and
call the other.  A limit of 3 with two logins at a time is exceeded by one, which
is what `FailuresBounded` allows.  Five issues and two calls of two leave one issue the
budget does not reach.  The sites have ties among currencies, equal descriptions, item codes
in every group of checks, more than the budget of pages, and a sitemap that leads to itself;
three permits shared by two crawls of two fetches each make both kinds of waiting happen.
`MaxMissed`, `MaxFaults`, `MaxLost` and `MaxSaves` bound faults and forms; `Links`,
`Sessions` and `Grants` are the links, sessions and consents of a behaviour.  Nothing else
is bounded: the counters of the models are limited by their guards.

Deadlock checking is off where the system may stop: all jobs are finished, all processes
have ended, all links used up.  It is on in `Enrichment`, whose audits never end.

Fairness.  Weak fairness is assumed for what a live process does by itself: its ticker
fires, a goroutine that can continue does, a request that was begun is served, a fetch ends
by the client's timeout, time passes, so each entry of a cache expires; strong fairness where an action waits for something
that others switch on and off: Gumroad's retries of a delivery, an insert waiting for a row
lock, and requests, which wait for locks and connections that are given in the order of
asking.  Nothing makes a user act or a fault happen, and processes that may fail are
promised nothing.  `Reliable`, in `AlertDispatch` `Steady`, names the processes and dispatches
that stay up; liveness is claimed for systems that have one.

## Disagreements between code and documentation

With a run, in `PROJECT.json` under `findings`: a failed statement of the webhook aborts the
transaction, the event row included, and Gumroad is answered 200
(`handlers_billing.go:91-107`).

The others were met while modelling.  The models contain the behaviour; the properties are
stated so as not to claim what the code does not do.

Jobs, pipeline, alerts:

- A job whose handler ends during the drain is left at `running`, because the outcome is
  written with the cancelled context (`jobs.go:225`, `cmd/worker/main.go:173-179`;
  `guide/ops.md:50-51`).
- `jobs.MaxAttempts = 3` is used nowhere; rows get `max_attempts` 5 from the column
  default, so a job runs more often than the backoff schedule provides for
  (`jobs.go:24-32`, `migrations/000008_jobs.up.sql:9`).
- `AfterCommit` also fires for failed audits (`persist_pg.go:21-22, 146`), and its
  goroutine is awaited by nobody, so a drain loses it (`cmd/worker/main.go:130-133`).
- After a lost acknowledgement and a failed retry, a failed audit keeps the diff of its
  first attempt (`differ.go:11-13`).
- The `ON CONFLICT DO NOTHING` of an alert is not looked at, so that a retry mails it a
  second time (`dispatcher.go:249-256`; `migrations/000018`); a refused email stays logged
  as sent, and two audits reported together both pass the rate limit
  (`dispatcher.go:12-14, 261`).

Billing, scheduling, tenants:

- `subscription_cancelled` and `subscription_ended` have no dedup key, and two updates of
  one subscription share one (`handlers_billing.go:71`; `README.md:281-283`).
- Two deliveries that lock purchase and tenant in opposite orders may deadlock; the one
  PostgreSQL gives up on is answered 200 as well.
- Nothing acts on `pending_plan`: the downgrade "the scheduler reconciles on its tick"
  waits for a later `subscription_ended` (`billing/dispatcher.go:222-242`).
- A store is monitored from the moment it is added, on every plan (`stores.go:32`,
  `migrations/000005`; `plan_limits.go:76`, `README.md:300-302`).
- SIGTERM cancels the scheduler's context, so the rest of a claimed batch fails and its
  stores wait a whole interval (`cmd/scheduler/main.go:7-8`).
- "Run now" queues an audit without the monthly quota (`handlers_monitoring.go:293`);
  switching monitoring on keeps a date still ahead (`handlers_monitoring.go:266-272`).
- `RemoveMembership` refuses the caller's own id only, and the caller's role was read
  before the transaction began: after a transfer in between, the removal deletes the
  tenant's only owner (`handlers_tenant.go:222-226`; `owner_constraint_test.go:47-51`).
- `TransferOwnership` looks at no row count: a new owner who is no member leaves the tenant
  with none (`handlers_tenant.go:266-277`).  `OwnerKept` is therefore stated for transfers
  to members that do not overlap.
- `EveryRequestEnds` needs a pool larger than the number of requests at work.  With as many
  requests as connections (`PoolSize = 2` in the run), each can hold its own and wait for a
  second one for ever (`middleware_tenant.go:137`, `plan_gate.go:39`).
- The member limit is looked at when an invitation is made, not when it is accepted, and
  pending invitations do not count (`handlers_tenant.go:155, 385-431`).

GMC connections:

- A refused token of an old grant, from a cache that a renewal does not reach, has the
  renewed connection revoked: the row is updated by id (`gmc_sync.go:108`, `store.go:131-145`;
  `README.md:221`).  `RevocationEarned` therefore asks for a grant the row has had.
- A disconnect does not reach the caches of the worker and the scheduler: the token stays
  in use until its entry expires or the sync that has it ends, and a sync in the middle of
  `SupplierFor` may still cache it anew (`store.go:151-189`; `README.md:213`, "revokes the refresh token").  `RetiredIsForgotten`
  says that this comes to an end.
- A due row has the newest connection of its store refreshed, not itself.  An older one is
  never called and stays due, so that the newest is called with every tick
  (`gmc_refresh.go:149`; `gmc_refresh.go:15-19`: "every active row").
- Rows of stores without a cadence stay at the head of `LIMIT 200` for ever
  (`gmc_refresh.go`, `loadDue`).
- 403 counts as 401 and revokes, while `invalid_grant`, the answer to a withdrawn grant,
  is an ordinary error and revokes nothing.
- The token of a call is fetched once before its retries, which may wait an hour each, and
  is a cached one, not "a fresh access token" (`client.go:22`).
- The picker's token can be used again until it expires, and the quota of connections is
  looked at when the consent begins, never after (`state.go:23`, `handlers_gmc.go`).

Accounts and administration:

- A reset revokes neither the sessions of the old password nor the other links that were
  mailed (`handlers.go`, `Reset`); sessions and links are independent in the model.
- The admin session's "4 h sliding window" extends by the seven days of every session, and
  one that has expired between the lookup and `Extend` is live again
  (`handlers_admin.go:131-138, 867-888`).
- The log of an impersonation stays open after logout, after expiry, and when a second one
  replaces the cookie.  `ActingIsLogged` is one direction only.
- The limiter is in the memory of one process, and the admin's login does not ask it.

Settings, AI, crawl and checks:

- A worker that starts without a key, or cannot read it, uses the mock for the rest of its
  life, whatever is saved later (`cmd/worker/main.go:102-106`; `README.md:292-295`).
- Base URL, key and model are read by three `Get`s and saved by as many `Set`s, whose errors
  are ignored: a call may go to one provider with the key of another.
- `ai_max_calls_per_audit` is saved and never read; `GenerateFix` has no caller outside the tests.
- `broken_product_links` can report nothing: pages that answer 400 or more are dropped by the
  crawler, and `FetchError` is set by tests only (`broken_product_links.go:33`).
- Pages that fail to be fetched are dropped in silence.  The issues found on them vanish and
  come back as new, critical ones included; so do the issues of a failed GMC sync
  (`NewIsExplained` lists the causes).
- Which product a duplicate description or a currency that differs is reported on depends on
  the order of arrival, and of a Go map; the score and the counts do not (`SameSightSameScore`).
- Two policy pages of one slug overwrite each other.  Grouped GMC issues have no URL, so that
  the codes of one check are one issue to the diff.
- A fetch holds its global permit while it waits for one of its store, so one crawl's queue
  can occupy all of them; since those who hold a store's permit never wait, all crawls end
  nevertheless (`CrawlEnds`).

## Proofs

Every theorem holds for any values of the constants that satisfy the assumptions named with
them.  They are in eight modules.  Every safety invariant and action property the passing
runs check is proved.  None of them is inductive alone; TLC has checked each inductive
invariant as an invariant of a run's instance before it was proved.

`WorkerProofs`, *the queue*.  The invariant `IInv` rests on `HolderOwnsRow`: a goroutine that
holds a job is the one `locked_by` names, the row is running (or deleted), and the attempt
number in its memory is the row's.  From this follows that two goroutines never hold one job
(`MutualExclusion`), that the mark statements, which check nothing, never write over somebody
else's claim (`SettledForever`), and that the comparison of the remembered attempt number
with the limit is a comparison of the row's (`AttemptsWithinBudget`, `DeadIsEarned`).

*The pipeline* keeps the invariant of the queue, its steps being made of the queue's
(`PipeStepIsQueueStep`).  On top of it, it keeps (`PInv`) that a handler
works on a job that is its own, that one that returned success has committed a report, which
nothing reopens, and that after an alert of success the job is never taken up again
(`SuccessIsFinal`).  From it follow `VerdictsAgree`, under `~ AckLoss`, since a lost
acknowledgement makes an error of a report that exists, and `SuccessAlertIsLast`, with or
without.

*What readers see.*  `RInv` says of an open transaction that has looked up the previous
report: its own audit is not deleted, the lock of the row forbids that, so neither is any of
its store; and what it found is of that store.  That is enough for `ReportHasDiff`, whatever
is acknowledged.  Under `~ AckLoss`, what it found is still a report when it commits
(`FoundIsReport`), and every step of the pipeline is a step of `AuditRecord` or leaves the two
tables alone (`PipelineIsRecord`).  The rest is proved of the abstract record:
`DiffsAcyclic`, because an audit is published once and compared with one that was there
before, and the action property of `ReportsStay`, that a published report keeps its verdict
and its comparison.  With lost acknowledgements neither is claimed: a report is then saved a
second time, after another was compared with it, and each can become the other's
predecessor.

`MonitoringProofs`, *alerts*, proves `RateLimit`: while dispatches follow one another there
is one active dispatch, and if it is about to log an alert of the limited kind, its query has
seen that there is none (`Serial`).  *The scheduler*: `EachDateOnce`, because for each store
the dates not yet spent are the processes that hold it, finitely many, and the one on the
timetable (`Accounted`).

`GumroadBillingProofs` proves the four properties of `GumroadBillingMixed` for any events in
any order.  The invariant adds that a purchase of a tier was sold by an event of that sale
(`TierIsSold`): a refund takes the plan away when the purchase is of a tier.  From it
`OneTimeRefundsSparePlan` follows if events of one sale agree on whether its product is a
tier, as they do when a sale is of one product.

`TenantRequestsProofs` proves the three safety properties of `TenantRequests`, from one set
of lemmas about what a step of a request may write.  `InvitationAdmitsOne` follows the lock:
no row is written by two transactions (`Locks`), an acceptance about to commit has written
the invitation (`Spending`), and nobody writes a row that is accepted already, because every
update finds its row pending when its wait is over (`Spent`).  `OwnerKept` (`OInv`): each
transaction writes the roles its kind of call is for (`Course`, `Touched`); as long as
transfers and removals come one at a time, the next owner of a transfer stays a member until
the commit, which then makes it the owner, and one who removes another is still the owner.
`QuotaOvershoot` (`QInv`) counts: live stores and those past the gate are together at most
what the gate lets in, one less than the limit, and one for each request and each failure; an
audit that the usage counter does not show is about to be counted or was missed.  A request
that passes the gate has counted the live stores before, and everybody else who is past it
is another request.  The requests at work are assumed to be finitely many, and at least one.

`EnrichmentProofs` proves `FixFitsIssue` for any number of audits and issues, any batch size,
budget and number of attempts.  Issues up to `start` have had their turn and have their own
fix or the fallback, the others have none (`FixInTurn`); the budget spent and `start` advance
together, also when a batch fails (`BatchIsPaid`), so that an audit stops short of an issue
only with its budget spent.  Settings are read only for a call that is under way
(`AsksInCall`), which is why a reader that comes back late finds the batch it left.

`GmcConnectionProofs` proves `TokensStayHome` and `RevocationEarned`.  The invariant says of
each sync that its token was minted from a grant of its connection, and of each page that
its grant is one that was consented to.  That `Newest` returns a connection of the store
it is asked about rests on a lemma that a bounded set of numbers has a greatest element,
proved with the library's theorems on well-founded orders.

`AccountsProofs` proves the three safety properties of `Accounts`.  For links (`LinkInv`): a
job under way owns a pending link, and the link a request follows is one that reached its
user.  For impersonation (`ActInv`): a session in the making belongs to one request and
is in no cookie, so that nobody can revoke, extend or replace it before its log is open; a
request that ends the log has revoked the session or failed to.  For the limiter (`FailInv`):
the failures counted and the logins that may still add one are together fewer than the
limit and the number of requests, which is finite by assumption.

`StoreAuditProofs` proves the three invariants of `StoreAudit` for any stores, number of
crawls, permits, budgets and limits.  Two invariants carry all three.  `CInv` says what a
crawl has: pages of its store by their kind, a product once, because what is still being
fetched has not arrived (`InCourse`), a policy under its own slug, robots.txt as the store has
it or none.  `RInv` says that a report is what the checks say of what the crawl has, for one
of the currencies the map may give first, and is compared with a saved report of the same
store (`Content`).  The rest is about the checks.

- `NewIsExplained`: a page that both audits fetched is the same record in both contexts
  (`Carries`), so a check of pages that complains about it in one complains about it in the
  other (`PageCarries`, `Hits`), and a check of the whole store does unless this audit is
  blind to a page the one before had, or found a shorter sitemap (`StoreCarries`).  The checks of
  `OrderSensitive` are the two of which this is not true.
- `OneReportPerFinding`: `Naming` is the set of checks of which some issue has a given code;
  it is empty for the checks of pages (`NoCode`) and one check for every code of Google's
  (`OneNaming`).  The theorem assumes `NamesApart`: that no account issue is called like an
  item code, a feed's error or one of the two codes the checks make up, and that an account
  issue of one name has one severity.  Nothing in the code provides for this; the names are
  Google's.  TLC evaluates it on the stores of the run.
- `SameSightSameScore`: the rows under a severity are those that what was seen decides
  (`Decided`) and those of the check that also depends on an order (`Ordered`), disjoint and
  finite.  The first are equal in both reports (`AlikeResults`).  Of the second only the
  number is: with whichever of the most frequent currencies as the store's own, as many
  products have another one (`CurrencyCount`), and one duplicate is reported for each
  description that several products share, whichever of them came first (`SharedCount`).

Only model-checked.  Liveness, everywhere: `EventuallySettled`, `AuditDecided`,
`CriticalNeverThrottled`, `DueIsAudited`, `EveryRequestEnds`, `BrokenIsVisible`,
`RetiredIsForgotten`, `LetInAgain`, `EnrichmentEnds`, `SavedIsUsed` and `CrawlEnds` rest on fairness and on which
actions are enabled, where the prover has no reach.  `GumroadBillingLost` is a
counterexample, found by TLC.

## Assumptions about the environment

PostgreSQL runs at read committed; a single statement is atomic, a unique index or foreign
key makes a statement wait for the transaction that holds the conflicting row, and an
error aborts the transaction.  The application's role is one row-level security does not
apply to: with it, most statements run outside a request would see no rows.  Clocks of
processes are not compared with each other.  Emails, Google, the language model, the stores
and Gumroad are inputs.

## Plan

1. Done: job queue with proofs, pipeline and its refinements, alerts, billing, scheduler.
2. Done: requests of a tenant, with the plan gate, members and invitations.
3. Done: GMC connections; accounts, sessions, limiter, impersonation; settings and
   enrichment; crawler, checks and report.
4. Done: proofs for ten components, among them the refinement of the abstract audit record,
   the owner of a tenant, its quotas, the fixes of an audit, and its score.
5. Left: the part of the admin area that has state of its own kind, such as suspended tenants,
   once the code acts on it; liveness, when a prover for it is at hand.

## Not modelled

- The mailbox pages (`handlers_mail.go`) run a script of `deploy/` and show its output; their
  state is the mail server's.
- Lists, detail pages and exports read only.  Suspending a tenant sets a column that nothing
  but lists reads.
- The mailer is one SMTP call, an outcome in the models.  Server plumbing, rendering and
  logging keep no state.
- Migrations and seeds are run by hand; the constraints of the schema are part of the modules
  that rely on them.
- Parsing of HTML, prompts, fix instructions, encryption and signatures: what they yield is an
  attribute of a page, a setting or a delivery.
- The marketing site, styles and page scripts.
