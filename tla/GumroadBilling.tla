--------------------------- MODULE GumroadBilling ---------------------------
(***************************************************************************)
(* Gumroad webhooks and the plan of one tenant: internal/billing, and the  *)
(* webhook handler of internal/web.                                        *)
(*                                                                         *)
(* Gumroad delivers events in any order and again until it is answered     *)
(* with 200.  One delivery is one transaction over three tables: the event *)
(* row with its dedup index, the purchase of the sale, and the tenant's    *)
(* plan; it is one step here, with one action per way it can end.          *)
(* Deliveries answered with an error change nothing and are retried: such  *)
(* a delivery is a stuttering step.                                        *)
(***************************************************************************)
EXTENDS Naturals, FiniteSets

CONSTANTS
    Events,     \* what Gumroad may send, see Event
    Sales,      \* sale ids
    NoSale,     \* an event without sale_id
    Tiers,      \* the plans subscriptions are sold for
    OneTime,    \* products that are not subscriptions, or not in the catalog
    LicenseOf,  \* the license_key of each sale; renewals share one
    Anonymous,  \* sales made without a tenant_id
    DbFaults    \* TRUE: a statement of Dispatch may fail

\* A subscription product is named by its tier; sub is the sale a
\* subscription began with; n tells the updates of one subscription apart.
Event == [type : {"sale", "subscription_updated", "subscription_cancelled",
                  "subscription_ended", "refund"},
          sub : Sales, sale : Sales \cup {NoSale}, product : Tiers \cup OneTime, n : Nat]

ASSUME BillingConstants ==
    /\ Events \subseteq Event
    /\ \A m \in Events : m.type \in {"sale", "refund"} => m.sale # NoSale
    /\ \A m \in Events :
          m.type \in {"subscription_cancelled", "subscription_ended"} => m.sale = NoSale
    /\ NoSale \notin Sales
    /\ Tiers \cap OneTime = {} /\ "free" \notin Tiers /\ "none" \notin Tiers
    /\ Anonymous \subseteq Sales
    /\ DbFaults \in BOOLEAN

VARIABLES
    plan,       \* tenants.plan
    pending,    \* tenants.pending_plan: none, ahead or due by pending_plan_at
    paidFor,    \* purchases.plan of each sale, "none" without a row
    refunded,   \* the sales whose purchase has status refunded
    recorded,   \* the events with a row processed without error
    errored,    \* the events with a row that carries an error_message
    acked,      \* the events answered with 200
    byAdmin     \* who set plan last: history, not a column

tenantVars == <<plan, pending, byAdmin>>
saleVars   == <<paidFor, refunded>>
vars       == <<tenantVars, saleVars, recorded, errored, acked>>

Plans == Tiers \cup {"free"}

Init ==
    /\ plan = "free"
    /\ pending = "none"
    /\ paidFor = [s \in Sales |-> "none"]
    /\ refunded = {}
    /\ recorded = {} /\ errored = {} /\ acked = {}
    /\ byAdmin = FALSE

-----------------------------------------------------------------------------
(* Dispatch: what each event does to the tenant and its purchases.         *)

SetPlan(p) ==
    /\ plan' = p
    /\ pending' = "none"
    /\ byAdmin' = FALSE

\* A charge without a plan tier is recorded as plan free.
PlanColumn(product) == IF product \in Tiers THEN product ELSE "free"

\* upsertPurchase: revives a refunded purchase too.
UpsertPurchase(m, p) ==
    /\ paidFor'  = [paidFor EXCEPT ![m.sale] = p]
    /\ refunded' = refunded \ {m.sale}

\* The purchase of a product nobody recognises is skipped.
BugHandleSale(m) ==
    IF m.product \in Tiers
    THEN UpsertPurchase(m, PlanColumn(m.product)) /\ SetPlan(m.product)
    ELSE UNCHANGED <<tenantVars, saleVars>>

HandleSale(m) ==
    /\ UpsertPurchase(m, PlanColumn(m.product))
    /\ IF m.product \in Tiers THEN SetPlan(m.product) ELSE UNCHANGED tenantVars

HandleSubscriptionUpdated(m) ==
    /\ IF m.product \in Tiers THEN SetPlan(m.product) ELSE UNCHANGED tenantVars
    /\ IF m.sale = NoSale THEN UNCHANGED saleVars ELSE UpsertPurchase(m, m.product)

HandleSubscriptionCancelled ==
    /\ pending' \in {"ahead", "due"}
    /\ UNCHANGED <<plan, byAdmin, saleVars>>

HandleSubscriptionEnded == SetPlan("free") /\ UNCHANGED saleVars

\* Every refund downgrades.
BugHandleRefund(m) ==
    IF paidFor[m.sale] = "none"
    THEN UNCHANGED <<tenantVars, saleVars>>
    ELSE /\ refunded' = refunded \cup {m.sale}
         /\ SetPlan("free")
         /\ UNCHANGED paidFor

\* A refund of a sale nobody recorded does nothing; one of a one-time charge
\* leaves the plan alone.
HandleRefund(m) ==
    IF paidFor[m.sale] = "none"
    THEN UNCHANGED <<tenantVars, saleVars>>
    ELSE /\ refunded' = refunded \cup {m.sale}
         /\ IF paidFor[m.sale] = "free" THEN UNCHANGED tenantVars ELSE SetPlan("free")
         /\ UNCHANGED paidFor

Dispatch(m) ==
    \/ m.type = "sale" /\ HandleSale(m)
    \/ m.type = "subscription_updated" /\ HandleSubscriptionUpdated(m)
    \/ m.type = "subscription_cancelled" /\ HandleSubscriptionCancelled
    \/ m.type = "subscription_ended" /\ HandleSubscriptionEnded
    \/ m.type = "refund" /\ HandleRefund(m)

-----------------------------------------------------------------------------
(* GumroadWebhook: how a delivery ends.                                    *)

\* No conflict target: every delivery gets a row of its own.
BugDuplicate(m) == FALSE

\* The unique index on (event_type, sale_id) where there is a sale_id.
Duplicate(m) ==
    /\ m.sale # NoSale
    /\ \E x \in recorded \cup errored : x.type = m.type /\ x.sale = m.sale

\* Inserting a purchase of a new sale trips over the unique license_key, and
\* an update for a product without tier over the cast of '' to plan_tier.
LicenseTaken(m) ==
    /\ paidFor[m.sale] = "none"
    /\ \E s \in Sales \ {m.sale} : paidFor[s] # "none" /\ LicenseOf[s] = LicenseOf[m.sale]

Rejected(m) ==
    \/ m.type = "sale" /\ LicenseTaken(m)
    \/ /\ m.type = "subscription_updated" /\ m.sale # NoSale
       /\ m.product \notin Tiers \/ LicenseTaken(m)

\* 200 reaches Gumroad, or is lost and the event comes again.
Answer(m) == acked' = acked \cup {m} \/ acked' = acked

\* The event row is marked processed after the commit, and the mark is lost.
BugProcess(m) ==
    /\ m \notin acked
    /\ ~ Duplicate(m) /\ m.sub \notin Anonymous /\ ~ Rejected(m)
    /\ Dispatch(m)
    /\ Answer(m)
    /\ UNCHANGED <<recorded, errored>>

Process(m) ==
    /\ m \notin acked
    /\ ~ Duplicate(m) /\ m.sub \notin Anonymous /\ ~ Rejected(m)
    /\ Dispatch(m)
    /\ recorded' = recorded \cup {m}
    /\ Answer(m)
    /\ UNCHANGED errored

SkipDuplicate(m) ==
    /\ m \notin acked
    /\ Duplicate(m)
    /\ acked' = acked \cup {m}
    /\ UNCHANGED <<tenantVars, saleVars, recorded, errored>>

\* Dispatch refuses an event without tenant: markErr keeps the row.
Refuse(m) ==
    /\ m \notin acked
    /\ ~ Duplicate(m) /\ m.sub \in Anonymous
    /\ errored' = errored \cup {m}
    /\ Answer(m)
    /\ UNCHANGED <<tenantVars, saleVars, recorded>>

\* A statement fails and the transaction with it: markErr and the commit do
\* nothing any more, and the answer is 200 all the same.
Abort(m) ==
    /\ m \notin acked
    /\ ~ Duplicate(m) /\ m.sub \notin Anonymous /\ (Rejected(m) \/ DbFaults)
    /\ acked' = acked \cup {m}
    /\ UNCHANGED <<tenantVars, saleVars, recorded, errored>>

-----------------------------------------------------------------------------

\* pending_plan_at passes.  No code looks at it: the scheduler's tick claims
\* due stores only.
PeriodEnds ==
    /\ pending = "ahead"
    /\ pending' = "due"
    /\ UNCHANGED <<plan, byAdmin, saleVars, recorded, errored, acked>>

\* TenantSetPlan by a super-admin.
AdminSetPlan(p) ==
    /\ plan' = p
    /\ pending' = "none"
    /\ byAdmin' = TRUE
    /\ UNCHANGED <<saleVars, recorded, errored, acked>>

Next ==
    \/ \E m \in Events : Process(m) \/ SkipDuplicate(m) \/ Refuse(m) \/ Abort(m)
    \/ PeriodEnds
    \/ \E p \in Plans : AdminSetPlan(p)

Spec == Init /\ [][Next]_vars

Answered(m) ==
    \/ SkipDuplicate(m) \/ Abort(m)
    \/ (Process(m) \/ Refuse(m)) /\ m \in acked'

\* Gumroad retries until it has its answer, and periods end.
Fairness ==
    /\ \A m \in Events : SF_vars(Answered(m))
    /\ WF_vars(PeriodEnds)

FairSpec == Spec /\ Fairness

=============================================================================
