---------------------- MODULE GumroadBillingProperties ----------------------
(***************************************************************************)
(* What billing promises, and promises of its comments that it breaks.     *)
(***************************************************************************)
EXTENDS GumroadBilling

TypeOK ==
    /\ plan \in Plans
    /\ pending \in {"none", "ahead", "due"}
    /\ paidFor \in [Sales -> Plans \cup {"none"}]
    /\ refunded \subseteq Sales
    /\ recorded \subseteq Events
    /\ errored \subseteq Events
    /\ acked \subseteq Events
    /\ byAdmin \in BOOLEAN

\* A tenant on a paid tier that no admin put there has a recorded event that
\* sold it that tier: the event row, the purchase and the plan commit
\* together (dispatcher.go:19-21), however deliveries fail and are repeated.
PaidPlanIsRecorded ==
    plan \in Tiers /\ ~ byAdmin =>
        \E m \in recorded :
            m.type \in {"sale", "subscription_updated"} /\ m.product = plan

\* There is a purchase row for a sale exactly when an event about its price
\* has been recorded, and only such a row is ever refunded.
PurchasesMatchLedger ==
    /\ \A s \in Sales :
          paidFor[s] # "none" <=>
              \E m \in recorded :
                  m.type \in {"sale", "subscription_updated"} /\ m.sale = s
    /\ \A s \in refunded : paidFor[s] # "none"

\* The event that comes again after its answer was lost is recognised when it
\* carries a sale_id: it touches neither plan nor purchases.
SaleRetriesIdempotent ==
    [][\A m \in Events :
          m.sale # NoSale /\ m \in recorded /\ m \in acked' \ acked =>
              UNCHANGED <<plan, pending, paidFor, refunded>>]_vars

\* Refunding a one-time charge does not revoke a subscription
\* (dispatcher.go:266-269), whatever came before or in between.
OneTimeRefundSparesPlan ==
    [][\A m \in Events :
          m.type = "refund" /\ m.product \in OneTime /\ m \in recorded' \ recorded =>
              UNCHANGED <<plan, pending>>]_vars

-----------------------------------------------------------------------------
(* A statement of the comments that the code does not keep.                *)

\* handlers_billing.go:92-95: "dispatcher already wrote error_message into the
\* event row. Commit so we keep the row for inspection".
AnsweredIsRecorded ==
    \A m \in acked :
        \E x \in recorded \cup errored : x.type = m.type /\ x.sale = m.sale

=============================================================================
