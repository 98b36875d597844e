------------------------ MODULE GumroadBillingProofs -------------------------
(***************************************************************************)
(* What billing keeps, for any events in any order and any catalog.        *)
(***************************************************************************)
EXTENDS GumroadBillingProperties, TLAPS

Priced(m) == m.type \in {"sale", "subscription_updated"}

\* A purchase of a tier is one that an event sold.
TierIsSold ==
    \A s \in Sales :
        paidFor[s] \in Tiers => \E m \in recorded : Priced(m) /\ m.sale = s /\ m.product \in Tiers

IInv ==
    /\ TypeOK
    /\ PaidPlanIsRecorded
    /\ PurchasesMatchLedger
    /\ TierIsSold

\* What an event may do to the plan, and what to the purchases, whichever its
\* handler is.
PlanEffect(m) ==
    \/ UNCHANGED <<plan, byAdmin>>
    \/ plan' = "free" /\ byAdmin' = FALSE
    \/ Priced(m) /\ m.product \in Tiers /\ plan' = m.product /\ byAdmin' = FALSE

Bought(m) ==
    /\ Priced(m) /\ m.sale \in Sales
    /\ \E p \in Plans :
          /\ paidFor' = [paidFor EXCEPT ![m.sale] = p]
          /\ p \in Tiers => m.product \in Tiers
    /\ refunded' = refunded \ {m.sale}

Kept(m) ==
    /\ ~ Priced(m) \/ m.sale \notin Sales
    /\ paidFor' = paidFor
    /\ \/ refunded' = refunded
       \/ m.sale \in Sales /\ paidFor[m.sale] # "none" /\ refunded' = refunded \cup {m.sale}

LEMMA Processed ==
    ASSUME TypeOK, NEW m \in Events, Process(m)
    PROVE  /\ PlanEffect(m)
           /\ pending' \in {"none", "ahead", "due"}
           /\ Bought(m) \/ Kept(m)
           /\ recorded' = recorded \cup {m}
           /\ errored' = errored
           /\ acked' \subseteq Events
<1> USE BillingConstants DEF TypeOK, Event, Plans, Priced, PlanEffect, Bought, Kept, tenantVars, saleVars
<1>1. /\ recorded' = recorded \cup {m}
      /\ errored' = errored
      /\ acked' \subseteq Events
  BY DEF Process, Answer
<1>2. ~ Rejected(m) /\ Dispatch(m)
  BY DEF Process
<1>3. CASE m.type = "sale" /\ HandleSale(m)
  BY <1>1, <1>3 DEF HandleSale, UpsertPurchase, SetPlan, PlanColumn
<1>4. CASE m.type = "subscription_updated" /\ HandleSubscriptionUpdated(m)
  BY <1>1, <1>2, <1>4 DEF HandleSubscriptionUpdated, UpsertPurchase, SetPlan, Rejected
<1>5. CASE m.type = "subscription_cancelled" /\ HandleSubscriptionCancelled
  BY <1>1, <1>5 DEF HandleSubscriptionCancelled
<1>6. CASE m.type = "subscription_ended" /\ HandleSubscriptionEnded
  BY <1>1, <1>6 DEF HandleSubscriptionEnded, SetPlan
<1>7. CASE m.type = "refund" /\ HandleRefund(m)
  BY <1>1, <1>7 DEF HandleRefund, SetPlan
<1> QED
  BY <1>2, <1>3, <1>4, <1>5, <1>6, <1>7 DEF Dispatch

LEMMA InitIInv == Init => IInv
BY BillingConstants
   DEF Init, IInv, TypeOK, Plans, PaidPlanIsRecorded, PurchasesMatchLedger, TierIsSold

LEMMA ProcessKeeps ==
    ASSUME IInv, NEW m \in Events, Process(m)
    PROVE  IInv'
<1> USE DEF IInv
<1>1. /\ PlanEffect(m)
      /\ pending' \in {"none", "ahead", "due"}
      /\ Bought(m) \/ Kept(m)
      /\ recorded' = recorded \cup {m}
      /\ errored' = errored
      /\ acked' \subseteq Events
  BY Processed
<1>2. TypeOK'
  <2>1. plan' \in Plans /\ byAdmin' \in BOOLEAN
    BY <1>1 DEF PlanEffect, TypeOK, Plans
  <2>2. paidFor' \in [Sales -> Plans \cup {"none"}] /\ refunded' \subseteq Sales
    BY <1>1 DEF Bought, Kept, TypeOK
  <2> QED
    BY <1>1, <2>1, <2>2 DEF TypeOK
<1>3. PaidPlanIsRecorded'
  BY <1>1, BillingConstants DEF PlanEffect, Priced, PaidPlanIsRecorded
<1>4. CASE Bought(m)
  <2>1. PICK p \in Plans : /\ paidFor' = [paidFor EXCEPT ![m.sale] = p]
                           /\ p \in Tiers => m.product \in Tiers
    BY <1>4 DEF Bought
  <2>2. p # "none"
    BY BillingConstants DEF Plans
  <2>3. PurchasesMatchLedger'
    BY <1>1, <1>4, <2>1, <2>2 DEF Bought, Priced, PurchasesMatchLedger, TypeOK
  <2>4. TierIsSold'
    BY <1>1, <1>4, <2>1 DEF Bought, TierIsSold, TypeOK
  <2> QED
    BY <1>2, <1>3, <2>3, <2>4
<1>5. CASE Kept(m)
  <2>1. PurchasesMatchLedger'
    BY <1>1, <1>5 DEF Kept, Priced, PurchasesMatchLedger
  <2>2. TierIsSold'
    BY <1>1, <1>5 DEF Kept, TierIsSold
  <2> QED
    BY <1>2, <1>3, <2>1, <2>2
<1> QED
  BY <1>1, <1>4, <1>5

LEMMA IInvStep == IInv /\ [Next]_vars => IInv'
<1> SUFFICES ASSUME IInv, [Next]_vars PROVE IInv'
  OBVIOUS
<1> USE DEF IInv, TypeOK, Plans, tenantVars, saleVars
<1>1. ASSUME NEW m \in Events, Process(m) PROVE IInv'
  BY <1>1, ProcessKeeps
<1>2. ASSUME NEW m \in Events, SkipDuplicate(m) \/ Refuse(m) \/ Abort(m) PROVE IInv'
  BY <1>2 DEF SkipDuplicate, Refuse, Abort, Answer,
     PaidPlanIsRecorded, PurchasesMatchLedger, TierIsSold
<1>3. ASSUME PeriodEnds PROVE IInv'
  BY <1>3 DEF PeriodEnds, PaidPlanIsRecorded, PurchasesMatchLedger, TierIsSold
<1>4. ASSUME NEW p \in Plans, AdminSetPlan(p) PROVE IInv'
  BY <1>4 DEF AdminSetPlan, PaidPlanIsRecorded, PurchasesMatchLedger, TierIsSold
<1>5. CASE UNCHANGED vars
  BY <1>5 DEF vars, PaidPlanIsRecorded, PurchasesMatchLedger, TierIsSold
<1> QED
  BY <1>1, <1>2, <1>3, <1>4, <1>5 DEF Next

THEOREM Invariance == Spec => []IInv
BY InitIInv, IInvStep, PTL DEF Spec

-----------------------------------------------------------------------------

\* No paid tier without an event that sold it, unless an admin set it.
THEOREM PaidPlanIsRecordedAlways == Spec => []PaidPlanIsRecorded
BY Invariance, PTL DEF IInv

\* The purchases are those of the recorded events, and refunds are of them.
THEOREM PurchasesMatchLedgerAlways == Spec => []PurchasesMatchLedger
BY Invariance, PTL DEF IInv

\* An event with a sale_id that comes again changes nothing.
THEOREM SaleRetriesAreIdempotent == Spec => SaleRetriesIdempotent
<1>1. IInv /\ [Next]_vars =>
        [\A m \in Events :
            m.sale # NoSale /\ m \in recorded /\ m \in acked' \ acked =>
                UNCHANGED <<plan, pending, paidFor, refunded>>]_vars
  <2> SUFFICES ASSUME IInv, Next, NEW m \in Events,
                      m.sale # NoSale, m \in recorded, m \in acked' \ acked
               PROVE  UNCHANGED <<plan, pending, paidFor, refunded>>
    OBVIOUS
  <2>1. Duplicate(m)
    BY DEF Duplicate
  <2>2. ASSUME NEW e \in Events, Process(e) PROVE FALSE
    BY <2>1, <2>2 DEF Process, Answer
  <2>3. ASSUME NEW e \in Events, SkipDuplicate(e) \/ Refuse(e) \/ Abort(e)
        PROVE  UNCHANGED <<plan, pending, paidFor, refunded>>
    BY <2>3 DEF SkipDuplicate, Refuse, Abort, tenantVars, saleVars
  <2>4. ~ PeriodEnds /\ \A p \in Plans : ~ AdminSetPlan(p)
    BY DEF PeriodEnds, AdminSetPlan
  <2> QED
    BY <2>2, <2>3, <2>4 DEF Next
<1> QED
  BY <1>1, Invariance, PTL DEF Spec, SaleRetriesIdempotent

\* Where all events about a sale agree on whether it is of a subscription, the
\* refund of a one-time charge leaves the plan alone.
THEOREM OneTimeRefundsSparePlan ==
    ASSUME \A m, n \in Events :
               m.sale = n.sale /\ m.sale # NoSale => (m.product \in Tiers <=> n.product \in Tiers)
    PROVE  Spec => OneTimeRefundSparesPlan
<1>1. IInv /\ [Next]_vars =>
        [\A m \in Events :
            m.type = "refund" /\ m.product \in OneTime /\ m \in recorded' \ recorded =>
                UNCHANGED <<plan, pending>>]_vars
  <2> SUFFICES ASSUME IInv, Next, NEW m \in Events,
                      m.type = "refund", m.product \in OneTime, m \in recorded' \ recorded
               PROVE  UNCHANGED <<plan, pending>>
    OBVIOUS
  <2>1. Process(m)
    BY DEF Next, Process, SkipDuplicate, Refuse, Abort, PeriodEnds, AdminSetPlan
  <2>2. HandleRefund(m)
    BY <2>1 DEF Process, Dispatch
  <2>3. m.sale \in Sales /\ m.product \notin Tiers
    BY BillingConstants DEF Event
  <2>4. paidFor[m.sale] \notin Tiers
    BY <2>3, BillingConstants DEF IInv, TypeOK, TierIsSold
  <2>5. paidFor[m.sale] \in {"none", "free"}
    BY <2>3, <2>4 DEF IInv, TypeOK, Plans
  <2> QED
    BY <2>2, <2>5 DEF HandleRefund, tenantVars
<1> QED
  BY <1>1, Invariance, PTL DEF Spec, OneTimeRefundSparesPlan

=============================================================================
