-------------------------- MODULE MCGumroadBilling --------------------------
(***************************************************************************)
(* Small instances of billing for TLC: what Gumroad may send in each run.  *)
(***************************************************************************)
EXTENDS GumroadBillingProperties, TLC

CONSTANTS a, b, r, x, rescue

Sold(s, product) == [type |-> "sale", sub |-> s, sale |-> s, product |-> product, n |-> 0]
Refunded(s, product) == [Sold(s, product) EXCEPT !.type = "refund"]
Updated(s, sale, product, k) ==
    [type |-> "subscription_updated", sub |-> s, sale |-> sale, product |-> product, n |-> k]
Cancelled(s, product) ==
    [type |-> "subscription_cancelled", sub |-> s, sale |-> NoSale, product |-> product, n |-> 0]
Ended(s, product) == [Cancelled(s, product) EXCEPT !.type = "subscription_ended"]

\* A subscription cancelled, renewed for another tier under the same license,
\* ended and refunded, beside a one-time purchase that is refunded and a purchase
\* without tenant.
Mixed == {Sold(a, "pro"), Cancelled(a, "pro"), Updated(a, b, "growth", 1),
          Ended(a, "pro"), Refunded(a, "pro"),
          Sold(r, rescue), Refunded(r, rescue), Sold(x, "pro")}

\* A subscription that is cancelled and ends.
CancelledOnly == {Sold(a, "pro"), Cancelled(a, "pro"), Ended(a, "pro")}

\* a and b are charges of one subscription.
SharedLicense == [s \in Sales |-> IF s = b THEN a ELSE s]
OwnLicense    == [s \in Sales |-> s]

=============================================================================
