---------------------- MODULE TenantRequestsProperties ----------------------
(***************************************************************************)
(* What concurrent requests to a tenant promise.                           *)
(***************************************************************************)
EXTENDS TenantRequests

\* A tenant keeps its owner through transfers, removals and acceptances,
\* whatever fails and wherever a transfer stops (handlers_tenant.go:261-277),
\* as long as no two transfers or removals overlap and every transfer names a
\* member.
OwnerKept == serial => \E u \in Users : row[u] = "owner"

\* However many users follow one invitation's link at once, and whether or
\* not the owner revokes it meanwhile, it makes one of them a member at most,
\* and then it is spent (handlers_tenant.go:402-425).
InvitationAdmitsOne ==
    \A i \in Invitations :
        /\ Cardinality(joined[i]) <= 1
        /\ joined[i] # {} => row[i] = "accepted"

\* The gate looks and the handler acts later, so requests at once exceed a
\* limit, but by less than their number and the gate's failures
\* (plan_gate.go:32-84).
QuotaOvershoot ==
    /\ Cardinality(Live(Stores)) <= StoreLimit - 1 + Cardinality(Requests) + missed
    /\ audits <= AuditLimit - 1 + Cardinality(Requests) + missed

\* With a connection more than there are requests, every request is answered:
\* neither the second connections they take while holding their first nor the
\* rows they lock leave them waiting for each other for ever.
EveryRequestEnds == \A r \in Requests : pc[r] # "idle" ~> pc[r] = "idle"

=============================================================================
