--------------------------- MODULE MCTenantRequests --------------------------
(***************************************************************************)
(* Small instances of a tenant's requests for TLC.                         *)
(***************************************************************************)
EXTENDS TenantRequestsProperties

CONSTANTS ann, bob, cat, i1, i2, s1, s2, s3, r1, r2

AskFor(kind, by, on) == [kind : {kind}, by : by, on : on]

\* Ownership goes to and fro between two users, a third follows the same
\* invitation, and there is one to own the tenant.
MemberCalls == UNION {
    AskFor("transfer", {ann}, {bob}), AskFor("transfer", {bob}, {ann}),
    AskFor("remove", {ann}, {bob}), AskFor("remove", {bob}, {ann}),
    AskFor("invite", {ann}, Invitations), AskFor("revoke", {ann}, {i1}),
    AskFor("accept", {bob, cat}, {i1}), AskFor("accept", {cat}, {i2})}

\* More stores than the plan allows are added, and one is deleted and audited.
QuotaCalls ==
    AskFor("store", {ann}, Stores)
        \cup AskFor("forget", {ann}, {s1}) \cup AskFor("audit", {ann}, {s1})

MCCalls == MemberCalls \cup QuotaCalls

\* The two kinds of calls share nothing but the pool: each has its own behaviours.
VARIABLE asked

Asking == \A r \in Requests : call[r] \in asked \cup {NoCall}

MCInit == Init /\ asked \in {MemberCalls, QuotaCalls}
MCNext == UNCHANGED asked /\ Next /\ Asking'
MCSpec == MCInit /\ [][MCNext]_<<vars, asked>> /\ Fairness

=============================================================================
