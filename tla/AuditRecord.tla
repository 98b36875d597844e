----------------------------- MODULE AuditRecord -----------------------------
(***************************************************************************)
(* What a reader of the audits and audit_diffs tables may rely on: an      *)
(* audit is queued, shows as running, may fail and be tried again, and     *)
(* publishes its report once, together with the comparison to an earlier   *)
(* report of the same store.  A published report stays until it is         *)
(* deleted.                                                                *)
(***************************************************************************)
CONSTANTS Audits, StoreOf, First, NoDiff

VARIABLES audit, diff

Open   == {"queued", "running", "failed"}
Stores == {StoreOf[a] : a \in Audits}

Init ==
    /\ audit = [a \in Audits |-> "absent"]
    /\ diff  = [a \in Audits |-> NoDiff]

Create(a) ==
    /\ audit[a] = "absent"
    /\ audit' = [audit EXCEPT ![a] = "queued"]
    /\ UNCHANGED diff

Progress(a) ==
    /\ audit[a] = "queued"
    /\ audit' = [audit EXCEPT ![a] = "running"]
    /\ UNCHANGED diff

Fail(a) ==
    /\ audit[a] \in Open
    /\ audit' = [audit EXCEPT ![a] = "failed"]
    /\ UNCHANGED diff

\* The earlier report is one that readers can see already.
Publish(a) ==
    /\ audit[a] \in Open
    /\ audit' = [audit EXCEPT ![a] = "succeeded"]
    /\ \E prev \in {First} \cup {b \in Audits : audit[b] = "succeeded" /\ StoreOf[b] = StoreOf[a]} :
          diff' = [diff EXCEPT ![a] = prev]

\* Whole stores go at once, so no diff outlives the audit it compares with.
Delete(S) ==
    /\ audit' = [a \in Audits |-> IF StoreOf[a] \in S THEN "gone" ELSE audit[a]]
    /\ diff'  = [a \in Audits |-> IF StoreOf[a] \in S THEN NoDiff ELSE diff[a]]

Next ==
    \/ \E a \in Audits : Create(a) \/ Progress(a) \/ Fail(a) \/ Publish(a)
    \/ \E S \in SUBSET Stores : Delete(S)

Spec == Init /\ [][Next]_<<audit, diff>>

=============================================================================
