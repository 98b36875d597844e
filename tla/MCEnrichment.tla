---------------------------- MODULE MCEnrichment ----------------------------
(***************************************************************************)
(* Small instances of the enrichment for TLC.                              *)
(***************************************************************************)
EXTENDS EnrichmentProperties

CONSTANTS a1, a2, tab, server, worker, old, new

\* A form with another provider and its key, and one with a model.
MCForms == {<< <<"ai_base_url", new>>, <<"ai_api_key", new>> >>,
            << <<"ai_model", new>> >>}
MCHome == [r \in Readers |-> IF r = tab THEN server ELSE worker]

\* One audit has issues of more batches than its budget pays for; or two audits
\* and a test of the connection meet a form that is saved.
VARIABLE scene

Rows == {[k \in KeySet |-> old], [k \in KeySet |-> None], [[k \in KeySet |-> old] EXCEPT !["ai_model"] = None]}

InScene ==
    \/ /\ scene = "batches" /\ saves = 0
       /\ audit[a2] = Idle /\ reader[tab] = Resting
    \/ /\ scene = "settings"
       /\ audit[a2] = Idle
       /\ audit[a1].issues = 0 /\ audit[a1].attempt <= 1
    \/ /\ scene = "pair" /\ faults = 0 /\ reader[tab] = Resting
       /\ \A i \in DOMAIN form.todo : form.todo[i][1] # "ai_model"
       /\ \A a \in Audits : audit[a].issues = 0

MCInit ==
    /\ scene \in {"batches", "settings", "pair"} /\ Init /\ row \in Rows
    /\ scene # "batches" => row = [[k \in KeySet |-> old] EXCEPT !["ai_model"] = None]
MCNext == UNCHANGED scene /\ Next /\ InScene'
MCSpec == MCInit /\ [][MCNext]_<<vars, scene>> /\ Fairness

=============================================================================
