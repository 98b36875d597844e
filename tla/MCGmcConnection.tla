--------------------------- MODULE MCGmcConnection ---------------------------
(***************************************************************************)
(* Small instances of the connections to Merchant Center for TLC.          *)
(***************************************************************************)
EXTENDS GmcConnectionProperties

CONSTANTS c1, c2, shop, g1, g2, f1, w1, refresher

Own == [c \in Connections |-> IF c = c1 THEN g1 ELSE g2]

\* One connection is renewed while two processes use it; two connections of one
\* store, picked after one consent, come under the refresher; two have a consent each
\* and share the worker's syncs, where only the tokens are of interest; one consent
\* meets every fault: each has its own behaviours.
VARIABLE scene

InScene ==
    \/ /\ scene = "renewed" /\ missed = 0
       /\ \A f \in Flows : flow[f].pc # "picker" /\ flow[f].on # c2
       /\ google[g1] = "unused" => google[g2] = "unused"
       /\ \A g \in Grants : google[g] # "barred"
       /\ \E g \in Grants : google[g] # "gone"
    \/ /\ scene = "two" /\ missed = 0
       /\ \A t \in Audits : task[t] = AtRest
       /\ google[g2] = "unused" /\ created # <<c2>>
    \/ /\ scene = "apart" /\ missed = 0 /\ task[refresher] = AtRest
       /\ \A f \in Flows : /\ flow[f].pc # "picker"
                           /\ flow[f].grant = None \/ flow[f].grant = Own[flow[f].on]
       /\ \A c \in Connections : sync[c] # "error" /\ (c \in due => sync[c] = "never")
       /\ created # <<c2>> /\ \A g \in Grants : google[g] \in {"unused", "good"}
    \/ /\ scene = "faults" /\ google[g2] = "unused"
       /\ \A f \in Flows : flow[f].pc # "picker" /\ flow[f].on # c2

MCInit == Init /\ scene \in {"renewed", "two", "apart", "faults"}
MCNext == UNCHANGED scene /\ Next /\ InScene'
MCSpec == MCInit /\ [][MCNext]_<<vars, scene>> /\ Fairness

OneStore == [c \in Connections |-> shop]

=============================================================================
