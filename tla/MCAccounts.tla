----------------------------- MODULE MCAccounts -----------------------------
(***************************************************************************)
(* Small instances of the accounts for TLC.                                *)
(***************************************************************************)
EXTENDS AccountsProperties

CONSTANTS ann, root, p1, p2, r1, r2, l1, l2, l3, s1, s2, s3

\* Links are mailed and followed by two tabs; a verified user logs in and fails
\* to; an administrator acts for a user.
VARIABLE scene

NoLogin == streak = 0 /\ \A s \in Sessions : session[s].user # ann
NoAdmin == \A s \in Sessions : session[s].user # root /\ session[s].acting # root

InScene ==
    /\ account[root].password = p1
    /\ \A r \in Requests : request[r].pc \in {"lookup", "reject"} => request[r].user = ann
    /\ \/ /\ scene = "links" /\ NoLogin /\ NoAdmin
          /\ \A s \in Sessions : session[s] = NoSession
          /\ \A r \in Requests : request[r].pc # "lookup"
          /\ \A l \in Links : link[l].user # root
       \/ /\ scene = "logins" /\ NoAdmin
          /\ faults = 0 \/ inbox # {}
          /\ \A l \in Links : l # l1 => link[l].state = "unused"
          /\ account[ann].password # p2
          /\ session[s2] = NoSession /\ session[s3] = NoSession
       \/ /\ scene = "admins" /\ NoLogin
          /\ \A r \in Requests : request[r].pc \notin {"lookup", "follow"}
          /\ \A l \in Links : link[l].state = IF l = l1 /\ account[ann].password = p2
                                              THEN "live" ELSE "unused"
          /\ session[s3] # NoSession \/ log[s3] = "open" => session[s2] # NoSession
          /\ session[s2] # NoSession \/ log[s2] = "open" => session[s1] # NoSession
          /\ \A r \in Requests : request[r].pc = "welcome" => r = r1 /\ jar.admin = None

MCInit == Init /\ scene \in {"links", "logins", "admins"} /\ account[root].password = p1
MCNext == UNCHANGED scene /\ Next /\ InScene'
MCSpec == MCInit /\ [][MCNext]_<<vars, scene>> /\ Fairness

=============================================================================
