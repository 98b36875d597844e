----------------------------- MODULE MCJobQueue -----------------------------
(***************************************************************************)
(* Small instances of the job queue for TLC.                               *)
(***************************************************************************)
EXTENDS JobQueueProperties, TLC

CONSTANTS t1, t2

\* The jobs with a handler belong to one tenant, the others to another.
TwoTenants == [j \in Jobs |-> IF j \in Registered THEN t1 ELSE t2]

\* Jobs with a handler are interchangeable.
JobSymmetry == Permutations(Registered)

=============================================================================
