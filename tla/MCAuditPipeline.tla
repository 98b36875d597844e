--------------------------- MODULE MCAuditPipeline ---------------------------
(***************************************************************************)
(* Small instances of the audit pipeline for TLC.                          *)
(***************************************************************************)
EXTENDS AuditPipelineProperties, TLC

CONSTANTS t1, s1

OneTenant == [j \in Jobs |-> t1]
OneStore  == [j \in Jobs |-> s1]

AuditSymmetry == Permutations(Jobs)

=============================================================================
