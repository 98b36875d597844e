------------------------- MODULE MCMonitorScheduler -------------------------
(***************************************************************************)
(* Small instances of scheduled audits for TLC.                            *)
(***************************************************************************)
EXTENDS MonitorSchedulerProperties, TLC

CONSTANTS s1, s2, p1, p2

=============================================================================
