----------------------------- MODULE MCMonitoring -----------------------------
(***************************************************************************)
(* Instances of Monitoring for TLC.                                        *)
(***************************************************************************)
EXTENDS Monitoring, TLC
CONSTANTS v1, v2, h

\* The HTTP component has the smallest id, and is last all the same.
MCId == (h :> 1) @@ (v1 :> 2) @@ (v2 :> 3)
=============================================================================
