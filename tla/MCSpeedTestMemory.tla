-------------------------- MODULE MCSpeedTestMemory --------------------------
(***************************************************************************)
(* Instances of SpeedTestMemory for TLC.                                   *)
(***************************************************************************)
EXTENDS SpeedViews
CONSTANTS vpn
=============================================================================
