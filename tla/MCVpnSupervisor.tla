--------------------------- MODULE MCVpnSupervisor ---------------------------
(***************************************************************************)
(* Instances of VpnSupervisor for TLC.                                     *)
(***************************************************************************)
EXTENDS VpnSupervisor, TLC
CONSTANTS vpn, vpn2, t1, t2, c1, c2
SupervisorSymmetry == Permutations(Threads) \cup Permutations(Configs)
PairSymmetry == Permutations(Threads) \cup Permutations(Components)
=============================================================================
