-------------------------- MODULE MCAccountSessions --------------------------
(***************************************************************************)
(* Instances of AccountSessions for TLC.                                   *)
(***************************************************************************)
EXTENDS AccountSessions, TLC
CONSTANTS ann, bob, gid, tab, phone, t1, t2
Symmetry == Permutations({ann, bob}) \cup Permutations({t1, t2}) \cup Permutations({tab, phone})
=============================================================================
