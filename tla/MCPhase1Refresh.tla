---------------------------- MODULE MCPhase1Refresh ----------------------------
(* Instances of Phase1Refresh for TLC: s1 changes a case of s0, s2 adds one. *)
EXTENDS Phase1Refresh, TLC

MCIdsOf == [s0 |-> {1}, s1 |-> {1, 2}]
MCSuites == DOMAIN MCIdsOf
=============================================================================
