------------------------------ MODULE MCRunLock ------------------------------
(* The instance TLC checks: the workspace server with two change requests,  *)
(* and two runner processes, either of which may be started from a terminal *)
(* or from the workspace.                                                   *)
EXTENDS RunLock

CONSTANTS ui, manual, refresh, rq1, rq2, m, r

MCPids == {ui, manual, refresh}
MCClaims == {rq1, rq2, m, r}
MCPidOf == [c \in MCClaims |-> IF c = m THEN manual ELSE IF c = r THEN refresh ELSE ui]
=============================================================================
