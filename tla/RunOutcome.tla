---------------------------- MODULE RunOutcome ----------------------------
(***************************************************************************)
(* What the run history promises about the outcome of a QA run, with no    *)
(* process, signal or file in it: a run is opened once, at most one run is *)
(* open at a time, and an open run is closed once, either with the result  *)
(* it recorded itself or as stopped from outside.  A recorded result is    *)
(* never replaced, a stopped run never acquires a result.                  *)
(***************************************************************************)
CONSTANT Runs

VARIABLE outcome

Init == outcome = [r \in Runs |-> "none"]

\* Opening a run first settles whatever an earlier run left open.
Open(r) ==
    /\ outcome[r] = "none"
    /\ outcome' = [x \in Runs |-> IF x = r THEN "open"
                                 ELSE IF outcome[x] = "open" THEN "stopped" ELSE outcome[x]]

Close(r) ==
    /\ outcome[r] = "open"
    /\ \E how \in {"result", "stopped"} : outcome' = [outcome EXCEPT ![r] = how]

\* A run the history never saw enters it closed, read from its archive.
Import(r) ==
    /\ outcome[r] = "none"
    /\ \E how \in {"result", "stopped"} : outcome' = [outcome EXCEPT ![r] = how]

Next == \E r \in Runs : Open(r) \/ Close(r) \/ Import(r)

Spec == Init /\ [][Next]_outcome
=============================================================================
