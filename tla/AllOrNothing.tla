------------------------------ MODULE AllOrNothing ------------------------------
(***************************************************************************)
(* What a dependency refresh promises (docs/RUNBOOK.md:303-308): the set   *)
(* of derived artifacts a reader finds once no refresh is at work is one   *)
(* run's set, whole.  A refresh either replaces it with its own or leaves  *)
(* it as it was.  Only after a refresh has died may the set be torn, and   *)
(* only until a later one completes.                                       *)
(***************************************************************************)
EXTENDS Naturals

CONSTANTS
    Runs,       \* the runs a set can come from
    Torn        \* files of more than one run

VARIABLES
    accepted,   \* the run whose set is in place, or Torn
    busy,       \* a refresh is at work
    run,        \* the number of the last refresh begun
    died        \* some refresh has died

vars == <<accepted, busy, run, died>>

Init ==
    /\ accepted = 0
    /\ busy = FALSE
    /\ run = 0
    /\ died = FALSE

Begin ==
    /\ ~busy
    /\ busy' = TRUE
    /\ run' = run + 1
    /\ UNCHANGED <<accepted, died>>

(* Once a refresh has died, the agent it left behind may still write. *)
Leaves(set) == accepted' = set \/ (died /\ accepted' \in Runs \cup {Torn})

Complete ==
    /\ busy
    /\ busy' = FALSE
    /\ Leaves(run)
    /\ UNCHANGED <<run, died>>

Fail ==
    /\ busy
    /\ busy' = FALSE
    /\ Leaves(accepted)
    /\ UNCHANGED <<run, died>>

Die ==
    /\ busy
    /\ busy' = FALSE
    /\ died' = TRUE
    /\ accepted' \in Runs \cup {Torn}
    /\ UNCHANGED run

Disturb ==
    /\ died
    /\ ~busy
    /\ accepted' \in Runs \cup {Torn}
    /\ UNCHANGED <<busy, run, died>>

Next == Begin \/ Complete \/ Fail \/ Die \/ Disturb

Spec == Init /\ [][Next]_vars
=============================================================================
