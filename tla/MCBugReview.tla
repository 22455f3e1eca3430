------------------------------ MODULE MCBugReview ------------------------------
(* Instances of BugReview for TLC: c1 and c2 rest on the same evidence. *)
EXTENDS BugReview, TLC

MCClaims == {"c1", "c2", "c3"}
MCKeyOf == [c1 |-> "k", c2 |-> "k", c3 |-> "l"]
MCFirst == <<"c1", "c3">>
=============================================================================
