---------------------------- MODULE MCReviewWorkflow ----------------------------
(* The instances TLC checks: a few change requests over a suite of one case. *)
EXTENDS ReviewWorkflow, TLC

CONSTANTS rq1, rq2, rq3, ag1, ag2

MCTwoRequests == {rq1, rq2}
MCThreeRequests == {rq1, rq2, rq3}
MCOneRequest == {rq1}
MCTwoAgents == {ag1, ag2}
MCOneAgent == {ag1}
MCInitialCases == {1}
MCSymmetry == Permutations(MCTwoRequests) \cup Permutations(MCTwoAgents)
=============================================================================
