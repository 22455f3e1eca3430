-------------------------- MODULE MCRunLifecycle --------------------------
(* Instances of RunLifecycle: a run of the workspace beside one of the terminal, or one run and its stream. *)
EXTENDS RunLifecycle, TLC

=============================================================================
