-------------------------- MODULE MCEventLifecycle --------------------------
(* Instances of EventLifecycle for TLC.                                    *)
EXTENDS EventLifecycle, TLC

MCSelectors == {{"PENDING", "RUNNING"}, {"RUNNING", "SUCCEEDED"}}

RequestSymmetry == Permutations(Requests)
=============================================================================
