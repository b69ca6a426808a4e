---------------------------- MODULE MCWorkerLoops ----------------------------
(* Instances of WorkerLoops for TLC.                                       *)
EXTENDS WorkerLoops, TLC

CONSTANTS e1, e2

TwoProjects == 1..2

(* Their project is the one that may fall off the page.                    *)
BothInTwo == (e1 :> 2) @@ (e2 :> 2)

SameQueue == Permutations({e1, e2})
=============================================================================
