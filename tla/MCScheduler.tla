----------------------------- MODULE MCScheduler -----------------------------
(* Instances of Scheduler for TLC.                                         *)
EXTENDS Scheduler, TLC

OneProject == 1..1

AllInOne == [e \in Events |-> 1]

TwoProjects == 1..2

(* One event for each project.                                             *)
OneEach == CHOOSE f \in [Events -> TwoProjects] : \A p \in TwoProjects :
             \E e \in Events : f[e] = p

(* Bound: at most one pod ends, and it stays there.                        *)
OneEnd == /\ \A e \in Events : pod[e] # "gone"
          /\ Cardinality({e \in Events : pod[e] = "Over"}) <= 1
=============================================================================
