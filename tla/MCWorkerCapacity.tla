-------------------------- MODULE MCWorkerCapacity --------------------------
(* Instances of WorkerCapacity for TLC.                                    *)
EXTENDS WorkerCapacity, TLC

EventSymmetry == Permutations(Events)

(* Bounds: at most one pod ends; and one event stays out of it all when    *)
(* the process has restarted.                                              *)
OneEnd == Cardinality({e \in Events : pod[e] \in {"Over", "gone"}}) <= 1

OneIdle == restarts > 0 => \E e \in Events : pod[e] = NoPod /\ e \notin granted
=============================================================================
