----------------------------- MODULE MCProjects -----------------------------
(* Instances of Projects for TLC.                                          *)
EXTENDS Projects, TLC

Plain == [source |-> "github", types |-> {"*"}, labels |-> {}]
Labeled == [source |-> "github", types |-> {"push"}, labels |-> {"main"}]

Push(labels) == [source |-> "github", type |-> "push", labels |-> labels]

PlainSpecs == {{Plain}}
PlainPush == {Push({})}

MixedSpecs == {{}, {Labeled}}
MixedPushes == {Push({}), Push({"main"}), Push({"main", "signed"})}

CallSymmetry == Permutations(Creates) \cup Permutations(Deletes)
=============================================================================
