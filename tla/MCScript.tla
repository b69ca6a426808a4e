------------------------------- MODULE MCScript -------------------------------
(* Instances of Script for TLC.                                            *)
EXTENDS Script, TLC

CONSTANTS build, Build

(* Two names with one object name.                                         *)
Colliding == (build :> build) @@ (Build :> build)

TwoRuns == 1..2

(* Two jobs at once with one object name; one after the other; and one     *)
(* after the other with one name.                                          *)
ThreeScripts ==
  {[mode |-> "all", program |-> <<build, Build>>],
   [mode |-> "each", program |-> <<build, Build>>],
   [mode |-> "each", program |-> <<build, build>>]}
=============================================================================
