------------------------------- MODULE MCReads --------------------------------
(* Instances of ClientReads for TLC.                                       *)
EXTENDS ClientReads, TLC

FourItems == 1..4
=============================================================================
