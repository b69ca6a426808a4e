------------------------------ MODULE ClientReads -----------------------------
(***************************************************************************)
(* One run of the CLI: a list command or the logs command, each against    *)
(* the API server and a store that changes meanwhile.                      *)
(***************************************************************************)
EXTENDS Listings, LogStreams

VARIABLE command

vars == <<command, listVars, logVars>>

Init ==
  /\ ListInit /\ LogInit
  /\ \/ command = "list" /\ ~stream.follow
     \/ command = "logs" /\ collection = "users" /\ present = {}

ListCommand ==
  /\ command = "list" /\ ListNext
  /\ UNCHANGED <<command, logVars>>

logs ==
  /\ command = "logs" /\ LogNext
  /\ UNCHANGED <<command, listVars>>

Next == ListCommand \/ logs

(* The API server reads on and sends what it has read.                     *)
Spec ==
  /\ Init /\ [][Next]_vars
  /\ WF_vars(command = "logs" /\ StreamStep /\ UNCHANGED <<command, listVars>>)
=============================================================================
