------------------------------ MODULE LogStreams ------------------------------
(***************************************************************************)
(* The logs of one container, as one client reads them: from the pod as    *)
(* long as it is there ("warm"), else from the collection the log          *)
(* aggregator writes ("cool").                                             *)
(*                                                                         *)
(* A line is its number.  The last one in a pod's log may be unfinished: it*)
(* has no newline yet.  The aggregator is no part of the program: it is    *)
(* taken to store the lines once and in order.  The collection is capped:  *)
(* old lines are overwritten, by those of other containers too.            *)
(*                                                                         *)
(*   container  lines written, whether another one is begun, and whether   *)
(*              its pod is there                                           *)
(*   stored     the lines first + 1 to last are in the collection          *)
(*   stream     the client's stream: whether it follows, where it is, its  *)
(*              source, the line it is at, and whether its cursor is broken*)
(*   printed    the lines the client printed                               *)
(*                                                                         *)
(* Auxiliary: opened, the lines first + 1 to last were there when the      *)
(* stream was opened; dropped, an unfinished line it ended at, or 0.       *)
(***************************************************************************)
EXTENDS Naturals, Sequences

CONSTANT MaxLines   \* bound on the lines of the container
ASSUME LinesAssumption == MaxLines \in Nat

VARIABLES container, stored, stream, printed, opened, dropped

auxLogVars == <<opened, dropped>>
logVars == <<container, stored, stream, printed, auxLogVars>>

(* The lines in the pod's log, the unfinished one with them.               *)
Lines == container.written + (IF container.partial THEN 1 ELSE 0)

Becomes(pc) ==
  /\ stream' = [stream EXCEPT !.pc = pc]
  /\ UNCHANGED <<container, stored, printed, opened>>

(* A line is sent, and the next one is read.                               *)
Sends(line) ==
  /\ printed' = Append(printed, line)
  /\ stream' = [stream EXCEPT !.at = line]
  /\ UNCHANGED <<container, stored, auxLogVars>>

-----------------------------------------------------------------------------
LogInit ==
  /\ container = [written |-> 0, partial |-> FALSE, pod |-> TRUE]
  /\ stored = [first |-> 0, last |-> 0]
  /\ \E follow \in BOOLEAN :
       stream = [follow |-> follow, pc |-> "open", source |-> "warm", at |-> 0,
                 broken |-> FALSE]
  /\ printed = <<>>
  /\ opened = [first |-> 0, last |-> 0] /\ dropped = 0

-----------------------------------------------------------------------------
(* logsService.Stream: the pod's log is tried first.                       *)
OpenWarm ==
  /\ stream.pc = "open" /\ container.pod
  /\ stream' = [stream EXCEPT !.pc = "read"]
  /\ opened' = [first |-> 0, last |-> Lines]
  /\ UNCHANGED <<container, stored, printed, dropped>>

(* There is no pod, it has not started its container, or the call fails.   *)
FallBack ==
  /\ stream.pc = "open"
  /\ stream' = [stream EXCEPT !.pc = "find", !.source = "cool"]
  /\ UNCHANGED <<container, stored, printed, auxLogVars>>

(* The event or its project is gone.                                       *)
OpenFails ==
  /\ stream.pc = "open"
  /\ Becomes("failed") /\ UNCHANGED dropped

-----------------------------------------------------------------------------
(* The pod's log.  It is asked for what there is, never to be followed.    *)

ReadLine ==
  /\ stream.pc = "read" /\ stream.source = "warm"
  /\ stream.at < container.written
  /\ Sends(stream.at + 1)

(* Seeded fault: any error is taken for the end of the log.                *)
ReadEOF_AnyError ==
  /\ stream.pc = "read" /\ stream.source = "warm"
  /\ Becomes(IF stream.follow THEN "hang" ELSE "done")
  /\ UNCHANGED dropped

(* The end of what there is.  A line without a newline is not sent, and a  *)
(* client that follows is left waiting.                                    *)
ReadEOF ==
  /\ stream.pc = "read" /\ stream.source = "warm"
  /\ stream.at = container.written
  /\ Becomes(IF stream.follow THEN "hang" ELSE "done")
  /\ dropped' = IF container.partial THEN stream.at + 1 ELSE 0

(* Any other error: the goroutine cuts off the last character of a line    *)
(* that has none, and the process dies of it.                              *)
ReadError ==
  /\ stream.pc = "read" /\ stream.source = "warm"
  /\ Becomes("failed") /\ UNCHANGED dropped

-----------------------------------------------------------------------------
(* The collection.  It is read after the stream was accepted, so that the  *)
(* client takes whatever makes the store stop for the end of the log.      *)

Ends(broken) ==
  /\ stream' = [stream EXCEPT !.pc = "done", !.broken = broken]
  /\ UNCHANGED <<container, stored, printed, auxLogVars>>

(* A cursor that finds nothing is dead; who follows tries again.           *)
FindNothing ==
  /\ stream.pc = "find" /\ stored.first = stored.last
  /\ ~stream.follow
  /\ Ends(FALSE)

FindLive ==
  /\ stream.pc = "find" /\ stored.first < stored.last
  /\ stream' = [stream EXCEPT !.pc = "read", !.at = stored.first]
  /\ opened' = stored
  /\ UNCHANGED <<container, stored, printed, dropped>>

FindFails == stream.pc = "find" /\ Ends(TRUE)

TryNext ==
  /\ stream.pc = "read" /\ stream.source = "cool" /\ ~stream.broken
  /\ stream.at < stored.last
  /\ Sends(stream.at + 1)

DecodeFails ==
  /\ stream.pc = "read" /\ stream.source = "cool" /\ ~stream.broken
  /\ stream.at < stored.last
  /\ Ends(TRUE)

(* The cursor has an error, and will have nothing to read any more; nobody *)
(* asks it why.                                                            *)
CursorFails ==
  /\ stream.pc = "read" /\ stream.source = "cool" /\ ~stream.broken
  /\ stream' = [stream EXCEPT !.broken = TRUE]
  /\ UNCHANGED <<container, stored, printed, auxLogVars>>

(* Seeded fault: where there is nothing to read the cursor is opened again.*)
NoneAvailable_Reopens ==
  /\ stream.pc = "read" /\ stream.source = "cool"
  /\ stream.broken \/ stream.at = stored.last
  /\ Becomes(IF stream.follow THEN "find" ELSE "done")
  /\ UNCHANGED dropped

(* Seeded fault: a follower hangs at the end, as it does on a pod's log.   *)
NoneAvailable_Hangs ==
  /\ stream.pc = "read" /\ stream.source = "cool"
  /\ stream.broken \/ stream.at = stored.last
  /\ Becomes(IF stream.follow THEN "hang" ELSE "done")
  /\ UNCHANGED dropped

(* The end of what is stored, or of what a broken cursor reads.  Who       *)
(* follows keeps trying, on the same cursor.                               *)
NoneAvailable ==
  /\ stream.pc = "read" /\ stream.source = "cool"
  /\ stream.broken \/ stream.at = stored.last
  /\ ~stream.follow
  /\ Ends(stream.broken)

-----------------------------------------------------------------------------
(* The client closes a stream that it follows.                             *)
Interrupt ==
  /\ stream.follow /\ stream.pc \in {"find", "read", "hang"}
  /\ Becomes("done") /\ UNCHANGED dropped

(* The response breaks off before its end, which the client notices.       *)
ConnectionLost ==
  /\ stream.pc \in {"find", "read", "hang"}
  /\ Becomes("failed") /\ UNCHANGED dropped

-----------------------------------------------------------------------------
(* The container, its pod, the log aggregator and other containers.        *)

BeginLine ==
  /\ container.pod /\ ~container.partial /\ container.written < MaxLines
  /\ container' = [container EXCEPT !.partial = TRUE]
  /\ UNCHANGED <<stored, stream, printed, auxLogVars>>

EndLine ==
  /\ container.pod /\ container.partial
  /\ container' = [container EXCEPT !.partial = FALSE, !.written = @ + 1]
  /\ UNCHANGED <<stored, stream, printed, auxLogVars>>

PodDeleted ==
  /\ container.pod
  /\ container' = [container EXCEPT !.pod = FALSE]
  /\ UNCHANGED <<stored, stream, printed, auxLogVars>>

(* An unfinished line is stored when it is the container's last.           *)
StoreLine ==
  /\ stored.last < IF container.pod THEN container.written ELSE Lines
  /\ stored' = [stored EXCEPT !.last = @ + 1]
  /\ UNCHANGED <<container, stream, printed, auxLogVars>>

(* A cursor is broken when the line it is at, or is to read next, is       *)
(* overwritten; lines it has fetched beyond that are left out of the model.*)
Overwrite ==
  /\ stored.first < stored.last
  /\ stored' = [stored EXCEPT !.first = @ + 1]
  /\ stream' = [stream EXCEPT !.broken =
                  @ \/ ( /\ stream.source = "cool" /\ stream.pc = "read"
                         /\ stream.at <= stored.first + 1)]
  /\ UNCHANGED <<container, printed, auxLogVars>>

-----------------------------------------------------------------------------
StreamStep == \/ OpenWarm \/ FallBack \/ ReadLine \/ ReadEOF
              \/ FindNothing \/ FindLive \/ TryNext \/ NoneAvailable

StreamFault == \/ OpenFails \/ ReadError \/ FindFails \/ DecodeFails
               \/ CursorFails \/ ConnectionLost

LogNext ==
  \/ StreamStep \/ StreamFault \/ Interrupt
  \/ BeginLine \/ EndLine \/ PodDeleted \/ StoreLine \/ Overwrite

-----------------------------------------------------------------------------
Printed(n) == \E i \in 1..Len(printed) : printed[i] = n

(* What is printed is a part of the log without gaps or repetitions,       *)
(* whatever its source, whatever is overwritten and whatever fails         *)
(* meanwhile.                                                              *)
PrintedInOrder ==
  \A i \in 1..(Len(printed) - 1) : printed[i + 1] = printed[i] + 1

(* A stream that is not followed and ends as if it were complete has all   *)
(* that its source had when it was opened, from the first line on.         *)
(* Exceptions: the cursor broke, by an error or because its place was      *)
(* overwritten, and the client cannot tell; and the last line of the pod's *)
(* log was still unfinished.                                               *)
SnapshotComplete ==
  stream.pc = "done" /\ ~stream.follow /\ ~stream.broken =>
    \A n \in (opened.first + 1)..opened.last : Printed(n) \/ n = dropped

(* A client that follows a container whose pod is gone prints every line   *)
(* that is stored, in the end, as long as it is faster than the collection *)
(* is overwritten and its cursor has no error.  One whose cursor has stays *)
(* open and silent for ever.                                               *)
FollowerCatchesUp ==
  \A n \in 1..MaxLines :
    stream.follow /\ stream.source = "cool" /\ stored.first < n /\ stored.last >= n
      ~> \/ Printed(n) \/ stream.broken \/ stored.first >= n
         \/ stream.pc \in {"done", "failed"}
=============================================================================
