--------------------------- MODULE ClientReadsProofs --------------------------
(***************************************************************************)
(* Theorems about the CLI's commands that read: logs, for any number of    *)
(* lines, and the lists, for any number of items on any pages.             *)
(***************************************************************************)
EXTENDS ClientReads, FiniteSetTheorems, WellFoundedInduction, TLAPS

-----------------------------------------------------------------------------
(* The logs.  What is printed is counted from the line before the first    *)
(* that was there when the stream was opened, and the stream is where the  *)
(* client's output ends.  What was there then is there still, overwritten  *)
(* or not, until a stream that is in order ends beyond it, or one line     *)
(* before the end if that line is unfinished.                              *)

LogTypes ==
  /\ container \in [written : Nat, partial : BOOLEAN, pod : BOOLEAN]
  /\ stored \in [first : Nat, last : Nat]
  /\ stream \in [follow : BOOLEAN,
                 pc : {"open", "find", "read", "hang", "done", "failed"},
                 source : {"warm", "cool"}, at : Nat, broken : BOOLEAN]
  /\ printed \in Seq(Nat) /\ dropped \in Nat
  /\ opened \in [first : Nat, last : Nat]

PlaceInLog ==
  /\ stream.at = opened.first + Len(printed)
  /\ \A i \in 1..Len(printed) : printed[i] = opened.first + i

Unopened ==
  /\ stream.pc \in {"open", "find"} =>
       printed = <<>> /\ opened = [first |-> 0, last |-> 0]
  /\ stream.pc = "open" => stream.source = "warm"
  /\ stream.pc = "find" => stream.source = "cool"

StillThere ==
  IF stream.source = "warm" THEN opened.last <= Lines
                            ELSE opened.last <= stored.last

EndsBeyond ==
  stream.pc = "done" /\ ~stream.follow /\ ~stream.broken =>
    \/ opened.last <= stream.at
    \/ dropped = stream.at + 1 /\ opened.last <= dropped

LogInv == LogTypes /\ PlaceInLog /\ Unopened /\ StillThere /\ EndsBeyond

LEMMA InitLogInv == LogInit => LogInv
BY DEF LogInit, LogInv, LogTypes, PlaceInLog, Unopened, StillThere, EndsBeyond,
       Lines

LEMMA LogInvImplies == LogInv => PrintedInOrder /\ SnapshotComplete
<1> SUFFICES ASSUME LogInv PROVE PrintedInOrder /\ SnapshotComplete
  OBVIOUS
<1>1. PrintedInOrder
  <2>1. ASSUME NEW i \in 1..(Len(printed) - 1)
        PROVE  printed[i + 1] = printed[i] + 1
    <3>1. i \in 1..Len(printed) /\ i + 1 \in 1..Len(printed)
      BY DEF LogInv, LogTypes
    <3>2. printed[i] = opened.first + i /\ printed[i + 1] = opened.first + (i + 1)
      BY <3>1 DEF LogInv, PlaceInLog
    <3> QED BY <3>2 DEF LogInv, LogTypes
  <2> QED BY <2>1 DEF PrintedInOrder
<1>2. ASSUME stream.pc = "done" /\ ~stream.follow /\ ~stream.broken,
             NEW n \in (opened.first + 1)..opened.last, n # dropped
      PROVE  Printed(n)
  <2>1. n <= stream.at
    BY <1>2 DEF LogInv, LogTypes, EndsBeyond
  <2>2. n - opened.first \in 1..Len(printed)
    BY <2>1 DEF LogInv, LogTypes, PlaceInLog
  <2>3. printed[n - opened.first] = n
    BY <2>2 DEF LogInv, LogTypes, PlaceInLog
  <2> QED BY <2>2, <2>3 DEF Printed
<1> QED BY <1>1, <1>2 DEF SnapshotComplete

(* One more line is printed, the one after the last.                       *)
LEMMA SendsKeeps ==
  ASSUME LogInv, stream.pc = "read", Sends(stream.at + 1)
  PROVE  LogInv'
<1> USE DEF LogInv
<1>1. /\ printed' = Append(printed, stream.at + 1)
      /\ stream' = [stream EXCEPT !.at = stream.at + 1]
      /\ UNCHANGED <<container, stored, opened, dropped>>
  BY DEF Sends, auxLogVars
<1>2. LogTypes' /\ stream'.pc = "read" /\ stream'.source = stream.source
  BY <1>1 DEF LogTypes
<1>3. PlaceInLog'
  <2>1. /\ Len(printed') = Len(printed) + 1
        /\ \A i \in 1..Len(printed) : printed'[i] = printed[i]
        /\ printed'[Len(printed) + 1] = stream.at + 1
        /\ stream'.at = stream.at + 1
    BY <1>1 DEF LogTypes
  <2>2. ASSUME NEW i \in 1..Len(printed') PROVE printed'[i] = opened.first + i
    <3>1. CASE i = Len(printed) + 1
      BY <2>1, <3>1 DEF LogTypes, PlaceInLog
    <3>2. CASE i \in 1..Len(printed)
      BY <2>1, <3>2 DEF PlaceInLog
    <3> QED BY <2>1, <3>1, <3>2 DEF LogTypes
  <2>3. stream'.at = opened.first + Len(printed')
    BY <2>1 DEF LogTypes, PlaceInLog
  <2>4. opened' = opened
    BY <1>1
  <2> QED BY <2>2, <2>3, <2>4 DEF PlaceInLog
<1>4. Unopened' /\ StillThere' /\ EndsBeyond'
  BY <1>1, <1>2 DEF Unopened, StillThere, EndsBeyond, Lines
<1> QED BY <1>2, <1>3, <1>4

(* The stream ends, or waits for nothing, where it is.                     *)
LEMMA EndingKeeps ==
  ASSUME LogInv, NEW pc \in {"hang", "done", "failed"}, NEW broken \in BOOLEAN,
         stream' = [stream EXCEPT !.pc = pc, !.broken = broken],
         UNCHANGED <<container, stored, printed, opened>>, dropped' \in Nat,
         pc = "done" /\ ~stream.follow /\ ~broken =>
           \/ opened.last <= stream.at
           \/ dropped' = stream.at + 1 /\ opened.last <= dropped'
  PROVE  LogInv'
<1> USE DEF LogInv
<1>1. /\ LogTypes' /\ stream'.pc = pc /\ stream'.source = stream.source
      /\ stream'.at = stream.at /\ stream'.follow = stream.follow
      /\ stream'.broken = broken
  BY DEF LogTypes
<1>2. PlaceInLog'
  BY <1>1 DEF PlaceInLog
<1>3. Unopened' /\ StillThere' /\ EndsBeyond'
  BY <1>1 DEF Unopened, StillThere, EndsBeyond, Lines
<1> QED BY <1>1, <1>2, <1>3

(* The stream stays where it is, and lines are added or overwritten.       *)
LEMMA AroundKeeps ==
  ASSUME LogInv, UNCHANGED <<printed, opened, dropped>>,
         container' \in [written : Nat, partial : BOOLEAN, pod : BOOLEAN],
         stored' \in [first : Nat, last : Nat],
         NEW broken \in BOOLEAN, stream.broken => broken,
         stream' = [stream EXCEPT !.broken = broken],
         Lines <= Lines', stored.last <= stored'.last
  PROVE  LogInv'
<1> USE DEF LogInv
<1>1. /\ LogTypes' /\ stream'.pc = stream.pc /\ stream'.source = stream.source
      /\ stream'.at = stream.at /\ stream'.follow = stream.follow
      /\ stream.broken => stream'.broken
  BY DEF LogTypes
<1>2. PlaceInLog' /\ Unopened' /\ EndsBeyond'
  BY <1>1 DEF PlaceInLog, Unopened, EndsBeyond
<1>3. Lines \in Nat /\ Lines' \in Nat
  BY <1>1 DEF LogTypes, Lines
<1>4. StillThere'
  BY <1>1, <1>3 DEF StillThere, LogTypes
<1> QED BY <1>1, <1>2, <1>4

(* The container takes back no line.                                       *)
LEMMA ContainerKeepsLines ==
  ASSUME LogTypes, BeginLine \/ EndLine \/ PodDeleted
  PROVE  /\ container' \in [written : Nat, partial : BOOLEAN, pod : BOOLEAN]
         /\ Lines <= Lines'
<1> DEFINE Container == [written : Nat, partial : BOOLEAN, pod : BOOLEAN]
<1>1. container \in Container
  BY DEF LogTypes
<1>2. CASE BeginLine
  <2>1. container' = [container EXCEPT !.partial = TRUE] /\ ~container.partial
    BY <1>2 DEF BeginLine
  <2>2. container' \in Container /\ container'.written = container.written
    BY <1>1, <2>1
  <2> QED BY <1>1, <2>1, <2>2 DEF Lines
<1>3. CASE EndLine
  <2> DEFINE n == container.written + 1
             p == container.pod
  <2>1. /\ container' = [written |-> n, partial |-> FALSE, pod |-> p]
        /\ container.partial
    BY <1>1, <1>3 DEF EndLine
  <2>2. n \in Nat /\ p \in BOOLEAN
    BY <1>1
  <2>3. container'.written = n /\ ~container'.partial
    BY <2>1
  <2>4. Lines = n /\ Lines' = n
    BY <1>1, <2>1, <2>3 DEF Lines
  <2> HIDE DEF n, p
  <2>5. [written |-> n, partial |-> FALSE, pod |-> p] \in Container
    BY <2>2
  <2> QED BY <2>1, <2>2, <2>4, <2>5
<1>4. CASE PodDeleted
  <2>1. container' = [container EXCEPT !.pod = FALSE]
    BY <1>4 DEF PodDeleted
  <2>2. /\ container' \in Container /\ container'.written = container.written
        /\ container'.partial = container.partial
    BY <1>1, <2>1
  <2> QED BY <1>1, <2>2 DEF Lines
<1> QED BY <1>2, <1>3, <1>4

LEMMA NextLogInv == LogInv /\ [LogNext]_logVars => LogInv'
<1> SUFFICES ASSUME LogInv, [LogNext]_logVars PROVE LogInv'
  OBVIOUS
<1> USE DEF LogInv
<1>1. CASE OpenWarm
  <2>1. /\ stream' = [stream EXCEPT !.pc = "read"]
        /\ opened' = [first |-> 0, last |-> Lines]
        /\ UNCHANGED <<container, stored, printed, dropped>>
        /\ stream.pc = "open"
    BY <1>1 DEF OpenWarm
  <2>2. Lines \in Nat
    BY DEF Lines, LogTypes
  <2>3. LogTypes' /\ stream'.pc = "read" /\ stream'.source = "warm"
    BY <2>1, <2>2 DEF LogTypes, Unopened
  <2>4. printed = <<>> /\ stream'.at = 0
    BY <2>1 DEF LogTypes, Unopened, PlaceInLog
  <2>5. PlaceInLog'
    BY <2>1, <2>4 DEF PlaceInLog
  <2>6. Lines' = Lines
    BY <2>1 DEF Lines
  <2>7. Unopened' /\ StillThere' /\ EndsBeyond'
    BY <2>1, <2>2, <2>3, <2>6 DEF Unopened, StillThere, EndsBeyond
  <2> QED BY <2>3, <2>5, <2>7
<1>2. CASE FallBack
  <2>1. /\ stream' = [stream EXCEPT !.pc = "find", !.source = "cool"]
        /\ UNCHANGED <<container, stored, printed, opened, dropped>>
        /\ stream.pc = "open"
    BY <1>2 DEF FallBack, auxLogVars
  <2>2. LogTypes' /\ stream'.pc = "find" /\ stream'.source = "cool"
        /\ stream'.at = stream.at
    BY <2>1 DEF LogTypes
  <2>3. PlaceInLog'
    BY <2>1, <2>2 DEF PlaceInLog
  <2>4. opened.last = 0 /\ stored'.last \in Nat
    BY <2>1 DEF Unopened, LogTypes
  <2>5. Unopened' /\ StillThere' /\ EndsBeyond'
    BY <2>1, <2>2, <2>4 DEF Unopened, StillThere, EndsBeyond
  <2> QED BY <2>2, <2>3, <2>5
<1>3. CASE FindLive
  <2>1. /\ stream' = [stream EXCEPT !.pc = "read", !.at = stored.first]
        /\ opened' = stored /\ UNCHANGED <<container, stored, printed, dropped>>
        /\ stream.pc = "find"
    BY <1>3 DEF FindLive
  <2>2. LogTypes' /\ stream'.pc = "read" /\ stream'.source = "cool"
        /\ stream'.at = stored.first
    BY <2>1 DEF LogTypes, Unopened
  <2>3. printed = <<>>
    BY <2>1 DEF Unopened
  <2>4. PlaceInLog'
    BY <2>1, <2>2, <2>3 DEF LogTypes, PlaceInLog
  <2>5. Unopened' /\ StillThere' /\ EndsBeyond'
    BY <2>1, <2>2 DEF LogTypes, Unopened, StillThere, EndsBeyond
  <2> QED BY <2>2, <2>4, <2>5
<1>4. CASE ReadLine \/ TryNext
  BY <1>4, SendsKeeps DEF ReadLine, TryNext
<1>5. CASE ReadEOF
  <2>1. /\ stream' = [stream EXCEPT !.pc = IF stream.follow THEN "hang" ELSE "done",
                                    !.broken = stream.broken]
        /\ UNCHANGED <<container, stored, printed, opened>>
    BY <1>5 DEF ReadEOF, Becomes, LogTypes
  <2>2. /\ dropped' = IF container.partial THEN stream.at + 1 ELSE 0
        /\ opened.last <= stream.at + (IF container.partial THEN 1 ELSE 0)
    BY <1>5 DEF ReadEOF, StillThere, Lines
  <2> DEFINE pc == IF stream.follow THEN "hang" ELSE "done"
  <2>3. pc \in {"hang", "done", "failed"} /\ stream.broken \in BOOLEAN
        /\ dropped' \in Nat
    BY <2>2 DEF LogTypes
  <2>4. \/ opened.last <= stream.at
        \/ dropped' = stream.at + 1 /\ opened.last <= dropped'
    BY <2>2 DEF LogTypes
  <2> HIDE DEF pc
  <2> QED BY <2>1, <2>3, <2>4, EndingKeeps DEF pc
<1>6. CASE FindNothing \/ NoneAvailable
  <2>1. PICK broken \in BOOLEAN :
          /\ stream' = [stream EXCEPT !.pc = "done", !.broken = broken]
          /\ UNCHANGED <<container, stored, printed, opened, dropped>>
          /\ ~broken => \/ stream.pc = "find"
                        \/ stream.source = "cool" /\ stream.at = stored.last
    BY <1>6 DEF FindNothing, NoneAvailable, Ends, auxLogVars, LogTypes
  <2>2. ~broken => opened.last <= stream.at
    BY <2>1 DEF Unopened, StillThere, LogTypes
  <2> QED BY <2>1, <2>2, EndingKeeps DEF LogTypes
<1>7. CASE FindFails \/ DecodeFails
  BY <1>7, EndingKeeps DEF FindFails, DecodeFails, Ends, auxLogVars, LogTypes
<1>8. CASE OpenFails \/ ReadError \/ ConnectionLost \/ Interrupt
  <2>1. PICK pc \in {"done", "failed"} :
          /\ Becomes(pc) /\ UNCHANGED dropped /\ (pc = "done" => stream.follow)
    BY <1>8 DEF OpenFails, ReadError, ConnectionLost, Interrupt
  <2>2. stream' = [stream EXCEPT !.pc = pc, !.broken = stream.broken]
    BY <2>1 DEF Becomes, LogTypes
  <2> QED BY <2>1, <2>2, EndingKeeps DEF Becomes, LogTypes
<1>9. CASE CursorFails
  <2>1. /\ stream' = [stream EXCEPT !.broken = TRUE]
        /\ UNCHANGED <<container, stored, printed, opened, dropped>>
    BY <1>9 DEF CursorFails, auxLogVars
  <2>2. Lines' = Lines /\ Lines \in Nat
    BY <2>1 DEF Lines, LogTypes
  <2>3. /\ container' \in [written : Nat, partial : BOOLEAN, pod : BOOLEAN]
        /\ stored' \in [first : Nat, last : Nat] /\ stored.last <= stored'.last
        /\ Lines <= Lines'
    BY <2>1, <2>2 DEF LogTypes
  <2> QED BY <2>1, <2>3, AroundKeeps
<1>10. CASE Overwrite
  <2>1. PICK broken \in BOOLEAN :
          /\ stream.broken => broken
          /\ stream' = [stream EXCEPT !.broken = broken]
    BY <1>10 DEF Overwrite, LogTypes
  <2>2. /\ stored' = [stored EXCEPT !.first = @ + 1]
        /\ UNCHANGED <<container, printed, opened, dropped>>
    BY <1>10 DEF Overwrite, auxLogVars
  <2>3. stored' \in [first : Nat, last : Nat] /\ stored.last <= stored'.last
    BY <2>2 DEF LogTypes
  <2>4. Lines' = Lines /\ Lines \in Nat
    BY <2>2 DEF Lines, LogTypes
  <2>5. /\ container' \in [written : Nat, partial : BOOLEAN, pod : BOOLEAN]
        /\ Lines <= Lines'
    BY <2>2, <2>4 DEF LogTypes
  <2> QED BY <2>1, <2>2, <2>3, <2>5, AroundKeeps
<1>11. CASE BeginLine \/ EndLine \/ PodDeleted \/ StoreLine
  <2>1. /\ stream' = [stream EXCEPT !.broken = stream.broken]
        /\ UNCHANGED <<printed, opened, dropped>>
    BY <1>11 DEF BeginLine, EndLine, PodDeleted, StoreLine, auxLogVars, LogTypes
  <2>2. CASE BeginLine \/ EndLine \/ PodDeleted
    <3>1. UNCHANGED stored
      BY <2>2 DEF BeginLine, EndLine, PodDeleted
    <3>2. /\ container' \in [written : Nat, partial : BOOLEAN, pod : BOOLEAN]
          /\ Lines <= Lines'
      BY <2>2, ContainerKeepsLines
    <3> QED BY <2>1, <3>1, <3>2, AroundKeeps DEF LogTypes
  <2>3. CASE StoreLine
    BY <2>1, <2>3, AroundKeeps DEF StoreLine, LogTypes, Lines
  <2> QED BY <1>11, <2>2, <2>3
<1>12. CASE UNCHANGED logVars
  BY <1>12 DEF logVars, auxLogVars, LogTypes, PlaceInLog, Unopened, StillThere,
               EndsBeyond, Lines
<1> QED BY <1>1, <1>2, <1>3, <1>4, <1>5, <1>6, <1>7, <1>8, <1>9, <1>10, <1>11, <1>12
        DEF LogNext, StreamStep, StreamFault

(* What the logs command prints has no gaps and no repetitions.            *)
THEOREM LinesInOrder == Spec => []PrintedInOrder
<1>1. Init => LogInit
  BY DEF Init
<1>2. [Next]_vars => [LogNext]_logVars
  BY DEF Next, ListCommand, logs, vars
<1> QED BY <1>1, <1>2, InitLogInv, NextLogInv, LogInvImplies, PTL DEF Spec

(* A stream that is not followed and ends as if it were complete has every *)
(* line that its source had when it was opened, from the first on, unless  *)
(* its cursor broke, and but for a last line that was still unfinished.    *)
THEOREM SnapshotsComplete == Spec => []SnapshotComplete
<1>1. Init => LogInit
  BY DEF Init
<1>2. [Next]_vars => [LogNext]_logVars
  BY DEF Next, ListCommand, logs, vars
<1> QED BY <1>1, <1>2, InitLogInv, NextLogInv, LogInvImplies, PTL DEF Spec

-----------------------------------------------------------------------------
(* The lists.  First the order of what is listed, and the last item of a   *)
(* page.                                                                   *)

ListTypes ==
  /\ collection \in Collections /\ now \in Nat
  /\ present \subseteq Items /\ kept \subseteq present
  /\ created \in [Items -> Nat]
  /\ list \in [pc : {"find", "count", "ask", "over", "stopped"},
               continue : Items \cup {Nowhere}, page : SUBSET Items]
  /\ shown \in [Items -> 0..2]
  /\ ends \subseteq Items /\ restarted \in BOOLEAN

(* i and j share a place in the order.                                     *)
Tied(i, j) == collection = "events" /\ created[i] = created[j]

LEMMA PrecedesIsOrder ==
  ASSUME ListTypes, NEW i \in Items, NEW j \in Items, NEW k \in Items
  PROVE  /\ ~Precedes(i, i)
         /\ Precedes(i, j) /\ Precedes(j, k) => Precedes(i, k)
         /\ i = j \/ Precedes(i, j) \/ Precedes(j, i) \/ Tied(i, j)
<1>1. /\ i \in Nat /\ j \in Nat /\ k \in Nat
      /\ created[i] \in Nat /\ created[j] \in Nat /\ created[k] \in Nat
  BY ItemsAssumption DEF ListTypes
<1> QED BY <1>1 DEF Precedes, Tied

(* A page has a last item: a smallest one that had none would have one     *)
(* after all, which is the last of the rest or the item left out.          *)
LEMMA PageHasLast ==
  ASSUME ListTypes, NEW P \in SUBSET Items, P # {}
  PROVE  \E p \in P : \A q \in P : ~Precedes(p, q)
<1> DEFINE HasLast(S) == \E p \in S : \A q \in S : ~Precedes(p, q)
           Bad == {S \in SUBSET Items : S # {} /\ ~HasLast(S)}
           Sizes == {Cardinality(S) : S \in Bad}
           R == OpToRel(<, Nat)
<1> SUFFICES ASSUME Bad # {} PROVE FALSE
  OBVIOUS
<1>1. \A S \in SUBSET Items : IsFiniteSet(S) /\ Cardinality(S) \in Nat
  BY ItemsAssumption, FS_Subset, FS_CardinalityType
<1>2. Sizes \subseteq Nat /\ Sizes # {}
  BY <1>1
<1>3. \A x, y \in Nat : x < y => <<x, y>> \in R
  BY DEF OpToRel
<1>4. PICK n \in Sizes : \A m \in Sizes : <<m, n>> \notin R
  <2> HIDE DEF R, Sizes
  <2>1. IsWellFoundedOn(R, Nat)
    BY NatLessThanWellFounded DEF R
  <2> QED BY <1>2, <2>1, WFMin
<1>5. PICK S \in Bad : n = Cardinality(S)
  OBVIOUS
<1>6. PICK x \in S : TRUE
  OBVIOUS
<1> DEFINE T == S \ {x}
<1>7. Cardinality(T) = Cardinality(S) - 1 /\ T \in SUBSET Items
  BY <1>1, FS_RemoveElement
<1>8. T \notin Bad
  <2> SUFFICES ASSUME T \in Bad PROVE FALSE
    OBVIOUS
  <2>1. Cardinality(T) \in Sizes
    OBVIOUS
  <2> HIDE DEF T, R, Sizes, Bad
  <2>2. Cardinality(T) < n /\ Cardinality(T) \in Nat /\ n \in Nat
    BY <1>2, <1>5, <1>7, <2>1
  <2> QED BY <1>3, <1>4, <2>1, <2>2
<1>9. x \in Items /\ S \in SUBSET Items /\ S = T \cup {x}
  BY <1>5
<1>10. CASE T = {}
  <2>1. HasLast(S)
    BY <1>9, <1>10, PrecedesIsOrder
  <2> QED BY <2>1
<1>11. CASE HasLast(T)
  <2>1. PICK y \in T : \A q \in T : ~Precedes(y, q)
    BY <1>11
  <2>2. CASE Precedes(y, x)
    <3>1. \A q \in S : ~Precedes(x, q)
      BY <1>7, <1>9, <2>1, <2>2, PrecedesIsOrder
    <3>2. HasLast(S)
      BY <3>1
    <3> QED BY <3>2
  <2>3. CASE ~Precedes(y, x)
    <3>1. HasLast(S)
      BY <1>9, <2>1, <2>3
    <3> QED BY <3>1
  <2> QED BY <2>2, <2>3
<1> QED BY <1>7, <1>8, <1>10, <1>11

LEMMA LastOfPage ==
  ASSUME ListTypes, NEW P \in SUBSET Items, P # {}
  PROVE  /\ LastOf(P) \in P /\ LastOf(P) \in Items
         /\ \A q \in P : ~Precedes(LastOf(P), q)
BY PageHasLast DEF LastOf

(* A page is a beginning of what is left: the rest comes after its last    *)
(* item, or shares its place; and it is all of it if it is not full.       *)
LEMMA FirstPage ==
  ASSUME ListTypes, NEW S \in SUBSET Items, NEW P \in FirstOf(S)
  PROVE  /\ P \subseteq S
         /\ P = {} \/ Cardinality(P) # Limit => P = S
         /\ P # {} => \A i \in S \ P : \/ Precedes(LastOf(P), i)
                                       \/ Tied(LastOf(P), i)
<1>1. /\ P \in SUBSET S
      /\ Cardinality(P) = Limit \/ P = S
      /\ \A p \in P, q \in S \ P : ~Precedes(q, p)
  BY DEF FirstOf
<1>2. P = {} => Cardinality(P) # Limit
  BY FS_EmptySet, LimitAssumption
<1>3. ASSUME P # {}, NEW i \in S \ P
      PROVE  Precedes(LastOf(P), i) \/ Tied(LastOf(P), i)
  <2>1. LastOf(P) \in P
    BY <1>1, <1>3, LastOfPage
  <2>2. ~Precedes(i, LastOf(P)) /\ i # LastOf(P)
    BY <1>1, <1>3, <2>1
  <2> QED BY <1>1, <1>3, <2>1, <2>2, PrecedesIsOrder DEF Tied
<1> QED BY <1>1, <1>2, <1>3

-----------------------------------------------------------------------------
(* What is shown lies behind the place where the next page begins, what    *)
(* was there all the time and is not shown ahead of it, and events have a  *)
(* time of creation, which stays, as soon as a command comes across them.  *)

Shown == {i \in Items : shown[i] > 0}

Dated ==
  collection = "events" =>
    \A i \in present \cup list.page \cup Shown : created[i] # 0

Beyond(c, i) == c = Nowhere \/ Precedes(c, i)

PageAsked ==
  /\ ends \subseteq Shown
  /\ list.continue # Nowhere => list.continue \in Shown
  /\ list.pc \in {"count", "ask"} => list.page # {}
  /\ list.pc = "count" => /\ collection # "secrets"
                          /\ \A i \in list.page : Beyond(list.continue, i)
  /\ list.pc = "ask" => list.page \subseteq Shown

ShownIsBehind ==
  restarted \/
    /\ \A i \in Items : shown[i] <= 1
    /\ list.pc \in {"find", "count"} =>
         \A i \in Shown : ~Beyond(list.continue, i)
    /\ list.pc = "ask" => \A i \in Shown : ~Precedes(LastOf(list.page), i)

Ahead(i) ==
  \/ list.pc = "find" /\ Beyond(list.continue, i)
  \/ list.pc = "count" /\ \/ i \in list.page
                          \/ Precedes(LastOf(list.page), i)
                          \/ Tied(LastOf(list.page), i)
  \/ list.pc = "ask" /\ Precedes(LastOf(list.page), i)
  \/ list.pc = "stopped"

KeptIsAhead ==
  \A i \in kept : i \in Shown \/ (\E e \in ends : Tied(e, i)) \/ Ahead(i)

ListInv == ListTypes /\ Dated /\ PageAsked /\ ShownIsBehind /\ KeptIsAhead

LEMMA InitListInv == ListInit => ListInv
<1> SUFFICES ASSUME ListInit PROVE ListInv
  OBVIOUS
<1>1. /\ list = [pc |-> "find", continue |-> Nowhere, page |-> {}]
      /\ shown = [i \in Items |-> 0] /\ Shown = {}
      /\ kept = present /\ ends = {} /\ restarted = FALSE
      /\ collection = "events" => \A i \in present : created[i] # 0
  BY DEF ListInit, Shown
<1>2. ListTypes
  <2>1. now \in Nat
    BY TimeAssumption DEF ListInit
  <2>2. created \in [Items -> Nat]
    BY <2>1 DEF ListInit
  <2>3. /\ list \in [pc : {"find", "count", "ask", "over", "stopped"},
                    continue : Items \cup {Nowhere}, page : SUBSET Items]
        /\ shown \in [Items -> 0..2]
    BY <1>1
  <2> QED BY <1>1, <2>1, <2>2, <2>3 DEF ListInit, ListTypes
<1> QED BY <1>1, <1>2
        DEF ListInv, Dated, PageAsked, ShownIsBehind, KeptIsAhead, Ahead, Beyond

(* The answer P to the query of a page leaves the invariant true if P lies *)
(* ahead of what was shown and what is not in P lies beyond it.            *)
LEMMA AnswerKeeps ==
  ASSUME ListInv, list.pc \in {"find", "count"},
         NEW P \in SUBSET Items, NEW remaining, Answer(P, remaining),
         restarted' \in BOOLEAN, restarted => restarted',
         collection = "events" => \A i \in P : created[i] # 0,
         restarted' \/ \A i \in P : Beyond(list.continue, i),
         \A i \in kept : \/ i \in Shown \/ i \in P
                         \/ \E e \in ends : Tied(e, i)
                         \/ /\ P # {}
                            /\ \/ Precedes(LastOf(P), i) /\ remaining # 0
                               \/ Tied(LastOf(P), i)
  PROVE  ListInv'
<1> USE DEF ListInv
<1>1. /\ UNCHANGED <<collection, present, created, now, kept>>
      /\ list' \in [pc : {"find", "count", "ask", "over", "stopped"},
                    continue : Items \cup {Nowhere}, page : SUBSET Items]
      /\ list'.page = P /\ list'.continue = list.continue
      /\ list'.pc = IF P = {} \/ remaining = 0 THEN "over" ELSE "ask"
  BY DEF Answer, storeVars, ListTypes
<1>2. /\ shown' \in [Items -> 0..2]
      /\ \A i \in Items : shown'[i] = IF i \in P /\ shown[i] < 2
                                      THEN shown[i] + 1 ELSE shown[i]
  BY DEF Answer, ListTypes
<1>3. Shown' = Shown \cup P
  BY <1>2 DEF Shown, ListTypes
<1>4. /\ P # {} => LastOf(P) \in P /\ LastOf(P) \in Items
                   /\ \A q \in P : ~Precedes(LastOf(P), q)
      /\ ends' = IF P = {} THEN ends ELSE ends \cup {LastOf(P)}
  BY LastOfPage DEF Answer
<1>5. /\ \A i, j \in Items : /\ Precedes(i, j)' <=> Precedes(i, j)
                             /\ Tied(i, j)' <=> Tied(i, j)
                             /\ Beyond(i, j)' <=> Beyond(i, j)
      /\ LastOf(list.page)' = LastOf(P)
  BY <1>1 DEF Precedes, Tied, Beyond, LastOf
<1>6. ListTypes'
  BY <1>1, <1>2, <1>4 DEF ListTypes
<1>7. Dated'
  BY <1>1, <1>3 DEF Dated
<1>8. PageAsked'
  BY <1>1, <1>3, <1>4 DEF PageAsked
<1>9. ShownIsBehind'
  <2> SUFFICES ASSUME ~restarted' PROVE ShownIsBehind'
    BY DEF ShownIsBehind
  <2>1. /\ \A i \in Items : shown[i] <= 1
        /\ \A i \in Shown : ~Beyond(list.continue, i)
        /\ \A i \in P : Beyond(list.continue, i)
    BY DEF ShownIsBehind, ListTypes
  <2>2. \A i \in Items : shown'[i] <= 1
    BY <1>2, <2>1 DEF Shown, ListTypes
  <2>3. ASSUME P # {}, NEW i \in Shown PROVE ~Precedes(LastOf(P), i)
    <3>1. i \in Items /\ LastOf(P) \in P /\ LastOf(P) \in Items
      BY <1>4, <2>3 DEF Shown
    <3>2. /\ list.continue \in Items /\ ~Precedes(list.continue, i)
          /\ Precedes(list.continue, LastOf(P))
      BY <2>1, <2>3, <3>1 DEF Beyond, ListTypes
    <3> QED BY <3>1, <3>2, PrecedesIsOrder
  <2>4. P # {} => \A i \in Shown' : ~Precedes(LastOf(list.page), i)'
    BY <1>3, <1>4, <1>5, <2>3 DEF Shown
  <2> QED BY <1>1, <1>5, <2>2, <2>4 DEF ShownIsBehind
<1>10. KeptIsAhead'
  <2> SUFFICES ASSUME NEW i \in kept, i \notin Shown', ~(\E e \in ends' : Tied(e, i)')
               PROVE  Ahead(i)'
    BY <1>1 DEF KeptIsAhead
  <2>1. i \in Items /\ ends \subseteq Items
    BY DEF ListTypes
  <2>2. P # {} /\ Precedes(LastOf(P), i) /\ remaining # 0
    BY <1>3, <1>4, <1>5, <2>1
  <2> QED BY <1>1, <1>4, <1>5, <2>1, <2>2 DEF Ahead
<1> QED BY <1>6, <1>7, <1>8, <1>9, <1>10

LEMMA FindKeeps ==
  ASSUME ListInv, NEW c \in Collections \ {"secrets"}, Find(c)
  PROVE  ListInv'
<1> USE DEF ListInv
<1>1. /\ collection = c /\ list.pc = "find" /\ UNCHANGED restarted
      /\ list.continue \in Items \cup {Nowhere}
  BY DEF Find, ListTypes
<1> DEFINE S == Following(list.continue)
<1>2. S = {i \in present : Beyond(list.continue, i)} /\ S \in SUBSET Items
  BY DEF Following, Beyond, ListTypes
<1>3. PICK P \in FirstOf(S) :
        IF Cardinality(P) = Limit
        THEN /\ list' = [list EXCEPT !.pc = "count", !.page = P]
             /\ UNCHANGED <<storeVars, pages, shown, ends>>
        ELSE Answer(P, 0)
  BY DEF Find
<1>4. /\ P \subseteq S /\ P \in SUBSET Items
      /\ P = {} \/ Cardinality(P) # Limit => P = S
      /\ P # {} => \A i \in S \ P : \/ Precedes(LastOf(P), i)
                                    \/ Tied(LastOf(P), i)
  BY <1>2, FirstPage
<1>5. collection = "events" => \A i \in P : created[i] # 0
  BY <1>2, <1>4 DEF Dated
<1>6. \A i \in kept : i \in Shown \/ (\E e \in ends : Tied(e, i)) \/ i \in S
  BY <1>1, <1>2 DEF KeptIsAhead, Ahead, ListTypes
<1>7. CASE Cardinality(P) # Limit
  <2>1. \A i \in P : Beyond(list.continue, i)
    BY <1>2, <1>4
  <2>2. Answer(P, 0) /\ P = S
    BY <1>3, <1>4, <1>7
  <2>3. restarted' \in BOOLEAN
    BY <1>1 DEF ListTypes
  <2> HIDE DEF S
  <2> QED BY <1>1, <1>4, <1>5, <1>6, <2>1, <2>2, <2>3, AnswerKeeps
<1>8. CASE Cardinality(P) = Limit
  <2>1. /\ P # {}
        /\ UNCHANGED <<collection, present, created, now, kept, shown, ends, restarted>>
        /\ list' = [pc |-> "count", continue |-> list.continue, page |-> P]
    BY <1>1, <1>3, <1>8, FS_EmptySet, LimitAssumption DEF storeVars, ListTypes
  <2>2. /\ \A i, j : /\ Precedes(i, j)' <=> Precedes(i, j)
                     /\ Tied(i, j)' <=> Tied(i, j)
                     /\ Beyond(i, j)' <=> Beyond(i, j)
        /\ LastOf(list.page)' = LastOf(P) /\ Shown' = Shown
    BY <2>1 DEF Precedes, Tied, Beyond, LastOf, Shown
  <2>3. ListTypes'
    BY <1>4, <2>1 DEF ListTypes
  <2>4. Dated'
    BY <1>5, <2>1, <2>2 DEF Dated
  <2>5. PageAsked'
    BY <1>1, <1>2, <1>4, <2>1, <2>2 DEF PageAsked
  <2>6. ShownIsBehind'
    BY <1>1, <2>1, <2>2 DEF ShownIsBehind
  <2>7. KeptIsAhead'
    BY <1>4, <1>6, <2>1, <2>2 DEF KeptIsAhead, Ahead
  <2> QED BY <2>3, <2>4, <2>5, <2>6, <2>7
<1> QED BY <1>7, <1>8

LEMMA CountKeeps ==
  ASSUME ListInv, CountRemaining
  PROVE  ListInv'
<1> USE DEF ListInv
<1>1. PICK P \in SUBSET Items : P = list.page
  BY DEF ListTypes
<1>2. /\ list.pc = "count" /\ UNCHANGED restarted /\ P # {}
      /\ \A i \in P : Beyond(list.continue, i)
      /\ collection = "events" => \A i \in P : created[i] # 0
  BY <1>1 DEF CountRemaining, PageAsked, Dated
<1>3. PICK n : Answer(P, n) /\ n = Cardinality(Following(LastOf(P)))
  BY <1>1 DEF CountRemaining
<1>4. LastOf(P) \in Items
  BY <1>2, LastOfPage
<1>5. ASSUME NEW i \in kept, Precedes(LastOf(P), i) PROVE n # 0
  <2>1. i \in Following(LastOf(P)) /\ Following(LastOf(P)) \in SUBSET Items
    BY <1>4, <1>5, ItemsAssumption DEF Following, ListTypes
  <2> QED BY <1>3, <2>1, ItemsAssumption, FS_Subset, FS_EmptySet
<1>6. \A i \in kept : \/ i \in Shown \/ i \in P
                      \/ \E e \in ends : Tied(e, i)
                      \/ Precedes(LastOf(P), i) \/ Tied(LastOf(P), i)
  BY <1>1, <1>2 DEF KeptIsAhead, Ahead
<1>7. restarted' \in BOOLEAN
  BY <1>2 DEF ListTypes
<1> QED BY <1>2, <1>3, <1>5, <1>6, <1>7, AnswerKeeps

(* Secrets begin anew if the key that the page before ended with is gone.  *)
LEMMA ListSecretsKeeps ==
  ASSUME ListInv, ListSecrets
  PROVE  ListInv'
<1> USE DEF ListInv
<1> DEFINE c == list.continue
           rest == IF c \in present THEN Following(c) ELSE present
<1>1. /\ collection = "secrets" /\ list.pc = "find" /\ rest \in SUBSET Items
      /\ c \in Items \cup {Nowhere} /\ restarted \in BOOLEAN
      /\ restarted' = (restarted \/ (c # Nowhere /\ c \notin present))
  BY DEF ListSecrets, Following, ListTypes
<1>2. PICK P \in FirstOf(rest) : Answer(P, Cardinality(rest) - Cardinality(P))
  BY DEF ListSecrets
<1>3. /\ P \subseteq rest /\ P \in SUBSET Items
      /\ P = {} => P = rest
      /\ P # {} => \A i \in rest \ P : Precedes(LastOf(P), i)
  BY <1>1, FirstPage DEF Tied
<1>4. restarted' \/ \A i \in P : Beyond(c, i)
  BY <1>1, <1>3 DEF Following, Beyond
<1>5. P # rest => Cardinality(rest) - Cardinality(P) # 0
  <2>1. /\ IsFiniteSet(rest) /\ IsFiniteSet(P)
        /\ Cardinality(rest) \in Nat /\ Cardinality(P) \in Nat
    BY <1>1, <1>3, ItemsAssumption, FS_Subset, FS_CardinalityType
  <2>2. P # rest => Cardinality(rest) # Cardinality(P)
    BY <1>3, <2>1, FS_Subset
  <2> QED BY <2>1, <2>2
<1>6. \A i \in kept : i \in Shown \/ i \in rest
  BY <1>1 DEF KeptIsAhead, Ahead, Following, Beyond, Tied, ListTypes
<1> HIDE DEF rest
<1> QED BY <1>1, <1>2, <1>3, <1>4, <1>5, <1>6, AnswerKeeps

LEMMA ContinueKeeps ==
  ASSUME ListInv, NEW c \in Collections, Continue(c)
  PROVE  ListInv'
<1> USE DEF ListInv
<1>1. PICK P \in SUBSET Items : P = list.page
  BY DEF ListTypes
<1>2. /\ list.pc = "ask" /\ P # {} /\ P \subseteq Shown
      /\ list' = [pc |-> "find", continue |-> LastOf(P), page |-> {}]
      /\ UNCHANGED <<collection, present, created, now, kept, shown, ends, restarted>>
  BY <1>1 DEF Continue, storeVars, PageAsked
<1>3. LastOf(P) \in Items /\ LastOf(P) \in P
  BY <1>2, LastOfPage
<1>4. /\ \A i, j : /\ Precedes(i, j)' <=> Precedes(i, j)
                   /\ Tied(i, j)' <=> Tied(i, j)
                   /\ Beyond(i, j)' <=> Beyond(i, j)
      /\ Shown' = Shown /\ LastOf(P) # Nowhere
  BY <1>2, <1>3, ItemsAssumption DEF Precedes, Tied, Beyond, Shown
<1>5. ListTypes'
  BY <1>2, <1>3 DEF ListTypes
<1>6. Dated'
  BY <1>2, <1>4 DEF Dated
<1>7. PageAsked'
  BY <1>2, <1>3, <1>4 DEF PageAsked
<1>8. ShownIsBehind'
  <2>1. restarted \/ \A i \in Shown : ~Beyond(LastOf(P), i)
    BY <1>1, <1>2, <1>4 DEF ShownIsBehind, Beyond
  <2> QED BY <1>2, <1>4, <2>1 DEF ShownIsBehind
<1>9. KeptIsAhead'
  <2>1. \A i \in kept : \/ i \in Shown \/ \E e \in ends : Tied(e, i)
                        \/ Beyond(LastOf(P), i)
    BY <1>1, <1>2 DEF KeptIsAhead, Ahead, Beyond
  <2> QED BY <1>2, <1>4, <2>1 DEF KeptIsAhead, Ahead
<1> QED BY <1>5, <1>6, <1>7, <1>8, <1>9

LEMMA StopKeeps ==
  ASSUME ListInv, Stop
  PROVE  ListInv'
<1> USE DEF ListInv
<1>1. /\ list' = [pc |-> "stopped", continue |-> list.continue, page |-> list.page]
      /\ UNCHANGED <<collection, present, created, now, kept, shown, ends, restarted>>
  BY DEF Stop, storeVars, ListTypes
<1>2. /\ ListTypes' /\ Shown' = Shown
      /\ \A i, j : Tied(i, j)' <=> Tied(i, j)
  BY <1>1 DEF ListTypes, Shown, Tied
<1>3. Dated' /\ PageAsked'
  BY <1>1, <1>2 DEF Dated, PageAsked
<1>4. ShownIsBehind'
  BY <1>1, <1>2 DEF ShownIsBehind
<1>5. KeptIsAhead'
  BY <1>1, <1>2 DEF KeptIsAhead, Ahead
<1> QED BY <1>2, <1>3, <1>4, <1>5

(* Whatever others do, they leave the order of what the command has come   *)
(* across alone, and what they add was not there all the time.             *)
LEMMA OthersKeep ==
  ASSUME ListInv, Others
  PROVE  ListInv'
<1> USE DEF ListInv
<1> DEFINE Elsewhere ==
      /\ UNCHANGED <<collection, list, shown, ends, restarted>>
      /\ present' \subseteq Items /\ kept' \subseteq present' /\ kept' \subseteq kept
      /\ created' \in [Items -> Nat] /\ now' \in Nat
      /\ \A i \in Items : created'[i] = created[i]
                          \/ (collection = "events" /\ created[i] = 0)
      /\ collection = "events" => \A i \in present' : created'[i] # 0
<1>1. Elsewhere
  <2> USE DEF ListTypes, Dated
  <2>1. ASSUME NEW i \in Items, Appears(i), UNCHANGED created,
               collection = "events" => created[i] # 0
        PROVE  Elsewhere
    BY <2>1 DEF Appears, clientVars
  <2>2. ASSUME NEW i \in Items, Disappears(i) PROVE Elsewhere
    BY <2>2 DEF Disappears, clientVars
  <2>3. ASSUME NEW i \in Items, CreateEvent(i) PROVE Elsewhere
    <3>1. PICK t \in 1..now : created' = [created EXCEPT ![i] = t]
      BY <2>3 DEF CreateEvent
    <3>2. t \in Nat /\ t # 0
      OBVIOUS
    <3>3. created' \in [Items -> Nat] /\ created'[i] # 0
      BY <3>1, <3>2
    <3>4. /\ collection = "events" /\ created[i] = 0
          /\ \A j \in Items \ {i} : created'[j] = created[j]
      BY <2>3, <3>1 DEF CreateEvent
    <3> QED BY <2>3, <3>3, <3>4 DEF CreateEvent, Appears, clientVars
  <2>4. TimePasses => Elsewhere
    BY DEF TimePasses, clientVars
  <2> QED BY <2>1, <2>2, <2>3, <2>4
          DEF Others, CreateUser, CreateServiceAccount, CreateProject, DeleteProject,
              EventLeaves, EventEnters, SetSecret, UnsetSecret
<1>2. PICK P \in SUBSET Items : P = list.page
  BY DEF ListTypes
<1> DEFINE Known == kept \cup P \cup Shown
<1>3. /\ Known \subseteq Items /\ Shown' = Shown /\ ends \subseteq Known
      /\ \A i \in Known : created'[i] = created[i]
      /\ list.continue \in Known \cup {Nowhere}
  BY <1>1, <1>2 DEF Dated, Shown, ListTypes, PageAsked
<1>4. \A i, j \in Known : /\ Precedes(i, j)' <=> Precedes(i, j)
                          /\ Tied(i, j)' <=> Tied(i, j)
  BY <1>1, <1>3 DEF Precedes, Tied
<1>5. P # {} => LastOf(P)' = LastOf(P) /\ LastOf(P) \in Known
  <2>1. \A p, q \in P : Precedes(p, q)' <=> Precedes(p, q)
    BY <1>4
  <2>2. LastOf(P)' = LastOf(P)
    BY <2>1 DEF LastOf
  <2> QED BY <2>2, LastOfPage
<1>6. \A j \in Known : Beyond(list.continue, j)' <=> Beyond(list.continue, j)
  BY <1>1, <1>3, <1>4 DEF Beyond
<1>7. list.pc \in {"count", "ask"} => LastOf(list.page)' = LastOf(P) /\ P # {}
  BY <1>1, <1>2, <1>5 DEF PageAsked
<1>8. ListTypes'
  BY <1>1 DEF ListTypes
<1>9. Dated'
  BY <1>1, <1>2, <1>3 DEF Dated
<1>10. PageAsked'
  BY <1>1, <1>2, <1>3, <1>6 DEF PageAsked
<1>11. ShownIsBehind'
  BY <1>1, <1>2, <1>3, <1>4, <1>5, <1>6, <1>7 DEF ShownIsBehind
<1>12. KeptIsAhead'
  BY <1>1, <1>2, <1>3, <1>4, <1>5, <1>6, <1>7 DEF KeptIsAhead, Ahead
<1> QED BY <1>8, <1>9, <1>10, <1>11, <1>12

LEMMA NextListInv == ListInv /\ [ListNext]_listVars => ListInv'
<1> SUFFICES ASSUME ListInv, [ListNext]_listVars PROVE ListInv'
  OBVIOUS
<1>1. ASSUME Fetch PROVE ListInv'
  BY <1>1, FindKeeps, CountKeeps, ListSecretsKeeps
     DEF Fetch, FindUsers, FindServiceAccounts, FindProjects, FindEvents,
         Collections, ById
<1>2. ASSUME GoOn PROVE ListInv'
  BY <1>2, ContinueKeeps
     DEF GoOn, userList, serviceAccountList, projectList, eventList, secretsList,
         Collections, ById
<1>3. CASE UNCHANGED listVars
  <2>1. UNCHANGED <<collection, present, created, now, list, pages, shown, kept,
                    ends, restarted>>
    BY <1>3 DEF listVars, storeVars, clientVars
  <2>2. /\ \A i, j : /\ Precedes(i, j)' <=> Precedes(i, j)
                     /\ Tied(i, j)' <=> Tied(i, j)
                     /\ Beyond(i, j)' <=> Beyond(i, j)
        /\ LastOf(list.page)' = LastOf(list.page) /\ Shown' = Shown
    BY <2>1 DEF Precedes, Tied, Beyond, LastOf, Shown
  <2>3. ListTypes' /\ Dated' /\ PageAsked'
    BY <2>1, <2>2 DEF ListInv, ListTypes, Dated, PageAsked
  <2>4. ShownIsBehind' /\ KeptIsAhead'
    BY <2>1, <2>2 DEF ListInv, ShownIsBehind, KeptIsAhead, Ahead
  <2> QED BY <2>3, <2>4 DEF ListInv
<1> QED BY <1>1, <1>2, <1>3, StopKeeps, OthersKeep DEF ListNext

(* Nothing is listed twice, however the collection changes between pages,  *)
(* unless a list of secrets began again.                                   *)
THEOREM NothingTwice == Spec => []NothingShownTwice
<1>1. ListInv => NothingShownTwice
  BY DEF ListInv, ShownIsBehind, NothingShownTwice
<1>2. Init => ListInit
  BY DEF Init
<1>3. [Next]_vars => [ListNext]_listVars
  BY DEF Next, ListCommand, logs, vars
<1> QED BY <1>1, <1>2, <1>3, InitListInv, NextListInv, PTL DEF Spec

(* A list that ran to its end has shown what was there all the time, except*)
(* for events created at the very time of the last event of a page.        *)
THEOREM NothingForgotten == Spec => []NothingLeftOut
<1>1. ListInv => NothingLeftOut
  BY DEF ListInv, ListTypes, KeptIsAhead, Ahead, Tied, Shown, NothingLeftOut
<1>2. Init => ListInit
  BY DEF Init
<1>3. [Next]_vars => [ListNext]_listVars
  BY DEF Next, ListCommand, logs, vars
<1> QED BY <1>1, <1>2, <1>3, InitListInv, NextListInv, PTL DEF Spec
=============================================================================
