---------------------------- MODULE SchedulerProofs ----------------------------
(***************************************************************************)
(* Theorems about the scheduler, for any projects, events, page size,      *)
(* number of crashes and capacity.  First, what its loops promise, which   *)
(* is stated of WorkerLoops on its own; then, that with failing calls,     *)
(* redeliveries and restarts the loops are the environment that            *)
(* WorkerCapacity assumes, so that what is proved of WorkerCapacity holds  *)
(* of the scheduler.                                                       *)
(***************************************************************************)
EXTENDS Scheduler, TLAPS

-----------------------------------------------------------------------------
(* LoopsTypeOK is inductive on its own, but for what a loop holds: an event*)
(* from the time it is read until it is accepted.                          *)

Holding == {"checking", "waiting", "starting", "acking"}

WellHeld(l) ==
  /\ l.pc = "off" => l = Off
  /\ l.pc = "reading" => l.msg = NoEvent /\ ~l.own
  /\ l.pc \in Holding => l.msg \in Events

MessagesHeld == \A p \in Projects : WellHeld(loop[p])

LoopsInv == LoopsTypeOK /\ MessagesHeld

(* What the actions of a loop do to its record keeps it well formed.       *)
LEMMA LoopRecords == Off \in Loop /\ Reading \in Loop
BY DEF Loop, Off, Reading

LEMMA LoopMoves ==
  ASSUME NEW l \in Loop, NEW step \in Holding
  PROVE  LET m == [l EXCEPT !.pc = step]
         IN  m \in Loop /\ m.pc = step /\ m.msg = l.msg /\ m.own = l.own
             /\ m.live = l.live
BY DEF Loop, Holding

LEMMA LoopReads ==
  ASSUME NEW l \in Loop, NEW e \in Events
  PROVE  LET m == [l EXCEPT !.pc = "checking", !.msg = e, !.own = TRUE]
         IN  m \in Loop /\ m.pc = "checking" /\ m.msg = e /\ m.own
BY DEF Loop

LEMMA LoopAccepts ==
  ASSUME NEW l \in Loop
  PROVE  LET m == [l EXCEPT !.pc = "reading", !.msg = NoEvent, !.own = FALSE]
         IN  m \in Loop /\ m.pc = "reading" /\ m.msg = NoEvent /\ ~m.own
BY DEF Loop

LEMMA LoopDisowns ==
  ASSUME NEW l \in Loop
  PROVE  LET m == [l EXCEPT !.own = FALSE]
         IN  m \in Loop /\ m.pc = l.pc /\ m.msg = l.msg /\ ~m.own
BY DEF Loop

LEMMA LoopIsRecord ==
  ASSUME NEW l \in Loop
  PROVE  l = [pc |-> l.pc, msg |-> l.msg, own |-> l.own, live |-> l.live]
BY DEF Loop

LEMMA LoopStops ==
  ASSUME NEW l \in Loop
  PROVE  LET m == [l EXCEPT !.live = FALSE]
         IN  m \in Loop /\ m.pc = l.pc /\ m.msg = l.msg /\ m.own = l.own
             /\ (l = Off => m = Off)
<1> DEFINE m == [l EXCEPT !.live = FALSE]
<1>1. m \in Loop /\ m.pc = l.pc /\ m.msg = l.msg /\ m.own = l.own /\ ~m.live
  BY DEF Loop
<1>2. CASE l = Off
  <2> HIDE DEF m
  <2>1. m = [pc |-> m.pc, msg |-> m.msg, own |-> m.own, live |-> m.live]
    BY <1>1, LoopIsRecord
  <2>2. m.pc = "off" /\ m.msg = NoEvent /\ m.own = FALSE /\ m.live = FALSE
    BY <1>1, <1>2 DEF Off, Loop
  <2>3. m = Off
    BY <2>1, <2>2 DEF Off
  <2> QED BY <1>1, <2>3 DEF m
<1> QED BY <1>1, <1>2

LEMMA StoppedLoop ==
  ASSUME NEW l \in Loop, WellHeld(l)
  PROVE  WellHeld([l EXCEPT !.live = FALSE])
BY LoopStops DEF WellHeld

LEMMA FirstPageType ==
  ASSUME LoopsTypeOK PROVE FirstPage \subseteq Projects
BY DEF FirstPage, LoopsTypeOK

(* Only messages that a loop holds go back to the broker.                  *)
LEMMA UnacceptedType ==
  ASSUME LoopsInv, NEW P \in SUBSET Projects
  PROVE  Unaccepted(P) \subseteq Events
<1> SUFFICES ASSUME NEW p \in P, loop[p].own PROVE loop[p].msg \in Events
  BY DEF Unaccepted
<1>1. loop[p].pc \in Holding \/ loop[p].pc = "off" \/ loop[p].pc = "reading"
  BY DEF LoopsInv, LoopsTypeOK, Loop, Holding
<1> QED BY <1>1 DEF LoopsInv, MessagesHeld, WellHeld, Off

LEMMA InitLoopsInv == InitLoops => LoopsInv
BY DEF InitLoops, LoopsInv, LoopsTypeOK, MessagesHeld, WellHeld, Loop, Off,
       Holding

(* The manager and the process.                                            *)
LEMMA ProcessLoopsInv ==
  ASSUME LoopsInv,
         ManageProjectLoops \/ Shutdown \/ ProcessEnds \/ ProcessStarts
  PROVE  LoopsInv'
<1>0. \A p \in Projects : loop[p] \in Loop
  BY DEF LoopsInv, LoopsTypeOK
<1>1. CASE ManageProjectLoops
  <2>1. \A p \in Projects : loop'[p] = Reading \/ loop'[p] = loop[p]
                            \/ loop'[p] = [loop[p] EXCEPT !.live = FALSE]
    BY <1>1 DEF ManageProjectLoops
  <2>2. loop' \in [Projects -> Loop]
    BY <1>0, <1>1, <2>1, LoopRecords, LoopStops DEF ManageProjectLoops
  <2>3. WellHeld(Reading)
    BY DEF WellHeld, Reading, Holding
  <2>4. MessagesHeld'
    BY <1>0, <2>1, <2>3, StoppedLoop DEF LoopsInv, MessagesHeld
  <2> QED BY <1>1, <2>2, <2>4, FirstPageType
          DEF ManageProjectLoops, LoopsInv, LoopsTypeOK, apiVars
<1>2. CASE Shutdown
  <2>1. \A p \in Projects : loop'[p] = [loop[p] EXCEPT !.live = FALSE]
    BY <1>2 DEF Shutdown
  <2>2. loop' \in [Projects -> Loop]
    BY <1>0, <1>2, <2>1, LoopStops DEF Shutdown
  <2>3. MessagesHeld'
    BY <1>0, <2>1, StoppedLoop DEF LoopsInv, MessagesHeld
  <2> QED BY <1>2, <2>2, <2>3 DEF Shutdown, LoopsInv, LoopsTypeOK, apiVars
<1>3. CASE ProcessEnds
  <2>1. loop' \in [Projects -> Loop] /\ MessagesHeld'
    BY <1>3 DEF ProcessEnds, MessagesHeld, WellHeld, Loop, Off, Holding
  <2>2. Unaccepted(Projects) \subseteq Events
    BY UnacceptedType
  <2>3. {loop[p].msg : p \in {q \in Projects : loop[q].pc = "starting"}}
          \subseteq Events
    BY DEF LoopsInv, MessagesHeld, WellHeld, Holding
  <2> QED BY <1>3, <2>1, <2>2, <2>3 DEF ProcessEnds, LoopsInv, LoopsTypeOK
<1>4. CASE ProcessStarts
  BY <1>4 DEF ProcessStarts, LoopsInv, LoopsTypeOK, MessagesHeld, apiVars
<1> QED BY <1>1, <1>2, <1>3, <1>4

(* A loop of a project.                                                    *)
LEMMA LoopLoopsInv ==
  ASSUME LoopsInv, NEW p \in Projects,
         LoopStep(p) \/ TakeSlot(p) \/ LoopFault(p)
  PROVE  LoopsInv'
<1>0. loop \in [Projects -> Loop] /\ loop[p] \in Loop
  BY DEF LoopsInv, LoopsTypeOK
<1>1. \E l \in Loop : loop' = [loop EXCEPT ![p] = l] /\ WellHeld(l)
  <2>1. ASSUME NEW e \in Events, ReadMessage(p, e)
        PROVE  \E l \in Loop : loop' = [loop EXCEPT ![p] = l] /\ WellHeld(l)
    <3> DEFINE l == [loop[p] EXCEPT !.pc = "checking", !.msg = e, !.own = TRUE]
    <3>1. l \in Loop /\ l.pc = "checking" /\ l.msg = e
      BY <1>0, LoopReads
    <3>2. loop' = [loop EXCEPT ![p] = l]
      BY <1>0, <2>1 DEF ReadMessage
    <3> QED BY <3>1, <3>2 DEF WellHeld, Holding
  <2>2. CASE StopReading(p) \/ StopWaiting(p)
    BY <1>0, <2>2, LoopRecords DEF StopReading, StopWaiting, WellHeld, Off, Holding
  <2>3. ASSUME Ack(p)
        PROVE  \E l \in Loop : loop' = [loop EXCEPT ![p] = l] /\ WellHeld(l)
    <3> DEFINE l == [loop[p] EXCEPT !.pc = "reading", !.msg = NoEvent, !.own = FALSE]
    <3>1. l \in Loop /\ l.pc = "reading" /\ l.msg = NoEvent /\ ~l.own
      BY <1>0, LoopAccepts
    <3>2. loop' = [loop EXCEPT ![p] = l]
      BY <1>0, <2>3 DEF Ack
    <3> QED BY <3>1, <3>2 DEF WellHeld, Holding
  <2>4. ASSUME NEW step \in {"waiting", "starting", "acking"}, Goto(p, step),
               loop[p].pc \in Holding
        PROVE  \E l \in Loop : loop' = [loop EXCEPT ![p] = l] /\ WellHeld(l)
    <3> DEFINE l == [loop[p] EXCEPT !.pc = step]
    <3>0. step \in Holding
      BY DEF Holding
    <3>1. l \in Loop /\ l.pc = step /\ l.msg = loop[p].msg
      BY <1>0, <3>0, LoopMoves
    <3>2. loop' = [loop EXCEPT ![p] = l]
      BY <1>0, <2>4 DEF Goto
    <3> QED BY <2>4, <3>1, <3>2 DEF LoopsInv, MessagesHeld, WellHeld, Holding
  <2>5. CASE LinkLost(p)
    <3> DEFINE l == [loop[p] EXCEPT !.own = FALSE]
    <3>1. l \in Loop /\ l.pc = loop[p].pc /\ l.msg = loop[p].msg /\ ~l.own
      BY <1>0, LoopDisowns
    <3>2. loop' = [loop EXCEPT ![p] = l]
      BY <1>0, <2>5 DEF LinkLost
    <3>3. loop[p].own /\ loop[p] # Off
      BY <2>5 DEF LinkLost, Off
    <3> QED BY <3>1, <3>2, <3>3 DEF LoopsInv, MessagesHeld, WellHeld
  <2>6. CASE CheckPhase(p)
    BY <2>3, <2>4, <2>6 DEF CheckPhase, Holding
  <2>7. CASE CheckFails(p) \/ AckMessage(p)
    BY <2>3, <2>7 DEF CheckFails, AckMessage
  <2>8. CASE TakeSlot(p) \/ StartWorker(p) \/ StartFails(p)
    BY <2>4, <2>8 DEF TakeSlot, StartWorker, StartFails, Holding
  <2> QED BY <2>1, <2>2, <2>5, <2>6, <2>7, <2>8 DEF LoopStep, LoopFault
<1>2. loop' \in [Projects -> Loop] /\ MessagesHeld'
  BY <1>0, <1>1 DEF MessagesHeld, LoopsInv
<1>3. Unaccepted({p}) \subseteq Events
  BY UnacceptedType
<1>4. loop[p].pc \in {"checking", "starting"} => loop[p].msg \in Events
  BY DEF LoopsInv, MessagesHeld, WellHeld, Holding
<1>5. LoopsTypeOK'
  <2> USE <1>2 DEF LoopsInv, LoopsTypeOK, apiVars
  <2>1. ASSUME NEW e \in Events, ReadMessage(p, e) PROVE LoopsTypeOK'
    BY <2>1 DEF ReadMessage
  <2>2. CASE StopReading(p) \/ CheckPhase(p) \/ TakeSlot(p) \/ AckMessage(p)
    BY <2>2 DEF StopReading, CheckPhase, TakeSlot, AckMessage
  <2>3. CASE StopWaiting(p) \/ LinkLost(p)
    BY <1>3, <2>3 DEF StopWaiting, LinkLost
  <2>4. CASE StartWorker(p)
    BY <1>4, <2>4 DEF StartWorker
  <2>5. CASE CheckFails(p) \/ StartFails(p)
    BY <1>4, <2>5 DEF CheckFails, StartFails
  <2> QED BY <2>1, <2>2, <2>3, <2>4, <2>5 DEF LoopStep, LoopFault
<1> QED BY <1>2, <1>5 DEF LoopsInv

(* The API server.                                                         *)
LEMMA ApiLoopsInv ==
  ASSUME LoopsInv,
         \/ \E p \in Projects : ProjectChanges(p)
         \/ \E e \in Events : Publish(e) \/ NoLongerPending(e) \/ OrphanedStart(e)
  PROVE  LoopsInv'
<1>1. UNCHANGED loop
  BY DEF ProjectChanges, Publish, NoLongerPending, OrphanedStart
<1>2. LoopsTypeOK'
  <2> USE <1>1 DEF LoopsInv, LoopsTypeOK
  <2>1. ASSUME NEW p \in Projects, ProjectChanges(p) PROVE LoopsTypeOK'
    BY <2>1 DEF ProjectChanges
  <2>2. ASSUME NEW e \in Events, Publish(e) \/ NoLongerPending(e)
        PROVE  LoopsTypeOK'
    BY <2>2 DEF Publish, NoLongerPending
  <2>3. ASSUME NEW e \in Events, OrphanedStart(e) PROVE LoopsTypeOK'
    BY <2>3 DEF OrphanedStart
  <2> QED BY <2>1, <2>2, <2>3
<1> QED BY <1>1, <1>2 DEF LoopsInv, MessagesHeld

LEMMA NextLoopsInv == LoopsInv /\ [NextLoops]_loopVars => LoopsInv'
<1>1. LoopsInv /\ NextLoops => LoopsInv'
  BY ProcessLoopsInv, LoopLoopsInv, ApiLoopsInv DEF NextLoops
<1>2. LoopsInv /\ UNCHANGED loopVars => LoopsInv'
  BY DEF loopVars, apiVars, LoopsInv, LoopsTypeOK, MessagesHeld
<1> QED BY <1>1, <1>2

(* Type correctness of the loops' specification.                           *)
THEOREM LoopsTypeCorrect == LoopsSpec => []LoopsTypeOK
<1>1. LoopsInv => LoopsTypeOK
  BY DEF LoopsInv
<1> QED BY <1>1, InitLoopsInv, NextLoopsInv, PTL DEF LoopsSpec

LEMMA LoopsInvariant == LoopsSpec => []LoopsInv
BY InitLoopsInv, NextLoopsInv, PTL DEF LoopsSpec

-----------------------------------------------------------------------------
(* NothingLost.  A loop accepts a message when the event needs no more from*)
(* it, and only messages of published events are about, so that an event   *)
(* whose message is accepted cannot become PENDING afterwards.             *)

Settled(e) == e \in started \cup refused \/ e \notin pending

HeldByLoop(e) == \E p \in Projects : loop[p].msg = e /\ loop[p].own

AcceptedWhenSettled ==
  /\ ready \subseteq published
  /\ \A p \in Projects : loop[p].pc \in Holding => loop[p].msg \in published
  /\ \A p \in Projects : loop[p].pc = "acking" => Settled(loop[p].msg)

Delivered == \A e \in published : e \in ready \/ HeldByLoop(e) \/ Settled(e)

DeliveryInv == AcceptedWhenSettled /\ Delivered

(* What is settled stays settled, as events are published once.            *)
LEMMA SettledStays ==
  ASSUME LoopsInv, NextLoops, NEW e \in published, Settled(e)
  PROVE  e \in published' /\ Settled(e)'
<1> USE DEF Settled, apiVars
<1>1. CASE ManageProjectLoops \/ Shutdown \/ ProcessEnds \/ ProcessStarts
  BY <1>1 DEF ManageProjectLoops, Shutdown, ProcessEnds, ProcessStarts
<1>2. ASSUME NEW p \in Projects, LoopStep(p) \/ TakeSlot(p) \/ LoopFault(p)
      PROVE  e \in published' /\ Settled(e)'
  BY <1>2 DEF LoopStep, LoopFault, ReadMessage, StopReading, CheckPhase,
              StopWaiting, StartWorker, AckMessage, TakeSlot, CheckFails,
              StartFails, LinkLost
<1>3. ASSUME NEW p \in Projects, ProjectChanges(p)
      PROVE  e \in published' /\ Settled(e)'
  BY <1>3 DEF ProjectChanges
<1>4. ASSUME NEW d \in Events, Publish(d) \/ NoLongerPending(d) \/ OrphanedStart(d)
      PROVE  e \in published' /\ Settled(e)'
  BY <1>4 DEF Publish, NoLongerPending, OrphanedStart
<1> QED BY <1>1, <1>2, <1>3, <1>4 DEF NextLoops

(* A loop that owns a delivery holds a message.                            *)
LEMMA OwnIsHolding ==
  ASSUME LoopsInv, NEW p \in Projects, loop[p].own
  PROVE  loop[p].pc \in Holding
BY DEF LoopsInv, LoopsTypeOK, MessagesHeld, WellHeld, Loop, Off, Holding

(* What the broker takes back was published.                               *)
LEMMA UnacceptedPublished ==
  ASSUME LoopsInv, AcceptedWhenSettled, NEW P \in SUBSET Projects
  PROVE  Unaccepted(P) \subseteq published
BY OwnIsHolding DEF Unaccepted, AcceptedWhenSettled

LEMMA InitDeliveryInv == InitLoops => DeliveryInv
BY DEF InitLoops, DeliveryInv, AcceptedWhenSettled, Delivered, Off, Holding

(* A step of one loop: its record is another, everything else stays, and   *)
(* an event that it gives up is settled or back with the broker.           *)
LEMMA OneLoopDelivery ==
  ASSUME LoopsInv, LoopsInv', DeliveryInv, NextLoops,
         NEW p \in Projects, NEW l \in Loop,
         loop' = [loop EXCEPT ![p] = l], published' = published,
         ready' \subseteq published,
         l.pc \in Holding => l.msg \in published,
         l.pc = "acking" => Settled(l.msg)',
         \A e \in ready : e \in ready' \/ (l.msg = e /\ l.own),
         \A e \in published : loop[p].own /\ loop[p].msg = e =>
           (l.own /\ l.msg = e) \/ e \in ready' \/ Settled(e)'
  PROVE  DeliveryInv'
<1>1. loop'[p] = l /\ \A q \in Projects \ {p} : loop'[q] = loop[q]
  BY DEF LoopsInv, LoopsTypeOK
<1>2. AcceptedWhenSettled'
  <2>1. ASSUME NEW q \in Projects, loop'[q].pc \in Holding
        PROVE  loop'[q].msg \in published'
    BY <1>1, <2>1 DEF DeliveryInv, AcceptedWhenSettled
  <2>2. ASSUME NEW q \in Projects, loop'[q].pc = "acking"
        PROVE  Settled(loop[q].msg)'
    <3>1. CASE q = p
      BY <1>1, <2>2, <3>1
    <3>2. CASE q # p
      <4>1. loop[q].msg \in published /\ Settled(loop[q].msg)
        BY <1>1, <2>2, <3>2 DEF DeliveryInv, AcceptedWhenSettled, Holding
      <4> QED BY <1>1, <3>2, <4>1, SettledStays
    <3> QED BY <3>1, <3>2
  <2> QED BY <2>1, <2>2 DEF AcceptedWhenSettled
<1>3. ASSUME NEW e \in published
      PROVE  e \in ready' \/ HeldByLoop(e)' \/ Settled(e)'
  <2>1. CASE e \in ready
    BY <1>1, <2>1 DEF HeldByLoop
  <2>2. CASE HeldByLoop(e)
    <3>1. PICK q \in Projects : loop[q].msg = e /\ loop[q].own
      BY <2>2 DEF HeldByLoop
    <3>2. CASE q = p
      BY <1>1, <3>1, <3>2 DEF HeldByLoop
    <3>3. CASE q # p
      BY <1>1, <3>1, <3>3 DEF HeldByLoop
    <3> QED BY <3>2, <3>3
  <2>3. CASE Settled(e)
    BY <2>3, SettledStays
  <2> QED BY <2>1, <2>2, <2>3 DEF DeliveryInv, Delivered
<1> QED BY <1>2, <1>3 DEF DeliveryInv, Delivered

(* The record that each step of a loop leaves behind.                      *)
LEMMA LoopDelivery ==
  ASSUME LoopsInv, LoopsInv', DeliveryInv, NextLoops, NEW p \in Projects,
         LoopStep(p) \/ TakeSlot(p) \/ LoopFault(p)
  PROVE  DeliveryInv'
<1>0. loop \in [Projects -> Loop] /\ loop[p] \in Loop
  BY DEF LoopsInv, LoopsTypeOK
<1>1. /\ ready \subseteq published
      /\ loop[p].pc \in Holding => loop[p].msg \in published
      /\ loop[p].pc = "acking" => Settled(loop[p].msg)
  BY DEF DeliveryInv, AcceptedWhenSettled
<1>2. ASSUME NEW e \in Events, ReadMessage(p, e) PROVE DeliveryInv'
  <2> DEFINE l == [loop[p] EXCEPT !.pc = "checking", !.msg = e, !.own = TRUE]
  <2>1. l \in Loop /\ l.pc = "checking" /\ l.msg = e /\ l.own
    BY <1>0, LoopReads
  <2>2. loop' = [loop EXCEPT ![p] = l]
    BY <1>0, <1>2 DEF ReadMessage
  <2>3. ~loop[p].own
    BY <1>2 DEF ReadMessage, LoopsInv, MessagesHeld, WellHeld
  <2>4. published' = published /\ e \in ready /\ ready' = ready \ {e}
    BY <1>2 DEF ReadMessage, apiVars
  <2> HIDE DEF l
  <2> QED BY <1>1, <2>1, <2>2, <2>3, <2>4, OneLoopDelivery DEF Holding
(* A message is accepted when its event is settled.                        *)
<1>3. ASSUME Ack(p), published' = published, ready' = ready,
             \A e \in published : loop[p].msg = e => Settled(e)'
      PROVE  DeliveryInv'
  <2> DEFINE l == [loop[p] EXCEPT !.pc = "reading", !.msg = NoEvent, !.own = FALSE]
  <2>1. l \in Loop /\ l.pc = "reading" /\ ~l.own
    BY <1>0, LoopAccepts
  <2>2. loop' = [loop EXCEPT ![p] = l]
    BY <1>0, <1>3 DEF Ack
  <2> HIDE DEF l
  <2> QED BY <1>1, <1>3, <2>1, <2>2, OneLoopDelivery DEF Holding
(* A loop keeps its message as it goes on.                                 *)
<1>4. ASSUME NEW step \in {"waiting", "starting", "acking"}, Goto(p, step),
             loop[p].pc \in Holding, published' = published, ready' = ready,
             step = "acking" => \A e \in published : loop[p].msg = e => Settled(e)'
      PROVE  DeliveryInv'
  <2> DEFINE l == [loop[p] EXCEPT !.pc = step]
  <2>0. step \in Holding
    BY DEF Holding
  <2>1. l \in Loop /\ l.pc = step /\ l.msg = loop[p].msg /\ l.own = loop[p].own
    BY <1>0, <2>0, LoopMoves
  <2>2. loop' = [loop EXCEPT ![p] = l]
    BY <1>0, <1>4 DEF Goto
  <2> HIDE DEF l
  <2> QED BY <1>1, <1>4, <2>1, <2>2, OneLoopDelivery DEF Holding
(* A loop that ends, or loses its link, leaves its message to the broker.  *)
<1>5. ASSUME NEW l \in Loop, loop' = [loop EXCEPT ![p] = l], ~l.own,
             published' = published, ready' = ready \cup Unaccepted({p}),
             l.pc \in Holding => loop[p].pc = l.pc /\ l.msg = loop[p].msg
      PROVE  DeliveryInv'
  <2>1. loop[p].own => loop[p].msg \in ready'
    BY <1>5 DEF Unaccepted
  <2>2. ready' \subseteq published
    BY <1>1, <1>5, UnacceptedPublished DEF DeliveryInv
  <2>3. l.pc = "acking" => Settled(l.msg)'
    BY <1>1, <1>5, SettledStays DEF Holding
  <2> QED BY <1>1, <1>5, <2>1, <2>2, <2>3, OneLoopDelivery
<1>6. CASE StopReading(p) \/ StopWaiting(p)
  <2>1. Off \in Loop /\ ~Off.own /\ Off.pc \notin Holding
    BY LoopRecords DEF Off, Holding
  <2>2. loop' = [loop EXCEPT ![p] = Off] /\ published' = published
    BY <1>6 DEF StopReading, StopWaiting, apiVars
  <2>3. CASE StopReading(p)
    <3>1. ~loop[p].own
      BY <2>3 DEF StopReading, LoopsInv, MessagesHeld, WellHeld
    <3>2. ready' = ready \cup Unaccepted({p})
      BY <2>3, <3>1 DEF StopReading, Unaccepted
    <3> QED BY <1>5, <2>1, <2>2, <3>2
  <2>4. CASE StopWaiting(p)
    BY <1>5, <2>1, <2>2, <2>4 DEF StopWaiting
  <2> QED BY <1>6, <2>3, <2>4
<1>7. CASE LinkLost(p)
  <2> DEFINE l == [loop[p] EXCEPT !.own = FALSE]
  <2>1. l \in Loop /\ l.pc = loop[p].pc /\ l.msg = loop[p].msg /\ ~l.own
    BY <1>0, LoopDisowns
  <2>2. loop' = [loop EXCEPT ![p] = l] /\ published' = published
    BY <1>0, <1>7 DEF LinkLost, apiVars
  <2>3. ready' = ready \cup Unaccepted({p})
    BY <1>7 DEF LinkLost
  <2> HIDE DEF l
  <2> QED BY <1>5, <2>1, <2>2, <2>3
<1>8. CASE CheckPhase(p)
  BY <1>3, <1>4, <1>8 DEF CheckPhase, Settled, apiVars, Holding
<1>9. CASE CheckFails(p)
  BY <1>3, <1>9 DEF CheckFails, Settled, apiVars
<1>10. CASE TakeSlot(p)
  BY <1>4, <1>10 DEF TakeSlot, apiVars, Holding
<1>11. CASE StartWorker(p)
  BY <1>4, <1>11 DEF StartWorker, Startable, Settled, Holding
<1>12. CASE StartFails(p)
  BY <1>4, <1>12 DEF StartFails, Settled, Holding
<1>13. CASE AckMessage(p)
  <2>1. \A e \in published : loop[p].msg = e => Settled(e)'
    BY <1>1, <1>13, SettledStays DEF AckMessage
  <2> QED BY <1>3, <1>13, <2>1 DEF AckMessage, apiVars
<1> QED BY <1>2, <1>6, <1>7, <1>8, <1>9, <1>10, <1>11, <1>12, <1>13
        DEF LoopStep, LoopFault

(* The manager and the process: no loop takes a message, and those of the  *)
(* process's loops go back.                                                *)
LEMMA ProcessDelivery ==
  ASSUME LoopsInv, DeliveryInv, NextLoops,
         ManageProjectLoops \/ Shutdown \/ ProcessEnds \/ ProcessStarts
  PROVE  DeliveryInv'
<1>0. \A p \in Projects : loop[p] \in Loop
  BY DEF LoopsInv, LoopsTypeOK
<1>1. CASE ManageProjectLoops \/ Shutdown \/ ProcessStarts
  <2>1. /\ ready' = ready /\ published' = published /\ pending' = pending
        /\ started' = started /\ refused' = refused
    BY <1>1 DEF ManageProjectLoops, Shutdown, ProcessStarts, apiVars
  <2>2. ASSUME NEW p \in Projects
        PROVE  \/ loop[p] = Off /\ loop'[p] = Reading
               \/ /\ loop'[p].pc = loop[p].pc /\ loop'[p].msg = loop[p].msg
                  /\ loop'[p].own = loop[p].own
    <3>1. \/ loop'[p] = loop[p]
          \/ loop'[p] = [loop[p] EXCEPT !.live = FALSE]
          \/ loop'[p] = Reading /\ loop[p].pc = "off"
      BY <1>1 DEF ManageProjectLoops, Shutdown, ProcessStarts
    <3> QED BY <1>0, <3>1, LoopStops DEF LoopsInv, MessagesHeld, WellHeld
  <2>3. ~Off.own /\ Reading.pc = "reading"
    BY DEF Off, Reading
  <2>4. ASSUME NEW p \in Projects, loop'[p].pc \in Holding
        PROVE  loop'[p].pc = loop[p].pc /\ loop'[p].msg = loop[p].msg
    BY <2>2, <2>3, <2>4 DEF Holding
  <2>5. AcceptedWhenSettled'
    BY <2>1, <2>4 DEF DeliveryInv, AcceptedWhenSettled, Settled, Holding
  <2>6. \A e \in published : HeldByLoop(e) => HeldByLoop(e)'
    BY <2>2, <2>3 DEF HeldByLoop
  <2>7. Delivered'
    BY <2>1, <2>6 DEF DeliveryInv, Delivered, Settled
  <2> QED BY <2>5, <2>7 DEF DeliveryInv
<1>2. CASE ProcessEnds
  <2>1. \A e \in published : HeldByLoop(e) => e \in ready'
    BY <1>2 DEF ProcessEnds, HeldByLoop, Unaccepted
  <2>2. ready' \subseteq published
    BY <1>2, UnacceptedPublished
       DEF ProcessEnds, DeliveryInv, AcceptedWhenSettled
  <2>3. \A p \in Projects : loop'[p].pc = "off"
    BY <1>2 DEF ProcessEnds, Off
  <2>4. AcceptedWhenSettled'
    BY <1>2, <2>2, <2>3 DEF ProcessEnds, AcceptedWhenSettled, Holding
  <2>5. Delivered'
    BY <1>2, <2>1, SettledStays DEF ProcessEnds, DeliveryInv, Delivered
  <2> QED BY <2>4, <2>5 DEF DeliveryInv
<1> QED BY <1>1, <1>2

(* The API server: a new event comes with its message.                     *)
LEMMA ApiDelivery ==
  ASSUME LoopsInv, DeliveryInv, NextLoops,
         \/ \E p \in Projects : ProjectChanges(p)
         \/ \E e \in Events : Publish(e) \/ NoLongerPending(e) \/ OrphanedStart(e)
  PROVE  DeliveryInv'
<1>1. UNCHANGED loop
  BY DEF ProjectChanges, Publish, NoLongerPending, OrphanedStart
<1>2. /\ published \subseteq published' /\ ready \subseteq ready'
      /\ \A e \in published' \ published : e \in ready'
      /\ ready' \subseteq published'
  BY DEF ProjectChanges, Publish, NoLongerPending, OrphanedStart, DeliveryInv,
         AcceptedWhenSettled
<1>3. \A e \in published : Settled(e) => Settled(e)'
  BY SettledStays
<1>4. AcceptedWhenSettled'
  <2>1. ASSUME NEW p \in Projects, loop[p].pc = "acking"
        PROVE  \A e \in published : loop[p].msg = e => Settled(e)'
    BY <1>3, <2>1 DEF DeliveryInv, AcceptedWhenSettled
  <2>2. ASSUME NEW p \in Projects, loop[p].pc = "acking"
        PROVE  Settled(loop[p].msg)'
    BY <1>1, <2>1, <2>2 DEF DeliveryInv, AcceptedWhenSettled, Holding, Settled
  <2> QED BY <1>1, <1>2, <2>2 DEF DeliveryInv, AcceptedWhenSettled
<1>5. Delivered'
  BY <1>1, <1>2, <1>3 DEF DeliveryInv, Delivered, HeldByLoop
<1> QED BY <1>4, <1>5 DEF DeliveryInv

LEMMA NextDeliveryInv ==
  LoopsInv /\ LoopsInv' /\ DeliveryInv /\ [NextLoops]_loopVars => DeliveryInv'
<1>1. LoopsInv /\ LoopsInv' /\ DeliveryInv /\ NextLoops => DeliveryInv'
  BY LoopDelivery, ProcessDelivery, ApiDelivery DEF NextLoops
<1>2. DeliveryInv /\ UNCHANGED loopVars => DeliveryInv'
  BY DEF loopVars, apiVars, DeliveryInv, AcceptedWhenSettled, Delivered,
         HeldByLoop, Settled
<1> QED BY <1>1, <1>2

(* No event is dropped in silence, for any number of loops, events and     *)
(* crashes: it is with the broker, held by a loop that owns its delivery,  *)
(* started, refused by a failed API call, or no longer PENDING.            *)
THEOREM NothingIsLost == LoopsSpec => []NothingLost
<1>1. DeliveryInv => NothingLost
  BY DEF DeliveryInv, Delivered, HeldByLoop, Settled, NothingLost
<1>2. LoopsSpec => []DeliveryInv
  BY LoopsInvariant, InitDeliveryInv, NextDeliveryInv, PTL DEF LoopsSpec
<1> QED BY <1>1, <1>2, PTL

-----------------------------------------------------------------------------
(* LoopsMatchKnown.  Between the end of one process and the start of the   *)
(* next nothing is known and no loop runs; while one stops, all were told. *)

StoppedOrKnown ==
  /\ LoopsMatchKnown
  /\ process # "up" => \A p \in Projects : ~loop[p].live
  /\ process = "down" => known = {}

LEMMA InitStoppedOrKnown == InitLoops => StoppedOrKnown
BY DEF InitLoops, StoppedOrKnown, LoopsMatchKnown, Off

(* No step of a loop changes whether its context is live: a loop that ends *)
(* on its own had been told to.                                            *)
LEMMA LoopKeepsContext ==
  ASSUME LoopsInv, NEW p \in Projects,
         LoopStep(p) \/ TakeSlot(p) \/ LoopFault(p)
  PROVE  \A q \in Projects : loop'[q].live <=> loop[q].live
<1>1. CASE StopReading(p) \/ StopWaiting(p)
  BY <1>1 DEF StopReading, StopWaiting, Off, LoopsInv, LoopsTypeOK, Loop
<1>2. ASSUME NEW e \in Events, ReadMessage(p, e)
      PROVE  \A q \in Projects : loop'[q].live <=> loop[q].live
  BY <1>2 DEF ReadMessage, LoopsInv, LoopsTypeOK, Loop
<1>3. CASE Ack(p)
  BY <1>3 DEF Ack, LoopsInv, LoopsTypeOK, Loop
<1>4. ASSUME NEW step \in Holding, Goto(p, step)
      PROVE  \A q \in Projects : loop'[q].live <=> loop[q].live
  <2>1. loop \in [Projects -> Loop]
    BY DEF LoopsInv, LoopsTypeOK
  <2>2. loop' = [loop EXCEPT ![p] = [loop[p] EXCEPT !.pc = step]]
    BY <1>4, <2>1 DEF Goto
  <2> QED BY <2>1, <2>2, LoopMoves
<1>5. CASE LinkLost(p)
  BY <1>5 DEF LinkLost, LoopsInv, LoopsTypeOK, Loop
<1>6. CASE CheckPhase(p) \/ CheckFails(p) \/ AckMessage(p)
  BY <1>3, <1>4, <1>6 DEF CheckPhase, CheckFails, AckMessage, Holding
<1>7. CASE TakeSlot(p) \/ StartWorker(p) \/ StartFails(p)
  BY <1>4, <1>7 DEF TakeSlot, StartWorker, StartFails, Holding
<1> QED BY <1>1, <1>2, <1>5, <1>6, <1>7 DEF LoopStep, LoopFault

LEMMA NextStoppedOrKnown ==
  ASSUME LoopsInv, StoppedOrKnown, [NextLoops]_loopVars
  PROVE  StoppedOrKnown'
<1> USE DEF StoppedOrKnown, LoopsMatchKnown
<1>0. \A p \in Projects : loop[p] \in Loop
  BY DEF LoopsInv, LoopsTypeOK
<1>1. CASE ManageProjectLoops
  <2>1. \A p \in Projects : loop'[p].live <=> p \in known'
    <3> SUFFICES ASSUME NEW p \in Projects PROVE loop'[p].live <=> p \in known'
      OBVIOUS
    <3>1. loop[p].live <=> p \in known
      BY <1>0, <1>1 DEF ManageProjectLoops, Loop
    <3>2. CASE p \in FirstPage \ known
      BY <1>1, <3>2 DEF ManageProjectLoops, Reading
    <3>3. CASE p \in known \ FirstPage
      BY <1>0, <1>1, <3>3 DEF ManageProjectLoops, Loop
    <3>4. CASE p \in known <=> p \in FirstPage
      BY <1>1, <3>1, <3>4 DEF ManageProjectLoops
    <3> QED BY <3>2, <3>3, <3>4
  <2> QED BY <1>1, <2>1 DEF ManageProjectLoops
<1>2. CASE Shutdown
  BY <1>0, <1>2 DEF Shutdown, Loop
<1>3. CASE ProcessEnds
  BY <1>3 DEF ProcessEnds, Off
<1>4. CASE ProcessStarts
  BY <1>4 DEF ProcessStarts
<1>5. ASSUME NEW p \in Projects, LoopStep(p) \/ TakeSlot(p) \/ LoopFault(p)
      PROVE  StoppedOrKnown'
  <2>1. \A q \in Projects : loop'[q].live <=> loop[q].live
    BY <1>5, LoopKeepsContext
  <2>2. UNCHANGED <<known, process>>
    BY <1>5 DEF LoopStep, LoopFault, ReadMessage, StopReading, CheckPhase,
                StopWaiting, StartWorker, AckMessage, TakeSlot, CheckFails,
                StartFails, LinkLost
  <2> QED BY <2>1, <2>2
<1>6. ASSUME NEW p \in Projects, ProjectChanges(p) PROVE StoppedOrKnown'
  BY <1>6 DEF ProjectChanges
<1>7. ASSUME NEW e \in Events, Publish(e) \/ NoLongerPending(e) \/ OrphanedStart(e)
      PROVE  StoppedOrKnown'
  BY <1>7 DEF Publish, NoLongerPending, OrphanedStart
<1>8. CASE UNCHANGED loopVars
  BY <1>8 DEF loopVars, apiVars
<1> QED BY <1>1, <1>2, <1>3, <1>4, <1>5, <1>6, <1>7, <1>8 DEF NextLoops

(* While the process is up, exactly the loops of known projects may go on. *)
THEOREM LoopsFollowProjects == LoopsSpec => []LoopsMatchKnown
<1>1. StoppedOrKnown => LoopsMatchKnown
  BY DEF StoppedOrKnown
<1> QED BY <1>1, LoopsInvariant, InitStoppedOrKnown, NextStoppedOrKnown, PTL
        DEF LoopsSpec

-----------------------------------------------------------------------------
(* Every step of the scheduler is one of the loops, or leaves them alone.  *)
LEMMA StepIsLoopStep == [Next]_vars => [NextLoops]_loopVars
<1>1. ASSUME NEW p \in Projects,
             \/ TakeSlotOffered(p) \/ StartCall(p) \/ LoopAlone(p)
             \/ GetFails(p) \/ StartCallFails(p)
      PROVE  NextLoops
  BY <1>1 DEF TakeSlotOffered, StartCall, LoopAlone, GetFails, StartCallFails,
              NextLoops, LoopStep, LoopFault
<1>2. ASSUME ManageLoops \/ Environment \/ Exit \/ Run PROVE NextLoops
  BY <1>2 DEF ManageLoops, Environment, Exit, Run, NextLoops
<1>3. ASSUME NEW e \in Events, LateStart(e) PROVE NextLoops
  BY <1>3 DEF LateStart, NextLoops
<1>4. Capacities \/ UNCHANGED vars => UNCHANGED loopVars
  BY DEF Capacities, vars
<1> QED BY <1>1, <1>2, <1>3, <1>4 DEF Next

(* Why a pod is only created on a granted slot: every call that is under   *)
(* way was given one, and keeps it until the event has its pod.            *)
CallsHaveSlots ==
  /\ pod \in [Events -> C!PodStates \cup {C!NoPod, "gone"}]
  /\ \A e \in Events : InFlight(e) => e \in granted \/ pod[e] # C!NoPod

(* Why the process does not end more often than WorkerCapacity allows.     *)
CrashesCounted ==
  /\ restarts = crashes
  /\ process = "stopping" => crashes < MaxCrashes

SlotInv == LoopsInv /\ CallsHaveSlots /\ CrashesCounted

LEMMA InitSlotInv == Init => SlotInv
<1> SUFFICES ASSUME Init PROVE CallsHaveSlots /\ CrashesCounted
  BY InitLoopsInv DEF Init, SlotInv
<1> QED BY DEF Init, InitLoops, C!InitCapacity, CallsHaveSlots, CrashesCounted,
               InFlight, Off

-----------------------------------------------------------------------------
(* A step that begins no call and leaves slots and pods alone.             *)
LEMMA NoNewCall ==
  ASSUME CallsHaveSlots, UNCHANGED <<pod, granted>>,
         \A e \in Events : InFlight(e)' => InFlight(e)
  PROVE  CallsHaveSlots'
BY DEF CallsHaveSlots

(* Calls under way are the same when the loops that make them are.         *)
LEMMA SameCalls ==
  ASSUME orphans' \subseteq orphans,
         \A p \in Projects : loop'[p].pc = "starting" =>
           loop[p].pc = "starting" /\ loop'[p].msg = loop[p].msg
  PROVE  \A e \in Events : InFlight(e)' => InFlight(e)
BY DEF InFlight

(* The outcome of a call, whichever it is.                                 *)
LEMMA OutcomeSlots ==
  ASSUME CallsHaveSlots, NEW e \in Events, InFlight(e), StartOutcome(e),
         \A d \in Events : InFlight(d)' => InFlight(d)
  PROVE  /\ CallsHaveSlots'
         /\ \/ e \in granted /\ C!PodCreated(e)
            \/ e \in granted /\ C!SlotWasted(e)
            \/ UNCHANGED capacityVars
<1>1. CASE C!PodCreated(e)
  <2>1. e \in granted
    BY <1>1 DEF C!PodCreated, CallsHaveSlots
  <2>2. CallsHaveSlots'
    BY <1>1 DEF C!PodCreated, C!PodStates, C!NoPod, CallsHaveSlots
  <2> QED BY <1>1, <2>1, <2>2
<1>2. CASE UNCHANGED capacityVars
  BY <1>2, NoNewCall DEF capacityVars
<1>3. CASE C!SlotWasted(e) /\ ~InFlight(e)'
  <2>1. CallsHaveSlots'
    BY <1>3 DEF C!SlotWasted, CallsHaveSlots
  <2>2. CASE e \notin granted
    BY <1>3, <2>1, <2>2 DEF C!SlotWasted, C!managerVars, C!informerVars,
                            C!processVars, capacityVars
  <2> QED BY <1>3, <2>1, <2>2
<1> QED BY <1>1, <1>2, <1>3 DEF StartOutcome

(* Each step preserves what the calls have, and is a step of WorkerCapacity*)
(* or none.                                                                *)
Simulated == CallsHaveSlots' /\ (C!Next \/ UNCHANGED capacityVars)

LEMMA LoopSimulated ==
  ASSUME SlotInv, NEW p \in Projects,
         \/ TakeSlotOffered(p) \/ StartCall(p) \/ LoopAlone(p)
         \/ GetFails(p) \/ StartCallFails(p)
  PROVE  Simulated
<1> USE DEF SlotInv, Simulated
<1>0. loop \in [Projects -> Loop] /\ loop[p] \in Loop
  BY DEF LoopsInv, LoopsTypeOK
<1>1. loop[p].pc \in Holding => loop[p].msg \in Events
  BY DEF LoopsInv, MessagesHeld, WellHeld
<1>2. CASE TakeSlotOffered(p)
  <2> DEFINE e == loop[p].msg
  <2>1. e \in Events /\ C!GrantSlot(e)
    BY <1>1, <1>2 DEF TakeSlotOffered, TakeSlot, Holding
  <2>2. loop' = [loop EXCEPT ![p] = [loop[p] EXCEPT !.pc = "starting"]]
    BY <1>0, <1>2 DEF TakeSlotOffered, TakeSlot, Goto
  <2>3. loop'[p].msg = e /\ \A q \in Projects \ {p} : loop'[q] = loop[q]
    BY <1>0, <2>2, LoopMoves DEF Holding
  <2>4. orphans' = orphans
    BY <1>2 DEF TakeSlotOffered, TakeSlot, apiVars
  <2>5. ASSUME NEW d \in Events, InFlight(d)', d # e
        PROVE  InFlight(d)
    <3>1. CASE d \in orphans
      BY <3>1 DEF InFlight
    <3>2. CASE d \notin orphans
      <4>1. PICK q \in Projects : loop'[q].pc = "starting" /\ loop'[q].msg = d
        BY <2>4, <2>5, <3>2 DEF InFlight
      <4>2. q # p
        BY <2>3, <2>5, <4>1
      <4> QED BY <2>3, <4>1, <4>2 DEF InFlight
    <3> QED BY <3>1, <3>2
  <2> HIDE DEF e
  <2>6. CallsHaveSlots'
    BY <2>1, <2>5 DEF C!GrantSlot, CallsHaveSlots
  <2>7. C!Next
    BY <2>1 DEF C!Next, C!LoopStep
  <2> QED BY <2>6, <2>7
<1>3. ASSUME NEW e \in Events, e = loop[p].msg,
             loop[p].pc = "starting", Goto(p, "acking"),
             orphans' \subseteq orphans \cup {e}, StartOutcome(e)
      PROVE  Simulated
  <2>1. InFlight(e)
    BY <1>3 DEF InFlight
  <2>2. loop' = [loop EXCEPT ![p] = [loop[p] EXCEPT !.pc = "acking"]]
    BY <1>0, <1>3 DEF Goto
  <2>3. loop'[p].pc = "acking" /\ \A q \in Projects \ {p} : loop'[q] = loop[q]
    BY <1>0, <2>2, LoopMoves DEF Holding
  <2>4. \A d \in Events : InFlight(d)' => InFlight(d)
    BY <1>3, <2>1, <2>3 DEF InFlight
  <2>5. /\ CallsHaveSlots'
        /\ \/ e \in granted /\ C!PodCreated(e)
           \/ e \in granted /\ C!SlotWasted(e)
           \/ UNCHANGED capacityVars
    BY <1>3, <2>1, <2>4, OutcomeSlots
  <2> QED BY <2>5 DEF C!Next, C!LoopStep
<1>4. CASE StartCall(p)
  BY <1>1, <1>3, <1>4 DEF StartCall, StartWorker, Holding
<1>5. CASE StartCallFails(p)
  BY <1>1, <1>3, <1>5 DEF StartCallFails, StartFails, Holding
<1>6. CASE LoopAlone(p) \/ GetFails(p)
  <2>1. UNCHANGED <<capacityVars, orphans>>
    BY <1>6 DEF LoopAlone, GetFails, ReadMessage, StopReading, CheckPhase,
                StopWaiting, AckMessage, CheckFails, apiVars
  <2>2. loop'[p].pc # "starting" /\ \A q \in Projects \ {p} : loop'[q] = loop[q]
    <3>1. ASSUME NEW l \in Loop, loop' = [loop EXCEPT ![p] = l],
                 l.pc # "starting"
          PROVE  /\ loop'[p].pc # "starting"
                 /\ \A q \in Projects \ {p} : loop'[q] = loop[q]
      BY <1>0, <3>1
    <3>2. ASSUME NEW e \in Events, ReadMessage(p, e)
          PROVE  \E l \in Loop : loop' = [loop EXCEPT ![p] = l] /\ l.pc # "starting"
      <4> DEFINE l == [loop[p] EXCEPT !.pc = "checking", !.msg = e, !.own = TRUE]
      <4>1. l \in Loop /\ l.pc # "starting"
        BY <1>0, LoopReads
      <4>2. loop' = [loop EXCEPT ![p] = l]
        BY <1>0, <3>2 DEF ReadMessage
      <4> QED BY <4>1, <4>2
    <3>3. ASSUME Ack(p)
          PROVE  \E l \in Loop : loop' = [loop EXCEPT ![p] = l] /\ l.pc # "starting"
      <4> DEFINE l == [loop[p] EXCEPT !.pc = "reading", !.msg = NoEvent,
                                      !.own = FALSE]
      <4>1. l \in Loop /\ l.pc # "starting"
        BY <1>0, LoopAccepts
      <4>2. loop' = [loop EXCEPT ![p] = l]
        BY <1>0, <3>3 DEF Ack
      <4> QED BY <4>1, <4>2
    <3>4. ASSUME Goto(p, "waiting")
          PROVE  \E l \in Loop : loop' = [loop EXCEPT ![p] = l] /\ l.pc # "starting"
      <4> DEFINE l == [loop[p] EXCEPT !.pc = "waiting"]
      <4>1. l \in Loop /\ l.pc # "starting"
        BY <1>0, LoopMoves DEF Holding
      <4>2. loop' = [loop EXCEPT ![p] = l]
        BY <1>0, <3>4 DEF Goto
      <4> QED BY <4>1, <4>2
    <3>5. CASE StopReading(p) \/ StopWaiting(p)
      BY <3>1, <3>5, LoopRecords DEF StopReading, StopWaiting, Off
    <3>6. CASE CheckPhase(p) \/ CheckFails(p) \/ AckMessage(p)
      BY <3>1, <3>3, <3>4, <3>6 DEF CheckPhase, CheckFails, AckMessage
    <3> QED BY <1>6, <3>1, <3>2, <3>5, <3>6 DEF LoopAlone, GetFails
  <2>3. \A e \in Events : InFlight(e)' => InFlight(e)
    BY <2>1, <2>2, SameCalls
  <2> QED BY <2>1, <2>3, NoNewCall DEF capacityVars
<1> QED BY <1>2, <1>4, <1>5, <1>6

LEMMA ProcessSimulated ==
  ASSUME SlotInv, ManageLoops \/ Environment \/ Exit \/ Run
  PROVE  Simulated
<1> USE DEF SlotInv, Simulated
<1>0. \A p \in Projects : loop[p] \in Loop
  BY DEF LoopsInv, LoopsTypeOK
<1>1. CASE ManageLoops \/ (Shutdown /\ UNCHANGED capacityVars)
  <2>1. UNCHANGED <<capacityVars, orphans>>
    BY <1>1 DEF ManageLoops, ManageProjectLoops, Shutdown, apiVars
  <2>2. ASSUME NEW p \in Projects
        PROVE  \/ loop'[p] = Reading \/ loop'[p] = loop[p]
               \/ loop'[p] = [loop[p] EXCEPT !.live = FALSE]
    BY <1>1 DEF ManageLoops, ManageProjectLoops, Shutdown
  <2>3. ASSUME NEW p \in Projects, loop'[p].pc = "starting"
        PROVE  loop[p].pc = "starting" /\ loop'[p].msg = loop[p].msg
    <3>1. CASE loop'[p] = [loop[p] EXCEPT !.live = FALSE]
      <4>1. loop'[p].pc = loop[p].pc /\ loop'[p].msg = loop[p].msg
        BY <1>0, <3>1, LoopStops
      <4> QED BY <2>3, <4>1
    <3> QED BY <2>2, <2>3, <3>1 DEF Reading
  <2>4. \A e \in Events : InFlight(e)' => InFlight(e)
    BY <2>1, <2>3, SameCalls
  <2> QED BY <2>1, <2>4, NoNewCall DEF capacityVars
<1>2. ASSUME UNCHANGED <<capacityVars, loop, orphans>> PROVE Simulated
  BY <1>2, SameCalls, NoNewCall DEF capacityVars
<1>3. CASE Environment
  BY <1>1, <1>2, <1>3 DEF Environment, Publish, NoLongerPending
<1>4. CASE Exit
  <2>1. UNCHANGED <<pod, granted>> /\ restarts < MaxCrashes
    BY <1>4 DEF Exit, ProcessEnds, C!ProcessStops, CrashesCounted
  <2>2. \A e \in Events : InFlight(e)' => InFlight(e)
    BY <1>4 DEF Exit, ProcessEnds, InFlight, Off
  <2>3. C!ProcessStops
    BY <1>4 DEF Exit
  <2>4. C!Next
    BY <2>1, <2>3 DEF C!Next
  <2>5. CallsHaveSlots'
    BY <2>1, <2>2, NoNewCall
  <2> QED BY <2>4, <2>5
<1>5. CASE Run
  <2>1. UNCHANGED <<pod, granted, loop, orphans>>
    BY <1>5 DEF Run, ProcessStarts, C!SyncExistingWorkerPods, apiVars
  <2>2. CallsHaveSlots'
    BY <2>1, SameCalls, NoNewCall
  <2>3. C!SyncExistingWorkerPods
    BY <1>5 DEF Run
  <2>4. C!Next
    BY <2>3 DEF C!Next
  <2> QED BY <2>2, <2>4
<1> QED BY <1>1, <1>3, <1>4, <1>5

LEMMA CapacitySimulated == SlotInv /\ Capacities => Simulated
<1> SUFFICES ASSUME SlotInv, Capacities PROVE Simulated
  OBVIOUS
<1>1. \A e \in Events : InFlight(e)' => InFlight(e)
  BY SameCalls DEF Capacities, loopVars, apiVars
<1>2. CASE C!CountPods \/ C!WakeUp \/ C!Tick \/ C!ListAndWatch \/ C!WatchBreaks
  <2>1. UNCHANGED <<pod, granted>>
    BY <1>2 DEF C!CountPods, C!WakeUp, C!Tick, C!ListAndWatch, C!WatchBreaks,
                C!podVars
  <2> QED BY <1>1, <1>2, <2>1, NoNewCall
          DEF SlotInv, Simulated, C!Next, C!ManagerStep
<1>3. ASSUME NEW e \in Events, C!SyncWorkerPod(e) PROVE Simulated
  <2>1. UNCHANGED <<pod, granted>>
    BY <1>3 DEF C!SyncWorkerPod, C!podVars
  <2> QED BY <1>1, <1>3, <2>1, NoNewCall DEF SlotInv, Simulated, C!Next
<1>4. ASSUME NEW e \in Events, C!PodStep(e) PROVE Simulated
  <2>1. granted' = granted
        /\ \E state \in C!PodStates \cup {"gone"} :
              pod' = [pod EXCEPT ![e] = state]
    BY <1>4 DEF C!PodStep, C!PodRuns, C!PodOver, C!PodGone, C!PodBecomes,
                C!PodStates
  <2>2. CallsHaveSlots'
    BY <1>1, <2>1 DEF SlotInv, CallsHaveSlots, C!PodStates, C!NoPod
  <2> QED BY <1>4, <2>2 DEF Simulated, C!Next
<1> QED BY <1>2, <1>3, <1>4 DEF Capacities

LEMMA LateStartSimulated ==
  ASSUME SlotInv, NEW e \in Events, LateStart(e) PROVE Simulated
<1>1. InFlight(e) /\ \A d \in Events : InFlight(d)' => InFlight(d)
  BY DEF LateStart, OrphanedStart, InFlight
<1>2. /\ CallsHaveSlots'
      /\ \/ e \in granted /\ C!PodCreated(e)
         \/ e \in granted /\ C!SlotWasted(e)
         \/ UNCHANGED capacityVars
  BY <1>1, OutcomeSlots DEF LateStart, SlotInv
<1> QED BY <1>2 DEF Simulated, C!Next, C!LoopStep

LEMMA StepSimulated == SlotInv /\ [Next]_vars => Simulated
<1>1. SlotInv /\ Next => Simulated
  BY LoopSimulated, ProcessSimulated, CapacitySimulated, LateStartSimulated
     DEF Next
<1>2. SlotInv /\ UNCHANGED vars => Simulated
  BY SameCalls, NoNewCall
     DEF vars, loopVars, apiVars, capacityVars, SlotInv, Simulated
<1> QED BY <1>1, <1>2

-----------------------------------------------------------------------------
LEMMA CrashesStayCounted == SlotInv /\ [Next]_vars => CrashesCounted'
<1> SUFFICES ASSUME SlotInv, [Next]_vars PROVE CrashesCounted'
  OBVIOUS
<1> USE DEF SlotInv, CrashesCounted, C!podVars, C!processVars
<1>1. ASSUME UNCHANGED <<process, crashes, restarts>> PROVE CrashesCounted'
  BY <1>1
<1>2. CASE Exit
  BY <1>2 DEF Exit, ProcessEnds, C!ProcessStops
<1>3. CASE Run
  BY <1>3 DEF Run, ProcessStarts, C!SyncExistingWorkerPods
<1>4. CASE Shutdown /\ UNCHANGED capacityVars
  BY <1>4 DEF Shutdown, capacityVars
<1>5. CASE Environment
  BY <1>1, <1>4, <1>5 DEF Environment, Publish, NoLongerPending, capacityVars
<1>6. CASE ManageLoops \/ Capacities \/ UNCHANGED vars
  BY <1>1, <1>6
     DEF ManageLoops, ManageProjectLoops, capacityVars, Capacities, C!CountPods,
         C!WakeUp, C!Tick, C!ListAndWatch, C!WatchBreaks, C!SyncWorkerPod, C!PodStep,
         C!PodRuns, C!PodOver, C!PodGone, C!PodBecomes, loopVars, vars
<1>7. ASSUME NEW e, StartOutcome(e) PROVE UNCHANGED restarts
  BY <1>7 DEF StartOutcome, C!PodCreated, C!SlotWasted, capacityVars
<1>8. ASSUME NEW p \in Projects,
             \/ TakeSlotOffered(p) \/ StartCall(p) \/ LoopAlone(p)
             \/ GetFails(p) \/ StartCallFails(p)
      PROVE  CrashesCounted'
  <2>1. CASE TakeSlotOffered(p)
    BY <1>1, <2>1 DEF TakeSlotOffered, TakeSlot, C!GrantSlot
  <2>2. CASE StartCall(p) \/ StartCallFails(p)
    <3>1. UNCHANGED restarts
      BY <1>7, <2>2 DEF StartCall, StartCallFails
    <3> QED BY <1>1, <2>2, <3>1
            DEF StartCall, StartWorker, StartCallFails, StartFails
  <2>3. CASE LoopAlone(p) \/ GetFails(p)
    BY <1>1, <2>3 DEF LoopAlone, GetFails, ReadMessage, StopReading, CheckPhase,
                      StopWaiting, AckMessage, CheckFails, capacityVars
  <2> QED BY <1>8, <2>1, <2>2, <2>3
<1>9. ASSUME NEW e \in Events, LateStart(e) PROVE CrashesCounted'
  <2>1. UNCHANGED restarts
    BY <1>7, <1>9 DEF LateStart
  <2> QED BY <1>1, <1>9, <2>1 DEF LateStart, OrphanedStart
<1> QED BY <1>2, <1>3, <1>5, <1>6, <1>8, <1>9 DEF Next

LEMMA NextSlotInv == SlotInv /\ [Next]_vars => SlotInv'
BY StepIsLoopStep, NextLoopsInv, StepSimulated, CrashesStayCounted
   DEF SlotInv, Simulated

(* The loops, across overlapping calls, redeliveries and restarts, only    *)
(* create pods on slots the manager granted: every behaviour of the        *)
(* scheduler is one of WorkerCapacity.                                     *)
THEOREM LoopsRespectCapacity == Spec => CapacityRespected
<1>1. Init => C!InitCapacity
  BY DEF Init
<1>2. SlotInv /\ [Next]_vars => [C!Next]_C!capacityVars
  BY StepSimulated
     DEF Simulated, capacityVars, C!capacityVars, C!managerVars, C!informerVars,
         C!podVars, C!processVars
<1> QED BY <1>1, <1>2, InitSlotInv, NextSlotInv, PTL
        DEF Spec, CapacityRespected, C!Spec

(* What the loops promise on their own they promise in the scheduler: the  *)
(* slots they wait for and the outcomes of their calls only restrict what  *)
(* WorkerLoops lets happen.                                                *)
THEOREM SchedulerRunsLoops == Spec => LoopsSpec
<1>1. Init => InitLoops
  BY DEF Init
<1> QED BY <1>1, StepIsLoopStep, PTL DEF Spec, LoopsSpec

(* So the scheduler loses no message, and has loops for the projects it    *)
(* last heard of and no others, whatever the capacity does to its loops.   *)
THEOREM SchedulerLosesNothing == Spec => []NothingLost /\ []LoopsMatchKnown
BY SchedulerRunsLoops, NothingIsLost, LoopsFollowProjects
=============================================================================
