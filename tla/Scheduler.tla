------------------------------ MODULE Scheduler ------------------------------
(***************************************************************************)
(* The scheduler, put together: the worker loops of WorkerLoops and the    *)
(* capacity manager and informer of WorkerCapacity.  A loop takes a slot   *)
(* when the manager offers one, a Start call that succeeds creates a pod   *)
(* the informer learns of, and both end and start with the process.        *)
(***************************************************************************)
EXTENDS WorkerLoops, Sequences

CONSTANTS
  Capacity, PromptStarts, AbruptDeletes, WatchMayBreak,  \* as in WorkerCapacity
  CallsFail  \* API calls of a loop may fail

ASSUME CallsFailAssumption == CallsFail \in BOOLEAN

VARIABLES mgr, tick, view, notices, watching, pod, granted, running, restarts,
          late, recent, missed

C == INSTANCE WorkerCapacity WITH MaxRestarts <- MaxCrashes

capacityVars == <<mgr, tick, view, notices, watching, pod, granted, running, restarts,
                  late, recent, missed>>
vars == <<loopVars, capacityVars>>

Init == InitLoops /\ C!InitCapacity

-----------------------------------------------------------------------------
(* A call for e is with the API server, or about to be.                    *)
InFlight(e) ==
  e \in orphans \/ \E p \in Projects : loop[p].pc = "starting" /\ loop[p].msg = e

(* What becomes of e's slot and pod as a call for e does or does not create*)
(* a pod: the slot is used, left to another call for e, or given up.       *)
StartOutcome(e) ==
  IF e \in started' \ started THEN C!PodCreated(e)
  ELSE IF InFlight(e)' THEN UNCHANGED capacityVars
  ELSE C!SlotWasted(e)

(* Seeded fault: the loop does not wait for the manager's offer.           *)
TakeSlotOffered_Unasked(p) == TakeSlot(p) /\ UNCHANGED capacityVars

TakeSlotOffered(p) == TakeSlot(p) /\ C!GrantSlot(loop[p].msg)

StartCall(p) == StartWorker(p) /\ StartOutcome(loop[p].msg)

StartCallFails(p) == StartFails(p) /\ StartOutcome(loop[p].msg)

LateStart(e) == OrphanedStart(e) /\ StartOutcome(e)

Exit == ProcessEnds /\ C!ProcessStops

Run == ProcessStarts /\ C!SyncExistingWorkerPods

GetFails(p) == CheckFails(p) /\ UNCHANGED capacityVars

(* Steps of the loops, and of the API server, that do not touch capacity.  *)
LoopAlone(p) ==
  /\ \/ \E e \in Events : ReadMessage(p, e)
     \/ StopReading(p) \/ CheckPhase(p) \/ StopWaiting(p) \/ AckMessage(p)
  /\ UNCHANGED capacityVars

ManageLoops == ManageProjectLoops /\ UNCHANGED capacityVars

Environment ==
  /\ \/ \E e \in Events : Publish(e) \/ NoLongerPending(e)
     \/ Shutdown
  /\ UNCHANGED capacityVars

Capacities ==
  /\ \/ C!CountPods \/ C!WakeUp \/ C!Tick \/ C!ListAndWatch \/ C!WatchBreaks
     \/ \E e \in Events : C!SyncWorkerPod(e) \/ C!PodStep(e)
  /\ UNCHANGED loopVars

Next ==
  \/ ManageLoops \/ Environment \/ Capacities \/ Exit \/ Run
  \/ \E p \in Projects :
       \/ TakeSlotOffered(p) \/ StartCall(p) \/ LoopAlone(p)
       \/ CallsFail /\ (GetFails(p) \/ StartCallFails(p))
  \/ \E e \in Events : LateStart(e)

Spec == Init /\ [][Next]_vars

-----------------------------------------------------------------------------
(* The loops are an environment of the kind WorkerCapacity assumes: a pod  *)
(* is only created on a slot that the manager granted for it, whichever    *)
(* calls for the event overlap, across redeliveries and restarts.  What    *)
(* holds of WorkerCapacity holds of the scheduler.                         *)
CapacityRespected == C!Spec

-----------------------------------------------------------------------------
(* Goroutines run; a channel serves the receivers that wait on it in turn; *)
(* the ticker ticks, the informer lists, delivers, and lists again when its*)
(* watch broke; a process told to stop ends and one that ended is started  *)
(* again.  Clients owe nothing, nor do pods: a worker has no time limit.   *)
Fairness ==
  /\ WF_vars(ManageLoops) /\ WF_vars(process = "stopping" /\ Exit) /\ WF_vars(Run)
  /\ \A p \in Projects : /\ WF_vars(LoopAlone(p)) /\ WF_vars(StartCall(p))
                         /\ SF_vars(TakeSlotOffered(p))
  /\ WF_vars(C!CountPods /\ UNCHANGED loopVars)
  /\ WF_vars(C!WakeUp /\ UNCHANGED loopVars)
  /\ WF_vars(C!Tick /\ UNCHANGED loopVars)
  /\ WF_vars(C!ListAndWatch /\ UNCHANGED loopVars)
  /\ \A e \in Events : WF_vars(C!SyncWorkerPod(e) /\ UNCHANGED loopVars)

FairSpec == Spec /\ Fairness

-----------------------------------------------------------------------------
(* No pod runs, or waits for a node, for ever, and none keeps its place for*)
(* ever because it vanished while the informer did not watch.              *)
PodsEnd == \A e \in Events : []<>(e \notin C!Active \cup (view \cap missed))

(* As long as pods end, every published event is started in the end, unless*)
(* it was canceled, an API call about it failed, or its project is not on  *)
(* the first page.  One worker that never ends, on the other hand, holds   *)
(* its slot for good.                                                      *)
EventuallyDispatched ==
  PodsEnd => \A e \in Events :
               e \in published ~> \/ e \in started \cup refused
                                  \/ e \notin pending
                                  \/ ProjectOf[e] \notin FirstPage
=============================================================================
