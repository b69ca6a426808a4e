--------------------------- MODULE WorkerCapacity ---------------------------
(***************************************************************************)
(* The scheduler's capacity manager for workers and the informer it counts *)
(* pods with.  Worker loops take slots from the manager and have the API   *)
(* server create a pod per slot.  The capacity manager and the informer    *)
(* for jobs are the same code with jobs for workers.                       *)
(*                                                                         *)
(*   mgr       the manager: about to count, offering a slot on the         *)
(*             unbuffered channel, or waiting for its ticker               *)
(*   tick      the ticker's one-slot channel holds a tick                  *)
(*   view      workerPodsSet, the pods that count                          *)
(*   notices   per pod, in order, the states the informer has yet to hand  *)
(*             to syncWorkerPod                                            *)
(*   watching  the informer's watch is open                                *)
(*   pod       the worker pods                                             *)
(*   granted   events with a Start call under way that was given a slot    *)
(*   running   the scheduler process runs                                  *)
(*   restarts  how often it ended                                          *)
(*                                                                         *)
(* Auxiliary: late, the starts with a slot that the view did not hold at   *)
(* the last tick; recent, pods created since the process began; missed,    *)
(* pods whose end the informer was not told of.                            *)
(***************************************************************************)
EXTENDS Integers, Sequences, FiniteSets

CONSTANTS
  Events,
  Capacity,      \* worker pods the manager allows (the code says 2)
  PromptStarts,  \* a start with a slot reaches the informer within 5 s
  AbruptDeletes, \* pods may be deleted without a grace period
  WatchMayBreak, \* the informer's watch may break
  MaxRestarts    \* bound on restarts of the process

ASSUME EventsAssumption == IsFiniteSet(Events)
ASSUME CapacityAssumption == Capacity \in Nat \ {0}
ASSUME EnvironmentAssumption == /\ PromptStarts \in BOOLEAN
                                /\ AbruptDeletes \in BOOLEAN
                                /\ WatchMayBreak \in BOOLEAN
                                /\ MaxRestarts \in Nat

VARIABLES mgr, tick, view, notices, watching, pod, granted, running, restarts,
          late, recent, missed

managerVars == <<mgr, tick, late>>
informerVars == <<view, notices, watching>>
podVars == <<pod, granted, recent, missed>>
processVars == <<running, restarts>>
capacityVars == <<managerVars, informerVars, podVars, processVars>>

-----------------------------------------------------------------------------
(* What syncWorkerPod tells apart: a pod on its way up, one that is Running*)
(* or Unknown, and one that has ended or has a deletion timestamp.         *)
PodStates == {"Pending", "Running", "Over"}
NoPod == "none"

(* The states in which a pod counts against the capacity.                  *)
Counted == {"Pending", "Running"}

Active == {e \in Events : pod[e] \in Counted}

(* Starts that have a slot but that the manager does not count yet.        *)
Unseen == {e \in Events \ view : e \in granted \/ e \in Active}

(* A state that is the last one to be handed over already changes nothing  *)
(* more.                                                                   *)
Queued(s, state) ==
  IF s # <<>> /\ s[Len(s)] = state THEN s ELSE Append(s, state)

(* The informer learns of e's new state while it watches.                  *)
Notify(e, state) ==
  notices' = IF watching THEN [notices EXCEPT ![e] = Queued(@, state)]
                         ELSE notices

-----------------------------------------------------------------------------
InitCapacity ==
  /\ mgr = "count" /\ tick = FALSE /\ late = {}
  /\ view = {} /\ notices = [e \in Events |-> <<>>]
  /\ pod = [e \in Events |-> NoPod]
  /\ granted = {}
  /\ running = TRUE /\ restarts = 0 /\ watching = FALSE
  /\ recent = {} /\ missed = {}

-----------------------------------------------------------------------------
(* manageWorkerCapacity.                                                   *)

(* Seeded fault: the count may reach the capacity.                         *)
CountPods_AtMost ==
  /\ running /\ mgr = "count"
  /\ mgr' = IF Cardinality(view) <= Capacity THEN "offer" ELSE "sleep"
  /\ UNCHANGED <<tick, late, informerVars, podVars, processVars>>

CountPods ==
  /\ running /\ mgr = "count"
  /\ mgr' = IF Cardinality(view) < Capacity THEN "offer" ELSE "sleep"
  /\ UNCHANGED <<tick, late, informerVars, podVars, processVars>>

(* The offer meets a waiting loop, however old the count behind it is.     *)
GrantSlot(e) ==
  /\ running /\ mgr = "offer"
  /\ mgr' = "sleep"
  /\ granted' = granted \cup {e}
  /\ UNCHANGED <<tick, late, informerVars, pod, recent, missed, processVars>>

WakeUp ==
  /\ running /\ mgr = "sleep" /\ tick
  /\ mgr' = "count" /\ tick' = FALSE
  /\ UNCHANGED <<late, informerVars, podVars, processVars>>

(* Five seconds pass.  The channel holds one tick and drops the others.    *)
(* With PromptStarts no start stays unseen over two ticks.                 *)
Tick ==
  /\ running
  /\ PromptStarts => late \cap Unseen = {}
  /\ tick' = TRUE
  /\ late' = IF PromptStarts THEN Unseen ELSE {}
  /\ ~tick \/ late' # late
  /\ UNCHANGED <<mgr, informerVars, podVars, processVars>>

-----------------------------------------------------------------------------
(* The informer calls syncWorkerPod for additions and updates of pods.     *)

(* Seeded fault: a pod that is over keeps its place in the count.          *)
SyncWorkerPod_KeepsCounting(e) ==
  /\ running /\ notices[e] # <<>>
  /\ view' = view \cup {e}
  /\ notices' = [notices EXCEPT ![e] = Tail(@)]
  /\ UNCHANGED <<managerVars, watching, podVars, processVars>>

SyncWorkerPod(e) ==
  /\ running /\ notices[e] # <<>>
  /\ view' = IF Head(notices[e]) \in Counted THEN view \cup {e}
                                             ELSE view \ {e}
  /\ notices' = [notices EXCEPT ![e] = Tail(@)]
  /\ UNCHANGED <<managerVars, watching, podVars, processVars>>

(* The informer lists the pods there are and watches them from then on.    *)
(* What it knew and does not find is deleted for it, and there is no       *)
(* handler for that.                                                       *)
ListAndWatch ==
  /\ running /\ ~watching
  /\ watching' = TRUE
  /\ notices' = [e \in Events |-> IF pod[e] \in PodStates
                                  THEN Queued(notices[e], pod[e])
                                  ELSE notices[e]]
  /\ missed' = {e \in missed : pod[e] # "Over"}
  /\ UNCHANGED <<managerVars, view, pod, granted, recent, processVars>>

(* The watch breaks, and cannot be resumed where it was.                   *)
WatchBreaks ==
  /\ WatchMayBreak /\ running /\ watching
  /\ watching' = FALSE
  /\ UNCHANGED <<managerVars, view, notices, podVars, processVars>>

-----------------------------------------------------------------------------
(* The process ends, and Run begins: the pods there are are listed before  *)
(* anything else starts; the informer lists them again some time later.    *)

ProcessStops ==
  /\ running
  /\ running' = FALSE /\ restarts' = restarts + 1
  /\ mgr' = "count" /\ tick' = FALSE /\ late' = {}
  /\ view' = {} /\ notices' = [e \in Events |-> <<>>] /\ watching' = FALSE
  /\ recent' = {} /\ missed' = {}
  /\ UNCHANGED <<pod, granted>>

(* Seeded fault: the informer alone fills the view, some time later.       *)
SyncExistingWorkerPods_Async ==
  /\ ~running
  /\ running' = TRUE
  /\ UNCHANGED <<managerVars, informerVars, podVars, restarts>>

SyncExistingWorkerPods ==
  /\ ~running
  /\ running' = TRUE
  /\ view' = Active
  /\ recent' = {} /\ missed' = {}
  /\ UNCHANGED <<managerVars, notices, watching, pod, granted, restarts>>

-----------------------------------------------------------------------------
(* Kubernetes, and what Start calls make of it.                            *)

PodCreated(e) ==
  /\ pod[e] = NoPod
  /\ pod' = [pod EXCEPT ![e] = "Pending"]
  /\ granted' = granted \ {e} /\ recent' = recent \cup {e}
  /\ Notify(e, "Pending")
  /\ UNCHANGED <<managerVars, view, watching, missed, processVars>>

(* The Start call creates no pod.                                          *)
SlotWasted(e) ==
  /\ granted' = granted \ {e}
  /\ UNCHANGED <<managerVars, informerVars, pod, recent, missed, processVars>>

PodBecomes(e, state) ==
  /\ pod' = [pod EXCEPT ![e] = state]
  /\ Notify(e, state)
  /\ UNCHANGED <<managerVars, view, watching, granted, recent, processVars>>

PodRuns(e) ==
  /\ pod[e] = "Pending" /\ PodBecomes(e, "Running")
  /\ UNCHANGED missed

(* It ends, or is deleted with a grace period: its deletion timestamp is   *)
(* an update.                                                              *)
PodOver(e) ==
  /\ pod[e] = "Running" /\ PodBecomes(e, "Over")
  /\ missed' = IF watching THEN missed ELSE missed \cup {e}

(* A pod that has no node, or is deleted by force, goes at once, as one    *)
(* that is over does in the end.  The informer learns of the deletion, but *)
(* there is no handler for that.                                           *)
PodGone(e) ==
  /\ (pod[e] = "Over" \/ (AbruptDeletes /\ e \in Active))
  /\ pod' = [pod EXCEPT ![e] = "gone"]
  /\ missed' = missed \cup ({e} \cap Active)
  /\ UNCHANGED <<managerVars, informerVars, granted, recent, processVars>>

PodStep(e) == PodRuns(e) \/ PodOver(e) \/ PodGone(e)

-----------------------------------------------------------------------------
ManagerStep == CountPods \/ WakeUp \/ Tick

(* Loops with a message wait for slots, also with one delivered again for  *)
(* an event that has a pod; their calls create a pod or do not.            *)
LoopStep(e) ==
  \/ GrantSlot(e)
  \/ e \in granted /\ PodCreated(e)
  \/ e \in granted /\ SlotWasted(e)

Next ==
  \/ ManagerStep
  \/ \E e \in Events : SyncWorkerPod(e) \/ PodStep(e) \/ LoopStep(e)
  \/ ListAndWatch \/ WatchBreaks
  \/ restarts < MaxRestarts /\ ProcessStops
  \/ SyncExistingWorkerPods

Spec == InitCapacity /\ [][Next]_capacityVars

-----------------------------------------------------------------------------
TypeOK ==
  /\ mgr \in {"count", "offer", "sleep"} /\ tick \in BOOLEAN
  /\ view \subseteq Events
  /\ notices \in [Events -> Seq(PodStates)] /\ watching \in BOOLEAN
  /\ pod \in [Events -> PodStates \cup {NoPod, "gone"}]
  /\ granted \subseteq Events
  /\ running \in BOOLEAN /\ restarts \in 0..MaxRestarts
  /\ late \subseteq Events /\ recent \subseteq Events /\ missed \subseteq Events

(* The count misses nothing but what is new: an active pod that does not   *)
(* count was created since the process began, and the informer has a state *)
(* of it to deliver, or is yet to list it.  So after a restart the pods    *)
(* there are count before any slot is offered, and however often the watch *)
(* breaks no new pod is overlooked for good.                               *)
ActivePodsCounted ==
  running => \A e \in Active \ view :
               e \in recent /\ (notices[e] # <<>> \/ ~watching)

(* The two-pod limit is soft, but not arbitrarily so: as long as every     *)
(* start reaches the informer within one period of the ticker, at most two *)
(* pods over the capacity run at any time, because a tick buffered during  *)
(* a blocked offer and the tick right after it each let one more slot out  *)
(* of the same stale count.  (Starts under way at a restart come on top.)  *)
OvershootBounded ==
  PromptStarts /\ restarts = 0 => Cardinality(Active) <= Capacity + 2

(* A pod that is over leaves the count as soon as the informer has handed  *)
(* over its states, and stays out of it, across watches that break and the *)
(* two listings at the start.  Only a pod whose end the informer was not   *)
(* told of keeps its place: until the next listing if it is still there by *)
(* then, and else for as long as the process runs.                         *)
PlacesReleased ==
  running => \A e \in view \ Active :
               \/ notices[e] # <<>>
               \/ e \in missed /\ (pod[e] = "Over" => ~watching)
=============================================================================
