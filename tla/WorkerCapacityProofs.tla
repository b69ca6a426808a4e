-------------------------- MODULE WorkerCapacityProofs --------------------------
(***************************************************************************)
(* Theorems about WorkerCapacity, for any finite set of events, capacity   *)
(* and number of restarts.                                                 *)
(***************************************************************************)
EXTENDS WorkerCapacity, FiniteSetTheorems, SequenceTheorems, TLAPS

-----------------------------------------------------------------------------
(* What the informer has yet to deliver about a pod: nothing before it is  *)
(* created, and not its end while it is active.                            *)

NoEnd(s) == \A i \in 1..Len(s) : s[i] # "Over"

NoticesInOrder ==
  /\ \A e \in Events :
       /\ pod[e] = NoPod => notices[e] = <<>>
       /\ e \in Active => NoEnd(notices[e])
  /\ ~running => ~watching /\ \A e \in Events : notices[e] = <<>>

CountInv == TypeOK /\ NoticesInOrder /\ ActivePodsCounted

LEMMA InitCountInv == InitCapacity => CountInv
<1> SUFFICES ASSUME InitCapacity PROVE CountInv
  OBVIOUS
<1>1. TypeOK
  <2>1. notices \in [Events -> Seq(PodStates)]
    BY DEF InitCapacity
  <2>2. pod \in [Events -> PodStates \cup {NoPod, "gone"}]
    BY DEF InitCapacity
  <2>3. restarts \in 0..MaxRestarts
    BY EnvironmentAssumption DEF InitCapacity
  <2> QED BY <2>1, <2>2, <2>3 DEF InitCapacity, TypeOK
<1>2. Active = {}
  BY DEF InitCapacity, Active, Counted, NoPod
<1>3. NoticesInOrder /\ ActivePodsCounted
  BY <1>2 DEF InitCapacity, NoticesInOrder, ActivePodsCounted
<1> QED BY <1>1, <1>3 DEF CountInv

(* The manager looks at the count and changes nothing of it.               *)
LEMMA ManagerCountInv ==
  ASSUME CountInv, ManagerStep \/ (\E e \in Events : GrantSlot(e) \/ SlotWasted(e))
  PROVE  CountInv'
<1> USE DEF managerVars, informerVars, podVars, processVars
<1>1. UNCHANGED <<view, notices, watching, pod, recent, missed, running, restarts>>
  BY DEF ManagerStep, CountPods, WakeUp, Tick, GrantSlot, SlotWasted
<1>2. mgr' \in {"count", "offer", "sleep"} /\ tick' \in BOOLEAN
      /\ granted' \subseteq Events /\ late' \subseteq Events
  BY DEF ManagerStep, CountPods, WakeUp, Tick, GrantSlot, SlotWasted, Unseen,
         CountInv, TypeOK
<1> QED BY <1>1, <1>2
        DEF CountInv, TypeOK, NoticesInOrder, ActivePodsCounted, Active

(* What is read at the head of the notices and what stays behind it.       *)
LEMMA HeadAndTail ==
  ASSUME NEW s \in Seq(PodStates), s # <<>>
  PROVE  /\ Head(s) \in PodStates /\ Tail(s) \in Seq(PodStates)
         /\ Len(s) \in Nat \ {0} /\ Head(s) = s[1]
         /\ \A i \in 1..Len(Tail(s)) : i + 1 \in 1..Len(s) /\ Tail(s)[i] = s[i + 1]
OBVIOUS

LEMMA SyncCountInv ==
  ASSUME CountInv, NEW e \in Events, SyncWorkerPod(e)
  PROVE  CountInv'
<1> USE DEF managerVars, podVars, processVars
<1>1. notices[e] \in Seq(PodStates) /\ notices[e] # <<>>
  BY DEF CountInv, TypeOK, SyncWorkerPod
<1>2. UNCHANGED <<mgr, tick, late, pod, granted, watching, recent, missed, running,
                  restarts>>
      /\ notices' = [notices EXCEPT ![e] = Tail(notices[e])]
  BY DEF SyncWorkerPod
<1>3. TypeOK'
  BY <1>1, <1>2, HeadAndTail DEF CountInv, TypeOK, SyncWorkerPod
<1>4. NoticesInOrder'
  <2>1. pod[e] # NoPod /\ running
    BY <1>1 DEF CountInv, NoticesInOrder
  <2>2. e \in Active => NoEnd(notices'[e])
    BY <1>1, <1>2, HeadAndTail DEF CountInv, NoticesInOrder, NoEnd, TypeOK
  <2> QED BY <1>2, <2>1, <2>2 DEF CountInv, NoticesInOrder, TypeOK, Active
<1>5. ActivePodsCounted'
  <2>1. CASE Head(notices[e]) \in Counted
    BY <1>2, <2>1 DEF SyncWorkerPod, CountInv, TypeOK, ActivePodsCounted, Active
  <2>2. CASE Head(notices[e]) \notin Counted
    <3>1. Head(notices[e]) = "Over"
      BY <1>1, <2>2, HeadAndTail DEF PodStates, Counted
    <3>2. e \notin Active
      BY <1>1, <3>1, HeadAndTail DEF CountInv, NoticesInOrder, NoEnd
    <3> QED BY <1>2, <2>2, <3>2
            DEF SyncWorkerPod, CountInv, TypeOK, ActivePodsCounted, Active
  <2> QED BY <2>1, <2>2
<1> QED BY <1>3, <1>4, <1>5 DEF CountInv

(* A pod's new state is the last one to be delivered.                      *)
LEMMA LastQueued ==
  ASSUME NEW s \in Seq(PodStates), NEW state \in PodStates
  PROVE  /\ Queued(s, state) \in Seq(PodStates)
         /\ Queued(s, state) # <<>>
         /\ Queued(s, state)[Len(Queued(s, state))] = state
         /\ state # "Over" /\ NoEnd(s) => NoEnd(Queued(s, state))
<1>1. CASE s # <<>> /\ s[Len(s)] = state
  BY <1>1 DEF Queued
<1>2. CASE ~(s # <<>> /\ s[Len(s)] = state)
  <2>1. Queued(s, state) = Append(s, state)
    BY <1>2 DEF Queued
  <2> QED BY <2>1 DEF NoEnd
<1> QED BY <1>1, <1>2

LEMMA ListCountInv ==
  ASSUME CountInv, ListAndWatch
  PROVE  CountInv'
<1> USE DEF managerVars, processVars
<1>1. \A e \in Events : notices[e] \in Seq(PodStates)
  BY DEF CountInv, TypeOK
<1>2. UNCHANGED <<mgr, tick, late, view, pod, granted, recent, running, restarts>>
      /\ watching' /\ running
  BY DEF ListAndWatch
<1>3. \A e \in Events :
        notices'[e] = IF pod[e] \in PodStates THEN Queued(notices[e], pod[e])
                                              ELSE notices[e]
  BY DEF ListAndWatch
<1>4. notices' \in [Events -> Seq(PodStates)]
  BY <1>1, LastQueued DEF ListAndWatch
<1>5. TypeOK'
  BY <1>2, <1>4 DEF ListAndWatch, CountInv, TypeOK
<1>6. NoticesInOrder'
  <2>1. ASSUME NEW e \in Events, e \in Active
        PROVE  NoEnd(notices'[e])
    <3>1. pod[e] \in PodStates /\ pod[e] # "Over"
          /\ NoEnd(notices[e])
      BY <2>1 DEF Active, Counted, PodStates, CountInv, NoticesInOrder
    <3> QED BY <1>1, <1>3, <3>1, LastQueued
  <2>2. NoPod \notin PodStates
    BY DEF NoPod, PodStates
  <2> QED BY <1>2, <1>3, <2>1, <2>2 DEF CountInv, NoticesInOrder, Active
<1>7. ActivePodsCounted'
  <2>1. \A e \in Active : notices'[e] # <<>>
    BY <1>1, <1>3, LastQueued DEF Active, Counted, PodStates
  <2> QED BY <1>2, <2>1 DEF CountInv, ActivePodsCounted, Active
<1> QED BY <1>5, <1>6, <1>7 DEF CountInv

LEMMA BreakCountInv ==
  ASSUME CountInv, WatchBreaks
  PROVE  CountInv'
BY DEF WatchBreaks, managerVars, podVars, processVars, CountInv, TypeOK,
       NoticesInOrder, ActivePodsCounted, Active

LEMMA PodCountInv ==
  ASSUME CountInv, NEW e \in Events, PodCreated(e) \/ PodStep(e)
  PROVE  CountInv'
<1> USE DEF managerVars, informerVars, processVars
<1>0. notices \in [Events -> Seq(PodStates)] /\ notices[e] \in Seq(PodStates)
  BY DEF CountInv, TypeOK
<1>1. ASSUME NEW state \in PodStates, pod' = [pod EXCEPT ![e] = state],
             Notify(e, state), granted' \subseteq granted,
             recent \subseteq recent', recent' \subseteq Events,
             missed' \subseteq Events,
             UNCHANGED <<mgr, tick, late, view, watching, running, restarts>>,
             pod[e] = NoPod => e \in recent',
             state # "Over" => pod[e] = NoPod \/ e \in Active
      PROVE  CountInv'
  <2>1. /\ notices' \in [Events -> Seq(PodStates)]
        /\ \A d \in Events \ {e} : notices'[d] = notices[d] /\ pod'[d] = pod[d]
        /\ notices'[e] = IF watching THEN Queued(notices[e], state)
                                     ELSE notices[e]
        /\ pod'[e] = state
    BY <1>0, <1>1, LastQueued DEF Notify, CountInv, TypeOK
  <2>2. TypeOK'
    BY <1>1, <2>1 DEF CountInv, TypeOK
  <2>3. NoticesInOrder'
    <3>1. state # NoPod
      BY DEF PodStates, NoPod
    <3>2. state # "Over" => NoEnd(notices[e])
      BY <1>1 DEF CountInv, NoticesInOrder, NoEnd
    <3>3. state # "Over" => NoEnd(notices'[e])
      BY <1>0, <2>1, <3>2, LastQueued
    <3>4. ~running => notices'[e] = notices[e]
      BY <2>1 DEF CountInv, NoticesInOrder
    <3> QED BY <1>1, <2>1, <3>1, <3>3, <3>4
            DEF CountInv, NoticesInOrder, Active, Counted
  <2>4. ActivePodsCounted'
    <3>1. watching => notices'[e] # <<>>
      BY <1>0, <2>1, LastQueued
    <3>2. ASSUME NEW d \in Events \ {e}
          PROVE  d \in Active' <=> d \in Active
      BY <2>1 DEF Active
    <3>3. e \in Active' => state # "Over"
      BY <2>1 DEF Active, Counted
    <3>4. running /\ e \in Active' /\ e \notin view => e \in recent'
      BY <1>1, <3>3 DEF CountInv, ActivePodsCounted
    <3> QED BY <1>1, <2>1, <3>1, <3>2, <3>4
            DEF CountInv, ActivePodsCounted, Active
  <2> QED BY <2>2, <2>3, <2>4 DEF CountInv
<1>2. CASE PodCreated(e)
  BY <1>1, <1>2 DEF PodCreated, PodStates, CountInv, TypeOK
<1>3. CASE PodRuns(e)
  BY <1>1, <1>3 DEF PodRuns, PodBecomes, PodStates, NoPod, Active, Counted, CountInv,
                    TypeOK
<1>4. CASE PodOver(e)
  BY <1>1, <1>4 DEF PodOver, PodBecomes, PodStates, NoPod, Active, Counted, CountInv,
                    TypeOK
<1>5. CASE PodGone(e)
  <2>1. TypeOK'
    BY <1>5 DEF PodGone, CountInv, TypeOK
  <2>2. \A d \in Events : /\ d \in Active' => d \in Active
                          /\ pod'[d] = NoPod => pod[d] = NoPod
    BY <1>5 DEF PodGone, CountInv, TypeOK, Active, Counted, NoPod
  <2>3. UNCHANGED <<notices, view, watching, recent, running>>
    BY <1>5 DEF PodGone
  <2>4. NoticesInOrder'
    BY <2>2, <2>3 DEF CountInv, NoticesInOrder
  <2>5. ActivePodsCounted'
    BY <2>2, <2>3 DEF CountInv, ActivePodsCounted, Active
  <2> QED BY <2>1, <2>4, <2>5 DEF CountInv
<1> QED BY <1>2, <1>3, <1>4, <1>5 DEF PodStep

LEMMA RestartCountInv ==
  ASSUME CountInv,
         \/ restarts < MaxRestarts /\ ProcessStops
         \/ SyncExistingWorkerPods
  PROVE  CountInv'
<1> USE DEF managerVars
<1>1. CASE restarts < MaxRestarts /\ ProcessStops
  <2>1. \A e \in Events : notices'[e] = <<>>
    BY <1>1 DEF ProcessStops
  <2>2. notices' \in [Events -> Seq(PodStates)]
    BY <1>1 DEF ProcessStops
  <2>3. restarts' \in 0..MaxRestarts
    BY <1>1, EnvironmentAssumption DEF ProcessStops, CountInv, TypeOK
  <2>4. TypeOK'
    BY <1>1, <2>2, <2>3 DEF ProcessStops, CountInv, TypeOK
  <2>5. NoticesInOrder' /\ ActivePodsCounted'
    BY <1>1, <2>1 DEF ProcessStops, NoticesInOrder, NoEnd, ActivePodsCounted
  <2> QED BY <2>4, <2>5 DEF CountInv
<1>2. CASE SyncExistingWorkerPods
  <2>1. TypeOK'
    BY <1>2 DEF SyncExistingWorkerPods, CountInv, TypeOK, Active
  <2>2. NoticesInOrder'
    BY <1>2 DEF SyncExistingWorkerPods, CountInv, NoticesInOrder, Active
  <2>3. ActivePodsCounted'
    BY <1>2 DEF SyncExistingWorkerPods, ActivePodsCounted, Active
  <2> QED BY <2>1, <2>2, <2>3 DEF CountInv
<1> QED BY <1>1, <1>2

LEMMA NextCountInv == CountInv /\ [Next]_capacityVars => CountInv'
<1>1. CountInv /\ Next => CountInv'
  BY ManagerCountInv, SyncCountInv, ListCountInv, BreakCountInv, PodCountInv,
     RestartCountInv DEF Next, LoopStep
<1>2. CountInv /\ UNCHANGED capacityVars => CountInv'
  BY DEF capacityVars, managerVars, informerVars, podVars, processVars, CountInv,
         TypeOK, NoticesInOrder, ActivePodsCounted, Active
<1> QED BY <1>1, <1>2

LEMMA CountInvariant == Spec => []CountInv
BY InitCountInv, NextCountInv, PTL DEF Spec

(* Type correctness of the capacity manager and the informer.              *)
THEOREM CapacityTypeCorrect == Spec => []TypeOK
<1>1. CountInv => TypeOK
  BY DEF CountInv
<1> QED BY <1>1, CountInvariant, PTL

(* The count misses only pods created since the process began that the     *)
(* informer has yet to list or to tell of, also across restarts, watches   *)
(* that break and pods that are deleted.                                   *)
THEOREM CountIsComplete == Spec => []ActivePodsCounted
<1>1. CountInv => ActivePodsCounted
  BY DEF CountInv
<1> QED BY <1>1, CountInvariant, PTL

-----------------------------------------------------------------------------
(* PlacesReleased.  Of a pod that ended the informer was not told, or the  *)
(* last thing it has to tell is the end; when that is told the pod does not*)
(* count.  A listing makes up for an end that was missed, if the pod is    *)
(* still there.                                                            *)

ToldOfEnd(e) ==
  IF notices[e] = <<>> THEN e \notin view
                       ELSE notices[e][Len(notices[e])] = "Over"

EndTold ==
  /\ \A e \in Events : pod[e] = NoPod => e \notin view
  /\ running => \A e \in Events :
       pod[e] \in {"Over", "gone"} =>
         \/ e \in missed /\ (pod[e] = "Over" => ~watching)
         \/ ToldOfEnd(e)

ReleaseInv == CountInv /\ EndTold

LEMMA InitReleaseInv == InitCapacity => ReleaseInv
BY InitCountInv DEF InitCapacity, ReleaseInv, EndTold, NoPod

LEMMA LastOfTail ==
  ASSUME NEW s \in Seq(PodStates), s # <<>>
  PROVE  /\ Tail(s) = <<>> => Head(s) = s[Len(s)]
         /\ Tail(s) # <<>> => Tail(s)[Len(Tail(s))] = s[Len(s)]
<1>1. Len(s) \in Nat \ {0} /\ Tail(s) \in Seq(PodStates)
      /\ Len(Tail(s)) = Len(s) - 1
  OBVIOUS
<1>2. CASE Len(s) = 1
  <2>1. Head(s) = s[Len(s)]
    BY <1>2
  <2>2. Tail(s) \in Seq(PodStates) /\ Len(Tail(s)) \notin Nat \ {0}
    BY <1>1, <1>2
  <2>3. Tail(s) = <<>>
    BY ONLY <2>2, EmptySeq
  <2> QED BY <2>1, <2>3
<1>3. CASE Len(s) # 1
  <2>1. Len(Tail(s)) \in 1..(Len(s) - 1)
    BY <1>1, <1>3
  <2>2. Tail(s)[Len(Tail(s))] = s[Len(Tail(s)) + 1]
    BY <2>1
  <2>3. Tail(s) # <<>>
    BY <2>1
  <2> QED BY <1>1, <2>2, <2>3
<1> QED BY <1>2, <1>3

LEMMA SyncEndTold ==
  ASSUME ReleaseInv, NEW e \in Events, SyncWorkerPod(e)
  PROVE  EndTold'
<1> USE DEF podVars, processVars
<1> DEFINE s == notices[e]
<1>1. s \in Seq(PodStates) /\ s # <<>>
  BY DEF ReleaseInv, CountInv, TypeOK, SyncWorkerPod
<1>2. /\ UNCHANGED <<pod, watching, missed, running>> /\ notices'[e] = Tail(s)
      /\ view' \subseteq view \cup {e}
      /\ Head(s) = "Over" => view' = view \ {e}
      /\ \A d \in Events \ {e} : notices'[d] = notices[d]
  BY DEF SyncWorkerPod, ReleaseInv, CountInv, TypeOK, Counted
<1>3. pod[e] # NoPod
  BY <1>1 DEF ReleaseInv, CountInv, NoticesInOrder
<1>4. s[Len(s)] = "Over" => IF Tail(s) = <<>> THEN Head(s) = "Over"
                            ELSE Tail(s)[Len(Tail(s))] = "Over"
  BY <1>1, LastOfTail
<1>5. ToldOfEnd(e) => ToldOfEnd(e)'
  BY <1>1, <1>2, <1>4 DEF ToldOfEnd
<1>6. ASSUME NEW d \in Events \ {e}
      PROVE  (ToldOfEnd(d) => ToldOfEnd(d)') /\ (d \notin view => d \notin view')
  BY <1>2 DEF ToldOfEnd
<1> HIDE DEF s
<1> QED BY <1>2, <1>3, <1>5, <1>6 DEF ReleaseInv, EndTold

LEMMA PodEndTold ==
  ASSUME ReleaseInv, NEW e \in Events, PodCreated(e) \/ PodStep(e)
  PROVE  EndTold'
<1> USE DEF managerVars, informerVars, processVars
<1>0. notices[e] \in Seq(PodStates) /\ UNCHANGED <<view, watching, running>>
      /\ missed \subseteq missed'
  BY DEF ReleaseInv, CountInv, TypeOK, PodCreated, PodStep, PodRuns, PodOver,
         PodGone, PodBecomes
<1>1. \A d \in Events \ {e} : pod'[d] = pod[d] /\ notices'[d] = notices[d]
  BY DEF ReleaseInv, CountInv, TypeOK, PodCreated, PodStep, PodRuns, PodOver,
         PodGone, PodBecomes, Notify
<1>2. ASSUME pod'[e] # NoPod,
             running /\ pod'[e] \in {"Over", "gone"} =>
               \/ e \in missed' /\ (pod'[e] = "Over" => ~watching)
               \/ ToldOfEnd(e)'
      PROVE  EndTold'
  <2>1. ASSUME NEW d \in Events \ {e}
        PROVE  ToldOfEnd(d) => ToldOfEnd(d)'
    BY <1>0, <1>1 DEF ToldOfEnd
  <2> QED BY <1>0, <1>1, <1>2, <2>1 DEF ReleaseInv, EndTold
<1>3. CASE PodCreated(e) \/ PodRuns(e)
  BY <1>2, <1>3 DEF PodCreated, PodRuns, PodBecomes, ReleaseInv, CountInv, TypeOK,
                    NoPod
<1>4. CASE PodOver(e)
  <2>1. pod'[e] = "Over"
    BY <1>4 DEF PodOver, PodBecomes, ReleaseInv, CountInv, TypeOK
  <2>2. watching => notices'[e] = Queued(notices[e], "Over")
    BY <1>4 DEF PodOver, PodBecomes, Notify, ReleaseInv, CountInv, TypeOK
  <2>3. watching => ToldOfEnd(e)'
    BY <1>0, <2>2, LastQueued DEF ToldOfEnd, PodStates
  <2>4. ~watching => e \in missed'
    BY <1>4 DEF PodOver
  <2> QED BY <1>2, <2>1, <2>3, <2>4 DEF NoPod
<1>5. CASE PodGone(e)
  <2>1. pod'[e] = "gone" /\ notices' = notices
    BY <1>5 DEF PodGone, ReleaseInv, CountInv, TypeOK
  <2>2. CASE e \in Active
    BY <1>2, <1>5, <2>1, <2>2 DEF PodGone, NoPod
  <2>3. CASE e \notin Active
    <3>1. pod[e] = "Over"
      BY <1>5, <2>3 DEF PodGone
    <3>2. ToldOfEnd(e) => ToldOfEnd(e)'
      BY <1>0, <2>1 DEF ToldOfEnd
    <3> QED BY <1>0, <1>2, <2>1, <3>1, <3>2 DEF ReleaseInv, EndTold, NoPod
  <2> QED BY <2>2, <2>3
<1> QED BY <1>3, <1>4, <1>5 DEF PodStep

(* A listing tells of every end that can still be seen.                    *)
LEMMA ListEndTold ==
  ASSUME ReleaseInv, ListAndWatch
  PROVE  EndTold'
<1> USE DEF managerVars, processVars
<1>1. \A e \in Events : notices[e] \in Seq(PodStates)
  BY DEF ReleaseInv, CountInv, TypeOK
<1>2. UNCHANGED <<view, pod, running>> /\ running
  BY DEF ListAndWatch
<1>3. \A e \in Events :
        notices'[e] = IF pod[e] \in PodStates THEN Queued(notices[e], pod[e])
                                              ELSE notices[e]
  BY DEF ListAndWatch
<1>4. ASSUME NEW e \in Events, pod[e] = "Over" PROVE ToldOfEnd(e)'
  BY <1>1, <1>3, <1>4, LastQueued DEF ToldOfEnd, PodStates
<1>5. ASSUME NEW e \in Events, pod[e] = "gone"
      PROVE  e \in missed' \/ ToldOfEnd(e)'
  <2>1. notices'[e] = notices[e]
    BY <1>3, <1>5 DEF PodStates
  <2>2. ToldOfEnd(e) => ToldOfEnd(e)'
    BY <1>2, <2>1 DEF ToldOfEnd
  <2>3. e \in missed => e \in missed'
    BY <1>5 DEF ListAndWatch
  <2> QED BY <1>2, <1>5, <2>2, <2>3 DEF ReleaseInv, EndTold
<1> QED BY <1>2, <1>4, <1>5 DEF ReleaseInv, EndTold

LEMMA NextReleaseInv == ReleaseInv /\ [Next]_capacityVars => ReleaseInv'
<1> USE DEF managerVars, informerVars, podVars, processVars
<1>1. ASSUME ReleaseInv, UNCHANGED <<pod, view, notices, missed, running>>,
             watching' => watching
      PROVE  EndTold'
  <2>1. ASSUME NEW e \in Events PROVE ToldOfEnd(e)' <=> ToldOfEnd(e)
    BY <1>1 DEF ToldOfEnd
  <2> QED BY <1>1, <2>1 DEF ReleaseInv, EndTold
<1>2. ASSUME ReleaseInv,
             \/ ManagerStep \/ WatchBreaks
             \/ \E e \in Events : GrantSlot(e) \/ SlotWasted(e)
      PROVE  EndTold'
  BY <1>1, <1>2 DEF ManagerStep, CountPods, WakeUp, Tick, GrantSlot, SlotWasted,
                    WatchBreaks
<1>3. ASSUME ReleaseInv, ProcessStops
      PROVE  EndTold'
  BY <1>3 DEF ProcessStops, EndTold
<1>4. ASSUME ReleaseInv, SyncExistingWorkerPods
      PROVE  EndTold'
  BY <1>4 DEF SyncExistingWorkerPods, ReleaseInv, CountInv, NoticesInOrder, EndTold,
              ToldOfEnd, Active, Counted, NoPod
<1>5. ReleaseInv /\ Next => EndTold'
  BY <1>2, <1>3, <1>4, SyncEndTold, PodEndTold, ListEndTold DEF Next, LoopStep
<1>6. ReleaseInv /\ UNCHANGED capacityVars => EndTold'
  BY <1>1 DEF capacityVars
<1> QED BY <1>5, <1>6, NextCountInv DEF ReleaseInv

(* A pod that is over leaves the count, for any capacity and any number of *)
(* events and restarts, across watches that break; a place is only kept by *)
(* a pod whose end the informer was not told of and that no listing has    *)
(* found since.                                                            *)
THEOREM PlacesAreReleased == Spec => []PlacesReleased
<1>1. ReleaseInv => PlacesReleased
  BY DEF ReleaseInv, CountInv, TypeOK, EndTold, ToldOfEnd, PlacesReleased, Active,
         Counted, PodStates
<1> QED BY <1>1, InitReleaseInv, NextReleaseInv, PTL DEF Spec

-----------------------------------------------------------------------------
(* OvershootBounded.  A pod holds its slot from the grant on.  Slots whose *)
(* holder the manager does not count yet are fresh; those granted since the*)
(* last tick are new.  With a tick in its channel the manager grants a slot*)
(* more before the next tick: at most two new slots per period, and, since *)
(* none stays unseen over two ticks, at most three fresh ones.  When it    *)
(* counts there are at most two, so that what it offers exceeds what it    *)
(* counts by two at most.                                                  *)

Holders == Active \cup {e \in granted : pod[e] = NoPod}

Fresh == Holders \ view

Budget == (IF mgr = "sleep" THEN 0 ELSE 1) + (IF tick THEN 1 ELSE 0)

SlotsBounded ==
  /\ Cardinality(Fresh \ late) + Budget <= 2
  /\ Cardinality(Fresh) + Budget <= 3
  /\ Cardinality(Holders) <= Capacity + 2
  /\ mgr = "offer" => Cardinality(Holders) <= Capacity + 1

OvershootInv ==
  PromptStarts /\ restarts = 0 => running /\ SlotsBounded

LEMMA HoldersFinite ==
  ASSUME CountInv, NEW S \in SUBSET Holders
  PROVE  IsFiniteSet(S) /\ Cardinality(S) \in Nat
<1>1. Holders \subseteq Events
  BY DEF Holders, Active, CountInv, TypeOK
<1> QED BY <1>1, EventsAssumption, FS_Subset, FS_CardinalityType

LEMMA InitOvershootInv == InitCapacity => OvershootInv
<1> SUFFICES ASSUME InitCapacity PROVE running /\ SlotsBounded
  BY DEF OvershootInv
<1>1. Holders = {} /\ Fresh = {} /\ Fresh \ late = {}
  BY DEF InitCapacity, Holders, Fresh, Active, Counted, NoPod
<1>2. Budget = 1
  BY DEF InitCapacity, Budget
<1> QED BY <1>1, <1>2, FS_EmptySet, CapacityAssumption
        DEF InitCapacity, SlotsBounded

(* A step that gives no slot and does not make the manager count.          *)
LEMMA NothingGranted ==
  ASSUME CountInv, CountInv', SlotsBounded,
         Holders' \subseteq Holders, Fresh' \subseteq Fresh, late' = late,
         Budget' <= Budget, Budget \in Nat, Budget' \in Nat,
         mgr' = "offer" => mgr = "offer"
  PROVE  SlotsBounded'
<1>1. /\ IsFiniteSet(Holders) /\ IsFiniteSet(Fresh) /\ IsFiniteSet(Fresh \ late)
      /\ Cardinality(Holders) \in Nat /\ Cardinality(Fresh) \in Nat
      /\ Cardinality(Fresh \ late) \in Nat
  BY HoldersFinite DEF Fresh
<1>2. /\ Cardinality(Holders') <= Cardinality(Holders)
      /\ Cardinality(Holders') \in Nat
  BY <1>1, FS_Subset, FS_CardinalityType
<1>3. /\ Cardinality(Fresh') <= Cardinality(Fresh)
      /\ Cardinality(Fresh') \in Nat
  BY <1>1, FS_Subset, FS_CardinalityType
<1>4. /\ Cardinality(Fresh' \ late') <= Cardinality(Fresh \ late)
      /\ Cardinality(Fresh' \ late') \in Nat
  <2>1. Fresh' \ late' \subseteq Fresh \ late
    OBVIOUS
  <2> QED BY <1>1, <2>1, FS_Subset, FS_CardinalityType
<1> QED BY <1>1, <1>2, <1>3, <1>4, CapacityAssumption DEF SlotsBounded

LEMMA GrantBounded ==
  ASSUME CountInv, CountInv', SlotsBounded, NEW e \in Events, GrantSlot(e)
  PROVE  SlotsBounded'
<1>1. /\ Holders' \subseteq Holders \cup {e} /\ Fresh' \subseteq Fresh \cup {e}
      /\ Fresh' \ late' \subseteq (Fresh \ late) \cup {e}
  BY DEF GrantSlot, Holders, Fresh, Active, managerVars, informerVars
<1>2. /\ IsFiniteSet(Holders) /\ IsFiniteSet(Fresh) /\ IsFiniteSet(Fresh \ late)
      /\ Cardinality(Holders) \in Nat /\ Cardinality(Fresh) \in Nat
      /\ Cardinality(Fresh \ late) \in Nat
  BY HoldersFinite DEF Fresh
<1>3. ASSUME NEW S, NEW T, IsFiniteSet(S), T \subseteq S \cup {e}
      PROVE  Cardinality(T) \in Nat /\ Cardinality(T) <= Cardinality(S) + 1
  <2>1. /\ IsFiniteSet(S \cup {e})
        /\ Cardinality(S \cup {e}) = IF e \in S THEN Cardinality(S)
                                               ELSE Cardinality(S) + 1
    BY <1>3, FS_AddElement
  <2>2. IsFiniteSet(T) /\ Cardinality(T) <= Cardinality(S \cup {e})
    BY <1>3, <2>1, FS_Subset
  <2>3. Cardinality(S) \in Nat /\ Cardinality(T) \in Nat
    BY <1>3, <2>2, FS_CardinalityType
  <2> QED BY <2>1, <2>2, <2>3
<1>4. /\ Cardinality(Holders') \in Nat
      /\ Cardinality(Holders') <= Cardinality(Holders) + 1
  BY <1>1, <1>2, <1>3
<1>5. /\ Cardinality(Fresh') \in Nat
      /\ Cardinality(Fresh') <= Cardinality(Fresh) + 1
  BY <1>1, <1>2, <1>3
<1>6. /\ Cardinality(Fresh' \ late') \in Nat
      /\ Cardinality(Fresh' \ late') <= Cardinality(Fresh \ late) + 1
  BY <1>1, <1>2, <1>3
<1>7. mgr = "offer" /\ mgr' = "sleep"
  BY DEF GrantSlot
<1>8. Cardinality(Fresh' \ late') + Budget' <= 2
  <2> DEFINE m == Cardinality(Fresh \ late)
             n == Cardinality(Fresh' \ late')
  <2>1. m \in Nat /\ n \in Nat /\ n <= m + 1 /\ m + Budget <= 2
    BY <1>2, <1>6 DEF SlotsBounded
  <2> HIDE DEF m, n
  <2>2. n + Budget' <= 2
    BY <2>1 DEF GrantSlot, Budget
  <2> QED BY <2>2 DEF n
<1>9. Cardinality(Fresh') + Budget' <= 3
  <2> DEFINE m == Cardinality(Fresh)
             n == Cardinality(Fresh')
  <2>1. m \in Nat /\ n \in Nat /\ n <= m + 1 /\ m + Budget <= 3
    BY <1>2, <1>5 DEF SlotsBounded
  <2> HIDE DEF m, n
  <2>2. n + Budget' <= 3
    BY <2>1 DEF GrantSlot, Budget
  <2> QED BY <2>2 DEF n
<1>10. Cardinality(Holders') <= Capacity + 2
  BY <1>2, <1>4, <1>7, CapacityAssumption DEF SlotsBounded
<1> QED BY <1>7, <1>8, <1>9, <1>10 DEF SlotsBounded

(* The manager offers a slot if it counts less than its capacity: what it  *)
(* counts of the slots that are held, and at most two more.                *)
LEMMA CountBounded ==
  ASSUME CountInv, CountInv', SlotsBounded, CountPods
  PROVE  SlotsBounded'
<1>1. UNCHANGED <<Holders, Fresh, late>>
  BY DEF CountPods, Holders, Fresh, Active, informerVars, podVars
<1>2. Budget = (IF tick THEN 2 ELSE 1) /\ Budget' \in {Budget, Budget - 1}
  BY DEF CountPods, Budget
<1>3. CASE Cardinality(view) < Capacity
  <2>1. IsFiniteSet(view) /\ Cardinality(view) \in Nat
    BY EventsAssumption, FS_Subset, FS_CardinalityType DEF CountInv, TypeOK
  <2>2. Cardinality(Fresh) \in Nat /\ IsFiniteSet(Fresh) /\ Cardinality(Fresh) <= 2
    <3>1. Cardinality(Fresh) \in Nat /\ IsFiniteSet(Fresh)
      BY HoldersFinite DEF Fresh
    <3> QED BY <1>2, <3>1 DEF SlotsBounded
  <2>3. Holders \subseteq view \cup Fresh
    BY DEF Fresh
  <2>4. IsFiniteSet(view \cup Fresh)
        /\ Cardinality(view \cup Fresh) <= Cardinality(view) + Cardinality(Fresh)
        /\ Cardinality(view \cup Fresh) \in Nat
    <3>1. Cardinality(view \cap Fresh) \in Nat
      BY <2>1, FS_Intersection, FS_CardinalityType
    <3>2. /\ IsFiniteSet(view \cup Fresh)
          /\ Cardinality(view \cup Fresh) =
               Cardinality(view) + Cardinality(Fresh) - Cardinality(view \cap Fresh)
      BY <2>1, <2>2, FS_Union
    <3>3. Cardinality(view \cup Fresh) \in Nat
      BY <3>2, FS_CardinalityType
    <3> QED BY <2>1, <2>2, <3>1, <3>2, <3>3
  <2>5. Cardinality(Holders) \in Nat
        /\ Cardinality(Holders) <= Cardinality(view \cup Fresh)
    BY <2>3, <2>4, FS_Subset, FS_CardinalityType
  <2>6. Cardinality(Holders) <= Capacity + 1
    BY <1>3, <2>1, <2>2, <2>4, <2>5, CapacityAssumption
  <2>7. Budget' = Budget
    BY <1>3 DEF CountPods, Budget
  <2> QED BY <1>1, <2>6, <2>7 DEF SlotsBounded
<1>4. CASE ~(Cardinality(view) < Capacity)
  <2>1. mgr' = "sleep"
    BY <1>4 DEF CountPods
  <2> QED BY <1>1, <1>2, <2>1, NothingGranted
<1> QED BY <1>3, <1>4

(* At a tick what was new is not new any more.                             *)
LEMMA TickBounded ==
  ASSUME CountInv, CountInv', SlotsBounded, PromptStarts, Tick
  PROVE  SlotsBounded'
<1>1. UNCHANGED <<Holders, Fresh, mgr>>
  BY DEF Tick, Holders, Fresh, Active, informerVars, podVars
<1>2. Fresh \subseteq Unseen
  BY DEF Fresh, Holders, Unseen, Active, CountInv, TypeOK
<1>3. Fresh' \ late' = {} /\ Fresh \ late = Fresh
  BY <1>1, <1>2 DEF Tick
<1>4. Budget \in Nat /\ Budget' \in {1, 2} /\ Budget' <= Budget + 1
  BY DEF Tick, Budget
<1>5. Cardinality(Fresh) \in Nat /\ Cardinality(Fresh) + Budget <= 2
  BY <1>3, HoldersFinite DEF SlotsBounded, Fresh
<1>6. Cardinality(Fresh)' = Cardinality(Fresh)
      /\ Cardinality(Holders)' = Cardinality(Holders)
      /\ Cardinality(Fresh' \ late') = 0
  BY <1>1, <1>3, FS_EmptySet
<1>7. Cardinality(Fresh' \ late') + Budget' <= 2
  <2> DEFINE n == Cardinality(Fresh' \ late')
  <2>1. n = 0
    BY <1>6
  <2> HIDE DEF n
  <2>2. n + Budget' <= 2
    BY <2>1 DEF Budget
  <2> QED BY <2>2 DEF n
<1>8. Cardinality(Fresh)' + Budget' <= 3
  BY <1>4, <1>5, <1>6
<1> QED BY <1>1, <1>6, <1>7, <1>8 DEF SlotsBounded

(* Pods, the informer and wasted slots only ever free what is held.        *)
LEMMA PodsBounded ==
  ASSUME CountInv, CountInv', SlotsBounded, NEW e \in Events,
         \/ SyncWorkerPod(e) \/ PodStep(e) \/ SlotWasted(e)
         \/ e \in granted /\ PodCreated(e)
  PROVE  SlotsBounded'
<1>1. UNCHANGED <<mgr, tick, late>>
  BY DEF SyncWorkerPod, PodStep, PodRuns, PodOver, PodGone, PodBecomes, SlotWasted,
         PodCreated, managerVars
<1>2. Holders' \subseteq Holders /\ Fresh' \subseteq Fresh
  <2>1. CASE SyncWorkerPod(e)
    <3>1. Holders' = Holders
      BY <2>1 DEF SyncWorkerPod, Holders, Active, podVars
    <3>2. CASE Head(notices[e]) \in Counted
      BY <2>1, <3>1, <3>2 DEF SyncWorkerPod, Fresh
    <3>3. CASE Head(notices[e]) \notin Counted
      <4>1. notices[e] \in Seq(PodStates) /\ notices[e] # <<>>
        BY <2>1 DEF CountInv, TypeOK, SyncWorkerPod
      <4>2. Head(notices[e]) = "Over"
        BY <3>3, <4>1, HeadAndTail DEF PodStates, Counted
      <4>3. e \notin Holders
        BY <4>1, <4>2, HeadAndTail DEF CountInv, NoticesInOrder, NoEnd, Holders
      <4> QED BY <2>1, <3>1, <3>3, <4>3 DEF SyncWorkerPod, Fresh
    <3> QED BY <3>1, <3>2, <3>3
  <2>2. ASSUME UNCHANGED view, Holders' \subseteq Holders
        PROVE  Holders' \subseteq Holders /\ Fresh' \subseteq Fresh
    BY <2>2 DEF Fresh
  <2>3. CASE SlotWasted(e)
    BY <2>2, <2>3 DEF SlotWasted, Holders, Active, informerVars
  <2>4. CASE e \in granted /\ PodCreated(e)
    BY <2>2, <2>4 DEF PodCreated, Holders, Active, CountInv, TypeOK
  <2>5. CASE PodStep(e)
    BY <2>2, <2>5 DEF PodStep, PodRuns, PodOver, PodGone, PodBecomes, Holders, Active,
                      Counted, NoPod, CountInv, TypeOK, informerVars
  <2> QED BY <2>1, <2>3, <2>4, <2>5
<1>3. Budget' = Budget /\ Budget \in Nat
  BY <1>1 DEF Budget
<1> QED BY <1>1, <1>2, <1>3, NothingGranted

LEMMA NextOvershootInv ==
  ASSUME CountInv, CountInv', OvershootInv, [Next]_capacityVars
  PROVE  OvershootInv'
<1> USE DEF managerVars, informerVars, podVars, processVars
<1> SUFFICES ASSUME PromptStarts, restarts' = 0
             PROVE  running' /\ SlotsBounded'
  BY DEF OvershootInv
<1>1. CASE restarts = 0
  <2>0. running /\ SlotsBounded
    BY <1>1 DEF OvershootInv
  <2>1. CASE CountPods
    BY <2>0, <2>1, CountBounded DEF CountPods
  <2>2. CASE WakeUp
    <3>1. UNCHANGED <<Holders, Fresh, late>>
      BY <2>2 DEF WakeUp, Holders, Fresh, Active, informerVars, podVars
    <3>2. Budget = 1 /\ Budget' = 1 /\ mgr' = "count" /\ running'
      BY <2>0, <2>2 DEF WakeUp, Budget
    <3> QED BY <2>0, <3>1, <3>2, NothingGranted
  <2>3. CASE Tick
    BY <2>0, <2>3, TickBounded DEF Tick
  <2>4. ASSUME NEW e \in Events, GrantSlot(e) PROVE running' /\ SlotsBounded'
    BY <2>0, <2>4, GrantBounded DEF GrantSlot
  <2>5. ASSUME NEW e \in Events,
               \/ SyncWorkerPod(e) \/ PodStep(e) \/ SlotWasted(e)
               \/ e \in granted /\ PodCreated(e)
        PROVE  running' /\ SlotsBounded'
    <3>1. running' = running
      BY <2>5 DEF SyncWorkerPod, PodStep, PodRuns, PodOver, PodGone, PodBecomes,
                  SlotWasted, PodCreated
    <3> QED BY <2>0, <2>5, <3>1, PodsBounded
  <2>6. CASE ProcessStops
    BY <1>1, <2>6 DEF ProcessStops
  <2>7. CASE SyncExistingWorkerPods
    BY <2>0, <2>7 DEF SyncExistingWorkerPods
  <2>8. ASSUME ListAndWatch \/ WatchBreaks \/ UNCHANGED capacityVars
        PROVE  running' /\ SlotsBounded'
    <3>1. UNCHANGED <<Holders, Fresh, Budget, late, mgr, running>>
      BY <2>8 DEF ListAndWatch, WatchBreaks, capacityVars, Holders, Fresh, Budget,
                  Active
    <3> QED BY <2>0, <3>1 DEF SlotsBounded
  <2> QED BY <2>1, <2>2, <2>3, <2>4, <2>5, <2>6, <2>7, <2>8
          DEF Next, ManagerStep, LoopStep
<1>2. CASE restarts # 0
  <2>1. CASE ProcessStops
    BY <1>2, <2>1 DEF ProcessStops, CountInv, TypeOK
  <2>2. restarts' = restarts \/ ProcessStops
    BY DEF Next, ManagerStep, CountPods, WakeUp, Tick, LoopStep, GrantSlot,
           SyncWorkerPod, PodStep, PodRuns, PodOver, PodGone, PodBecomes, SlotWasted,
           PodCreated, SyncExistingWorkerPods, ListAndWatch, WatchBreaks,
           capacityVars
  <2> QED BY <1>2, <2>1, <2>2
<1> QED BY <1>1, <1>2

(* The soft limit: with prompt starts and before any restart, no more than *)
(* two pods over the capacity are active, whatever the capacity is.        *)
THEOREM OvershootIsBounded == Spec => []OvershootBounded
<1>1. CountInv /\ OvershootInv => OvershootBounded
  <2> SUFFICES ASSUME CountInv, OvershootInv, PromptStarts, restarts = 0
               PROVE  Cardinality(Active) <= Capacity + 2
    BY DEF OvershootBounded
  <2>1. Cardinality(Holders) <= Capacity + 2
    BY DEF OvershootInv, SlotsBounded
  <2>2. IsFiniteSet(Holders) /\ Cardinality(Holders) \in Nat
        /\ Cardinality(Active) \in Nat
    BY HoldersFinite DEF Holders
  <2>3. Cardinality(Active) <= Cardinality(Holders)
    BY <2>2, FS_Subset DEF Holders
  <2> QED BY <2>1, <2>2, <2>3, CapacityAssumption
<1>2. Spec => []OvershootInv
  BY CountInvariant, InitOvershootInv, NextOvershootInv, PTL DEF Spec
<1> QED BY <1>1, <1>2, CountInvariant, PTL
=============================================================================
