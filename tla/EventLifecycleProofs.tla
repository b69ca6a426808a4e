------------------------ MODULE EventLifecycleProofs ------------------------
(***************************************************************************)
(* Theorems about EventLifecycle, for any events, requests and selectors.  *)
(***************************************************************************)
EXTENDS EventLifecycle, TLAPS

-----------------------------------------------------------------------------
(* What the helpers that several actions share do to the types.            *)

(* A request stays well formed when one of its fields changes.             *)
LEMMA SetField ==
  ASSUME NEW f \in [Requests -> Request], NEW r \in Requests
  PROVE  /\ \A step \in Steps :
              [f EXCEPT ![r].pc = step] \in [Requests -> Request]
         /\ \A e \in Events :
              [f EXCEPT ![r].ev = e] \in [Requests -> Request]
         /\ \A sel \in SUBSET WorkerPhases :
              [f EXCEPT ![r].sel = sel] \in [Requests -> Request]
         /\ \A todo \in SUBSET Events :
              [f EXCEPT ![r].todo = todo] \in [Requests -> Request]
BY DEF Request

(* Whatever is left to clean up, StartCleanup leaves well-formed requests. *)
LEMMA StartCleanupType ==
  ASSUME req \in [Requests -> Request], NEW r \in Requests,
         NEW todo \in SUBSET Events, StartCleanup(r, todo)
  PROVE  req' \in [Requests -> Request]
<1>0. "done" \in Steps /\ "pods" \in Steps
  BY DEF Steps, CleanupSteps
<1>1. CASE todo = {}
  <2> DEFINE f == [req EXCEPT ![r].pc = "done"]
  <2>1. req' = [f EXCEPT ![r].todo = {}]
    BY <1>1 DEF StartCleanup
  <2>2. f \in [Requests -> Request]
    BY <1>0, SetField
  <2> QED BY <2>1, <2>2, SetField
<1>2. CASE todo # {}
  <2>1. PICK e \in todo :
          req' = [req EXCEPT ![r].pc = "pods", ![r].ev = e, ![r].todo = todo]
    BY <1>2 DEF StartCleanup
  <2> DEFINE f == [req EXCEPT ![r].pc = "pods"]
             g == [f EXCEPT ![r].ev = e]
  <2>2. req' = [g EXCEPT ![r].todo = todo]
    BY <2>1
  <2>3. f \in [Requests -> Request]
    BY <1>0, SetField
  <2>4. g \in [Requests -> Request]
    BY <2>3, SetField
  <2> QED BY <2>2, <2>4, SetField
<1> QED BY <1>1, <1>2

(* So do the two ways in which requests begin.                             *)
LEMMA BeginType ==
  ASSUME req \in [Requests -> Request], NEW r \in Requests, NEW step \in Steps
  PROVE  /\ \A e \in Events :
              [req EXCEPT ![r].pc = step, ![r].ev = e] \in [Requests -> Request]
         /\ \A sel \in SUBSET WorkerPhases :
              [req EXCEPT ![r].pc = step, ![r].sel = sel]
                \in [Requests -> Request]
<1> DEFINE f == [req EXCEPT ![r].pc = step]
<1>1. f \in [Requests -> Request]
  BY SetField
<1>2. ASSUME NEW e \in Events
      PROVE  [req EXCEPT ![r].pc = step, ![r].ev = e] \in [Requests -> Request]
  <2>1. [f EXCEPT ![r].ev = e] \in [Requests -> Request]
    BY <1>1, SetField
  <2> QED BY <2>1
<1>3. ASSUME NEW sel \in SUBSET WorkerPhases
      PROVE  [req EXCEPT ![r].pc = step, ![r].sel = sel]
               \in [Requests -> Request]
  <2>1. [f EXCEPT ![r].sel = sel] \in [Requests -> Request]
    BY <1>1, SetField
  <2> QED BY <2>1
<1> QED BY <1>2, <1>3

LEMMA NextCleanupType ==
  ASSUME req \in [Requests -> Request], NEW r \in Requests, NextCleanup(r)
  PROVE  req' \in [Requests -> Request]
<1>1. req[r].todo \ {req[r].ev} \in SUBSET Events
  BY DEF Request
<1> QED BY <1>1, StartCleanupType DEF NextCleanup

LEMMA GotoType ==
  ASSUME req \in [Requests -> Request], NEW r \in Requests,
         NEW step \in Steps, Goto(r, step)
  PROVE  req' \in [Requests -> Request]
BY DEF Goto, Request

(* A pod's phase is always read as one of the observed worker phases.      *)
LEMMA WorkerPhaseOfType ==
  ASSUME NEW p PROVE WorkerPhaseOf(p) \in ObservedPhases
BY DEF WorkerPhaseOf, ObservedPhases

LEMMA UpdatePhaseType ==
  ASSUME TypeOK, NEW r \in Requests, NEW S \in SUBSET Events,
         NEW from, NEW to \in WorkerPhases, UpdatePhase(r, S, from, to)
  PROVE  /\ phase' \in [Events -> WorkerPhases \cup {Absent}]
         /\ canceled' \in [Events -> Requests \cup {NoRequest}]
         /\ withdrawn' \subseteq Events
         /\ raced' \subseteq Events
BY DEF TypeOK, UpdatePhase, Withdraw

LEMMA RemoveDocsType ==
  ASSUME TypeOK, NEW S \in SUBSET Events, RemoveDocs(S)
  PROVE  /\ phase' \in [Events -> WorkerPhases \cup {Absent}]
         /\ canceled' \in [Events -> Requests \cup {NoRequest}]
         /\ deleted' \in [Events -> Requests \cup {NoRequest}]
BY DEF TypeOK, RemoveDocs

-----------------------------------------------------------------------------
(* TypeOK is inductive: one lemma per group of actions.                    *)

LEMMA CreateTypeOK ==
  ASSUME TypeOK, NEW e \in Events,
         CreateEvent(e) \/ CreateStep(e) \/ CreateFails(e)
  PROVE  TypeOK'
<1> USE DEF TypeOK, docVars, k8sVars, auxVars
<1>1. CASE CreateEvent(e)
  BY <1>1 DEF CreateEvent, WorkerPhases
<1>2. CASE CreateEventSecret(e)
  BY <1>2 DEF CreateEventSecret
<1>3. CASE PublishWorker(e)
  BY <1>3 DEF PublishWorker
<1>4. CASE CreateFails(e)
  BY <1>4 DEF CreateFails
<1> QED BY <1>1, <1>2, <1>3, <1>4 DEF CreateStep

LEMMA CallTypeOK ==
  ASSUME TypeOK, NEW r \in Requests, Call(r)
  PROVE  TypeOK'
<1>0. req \in [Requests -> Request] /\ Selectors \subseteq SUBSET WorkerPhases
  BY SelectorsAssumption DEF TypeOK
<1>1. {"startPVC", "startPod", "cancelPending", "deleteDoc", "manyPending",
       "markDeleted", "done"} \subseteq Steps
  BY DEF Steps
<1>2. req' \in [Requests -> Request]
  <2>1. ASSUME NEW e \in Events, Start(r, e) \/ Cancel(r, e) \/ Delete(r, e)
        PROVE  req' \in [Requests -> Request]
    <3>1. PICK step \in Steps : req' = [req EXCEPT ![r].pc = step, ![r].ev = e]
      BY <1>1, <2>1 DEF Start, Cancel, Delete
    <3> QED BY <1>0, <3>1, BeginType
  <2>2. ASSUME NEW sel \in Selectors, CancelMany(r, sel) \/ DeleteMany(r, sel)
        PROVE  req' \in [Requests -> Request]
    <3>1. PICK step \in Steps :
            req' = [req EXCEPT ![r].pc = step, ![r].sel = sel]
      BY <1>1, <2>2 DEF CancelMany, DeleteMany
    <3> QED BY <1>0, <3>1, BeginType
  <2> QED BY <2>1, <2>2 DEF Call
<1>3. UNCHANGED <<docVars, k8sVars, published, create, reports, auxVars>>
  BY DEF Call, Start, Cancel, Delete, CancelMany, DeleteMany
<1> QED BY <1>2, <1>3 DEF TypeOK, docVars, k8sVars, auxVars

LEMMA HandlerTypeOK ==
  ASSUME TypeOK, NEW r \in Requests, HandlerStep(r)
  PROVE  TypeOK'
<1> DEFINE e == req[r].ev
<1>0. /\ req \in [Requests -> Request] /\ e \in Events
      /\ {"done", "startPod", "cancelRunning", "manyRunning", "manyFind",
          "findDeleted", "pvcs", "secrets"} \subseteq Steps
      /\ {"CANCELED", "ABORTED"} \subseteq WorkerPhases
  BY DEF TypeOK, Request, Steps, CleanupSteps, WorkerPhases
<1>1. CASE CreateWorkspacePVC(r)
  <2>1. req' \in [Requests -> Request]
    BY <1>0, <1>1, GotoType DEF CreateWorkspacePVC
  <2> QED BY <1>0, <1>1, <2>1 DEF CreateWorkspacePVC, TypeOK, docVars, auxVars
<1>2. CASE CreateWorkerPod(r)
  <2>1. req' \in [Requests -> Request]
    BY <1>0, <1>2, GotoType DEF CreateWorkerPod
  <2> QED BY <1>0, <1>2, <2>1, WorkerPhaseOfType
          DEF CreateWorkerPod, TypeOK, docVars, PodPhases
<1>3. CASE CancelPending(r)
  <2>1. req' \in [Requests -> Request]
    BY <1>0, <1>3, GotoType, StartCleanupType DEF CancelPending
  <2>2. UpdatePhase(r, {e}, "PENDING", "CANCELED")
    BY <1>3 DEF CancelPending
  <2> QED BY <1>0, <1>3, <2>1, <2>2, UpdatePhaseType
          DEF CancelPending, TypeOK, k8sVars
<1>4. CASE CancelRunning(r)
  <2>1. req' \in [Requests -> Request]
    BY <1>0, <1>4, StartCleanupType DEF CancelRunning
  <2>2. UpdatePhase(r, {e}, "RUNNING", "ABORTED")
    BY <1>4 DEF CancelRunning
  <2> QED BY <1>0, <1>4, <2>1, <2>2, UpdatePhaseType
          DEF CancelRunning, TypeOK, k8sVars
<1>5. CASE CancelManyPending(r)
  <2>1. req' \in [Requests -> Request]
    BY <1>0, <1>5, GotoType DEF CancelManyPending
  <2> QED BY <1>0, <1>5, <2>1, UpdatePhaseType
          DEF CancelManyPending, TypeOK, k8sVars
<1>6. CASE CancelManyRunning(r)
  <2>1. req' \in [Requests -> Request]
    BY <1>0, <1>6, GotoType DEF CancelManyRunning
  <2> QED BY <1>0, <1>6, <2>1, UpdatePhaseType
          DEF CancelManyRunning, TypeOK, k8sVars
<1>7. CASE CancelManyFind(r)
  <2>1. req' \in [Requests -> Request]
    BY <1>0, <1>7, StartCleanupType DEF CancelManyFind
  <2> QED BY <1>7, <2>1 DEF CancelManyFind, TypeOK, docVars, k8sVars, auxVars
<1>8. CASE DeleteDoc(r)
  <2> DEFINE found == {f \in {e} : phase[f] # Absent}
  <2>1. found \in SUBSET Events
    BY <1>0
  <2>2. RemoveDocs(found) /\ Withdraw(found) /\ StartCleanup(r, found)
    BY <1>8 DEF DeleteDoc
  <2>3. req' \in [Requests -> Request]
    BY <1>0, <2>1, <2>2, StartCleanupType
  <2> HIDE DEF found
  <2> QED BY <1>8, <2>1, <2>2, <2>3, RemoveDocsType
          DEF DeleteDoc, Withdraw, TypeOK, k8sVars
<1>9. CASE MarkDeleted(r)
  <2>1. req' \in [Requests -> Request]
    BY <1>0, <1>9, GotoType DEF MarkDeleted
  <2> QED BY <1>9, <2>1 DEF MarkDeleted, TypeOK, k8sVars, auxVars
<1>10. CASE FindDeleted(r)
  <2>1. req' \in [Requests -> Request]
    BY <1>0, <1>10 DEF FindDeleted, Selected, Request, Steps
  <2> QED BY <1>10, <2>1 DEF FindDeleted, TypeOK, docVars, k8sVars, auxVars
<1>11. CASE Purge(r)
  <2> DEFINE gone == Selected(r, r)
  <2>1. gone \in SUBSET Events /\ req[r].todo \in SUBSET Events
    BY <1>0 DEF Selected, Request
  <2>2. req' \in [Requests -> Request]
    BY <1>0, <1>11, <2>1, StartCleanupType DEF Purge
  <2>3. RemoveDocs(gone)
    BY <1>11 DEF Purge
  <2>4. withdrawn' \subseteq Events /\ raced' \subseteq Events
    BY <1>11, <2>1 DEF Purge, TypeOK
  <2> HIDE DEF gone
  <2> QED BY <1>11, <2>1, <2>2, <2>3, <2>4, RemoveDocsType
          DEF Purge, TypeOK, k8sVars
<1>12. CASE DeletePods(r)
  <2>1. req' \in [Requests -> Request]
    BY <1>0, <1>12, GotoType DEF DeletePods
  <2> QED BY <1>0, <1>12, <2>1 DEF DeletePods, TypeOK, docVars, auxVars
<1>13. CASE DeletePVCs(r)
  <2>1. req' \in [Requests -> Request]
    BY <1>0, <1>13, GotoType DEF DeletePVCs
  <2> QED BY <1>13, <2>1 DEF DeletePVCs, TypeOK, docVars, auxVars
<1>14. CASE DeleteSecrets(r)
  <2>1. req' \in [Requests -> Request]
    BY <1>0, <1>14, NextCleanupType DEF DeleteSecrets
  <2> QED BY <1>14, <2>1 DEF DeleteSecrets, TypeOK, docVars, auxVars
<1> QED BY <1>1, <1>2, <1>3, <1>4, <1>5, <1>6, <1>7, <1>8, <1>9, <1>10,
           <1>11, <1>12, <1>13, <1>14 DEF HandlerStep

LEMMA FaultTypeOK ==
  ASSUME TypeOK, NEW r \in Requests, CleanupFails(r) \/ Abandon(r)
  PROVE  TypeOK'
<1>0. req \in [Requests -> Request] /\ req[r].ev \in Events /\ "dead" \in Steps
  BY DEF TypeOK, Request, Steps
<1>1. CASE CleanupFails(r)
  <2>1. req' \in [Requests -> Request]
    BY <1>0, <1>1, NextCleanupType DEF CleanupFails
  <2> QED BY <1>0, <1>1, <2>1 DEF CleanupFails, TypeOK, docVars, k8sVars
<1>2. CASE Abandon(r)
  <2>1. req' \in [Requests -> Request]
    BY <1>0, <1>2, GotoType DEF Abandon
  <2> QED BY <1>2, <2>1 DEF Abandon, TypeOK, docVars, k8sVars
<1> QED BY <1>1, <1>2

LEMMA ClusterTypeOK ==
  ASSUME TypeOK, NEW e \in Events, PodStep(e) \/ Observe(e)
  PROVE  TypeOK'
<1>1. ASSUME NEW p \in PodPhases, PodBecomes(e, p) PROVE TypeOK'
  BY <1>1, WorkerPhaseOfType DEF PodBecomes, TypeOK, docVars
<1>2. {"Running", "Succeeded", "Failed", "Unknown"} \subseteq PodPhases
  BY DEF PodPhases
<1>3. CASE PodRuns(e)
  BY <1>1, <1>2, <1>3 DEF PodRuns
<1>4. CASE PodEnds(e)
  BY <1>1, <1>2, <1>4 DEF PodEnds
<1>5. CASE PodLost(e)
  BY <1>1, <1>2, <1>5 DEF PodLost
<1>6. CASE PodGone(e)
  BY <1>6 DEF PodGone, TypeOK, docVars, auxVars
<1>7. CASE Observe(e)
  BY <1>7, WorkerPhaseOfType DEF Observe, TypeOK, docVars, k8sVars, auxVars
<1> QED BY <1>3, <1>4, <1>5, <1>6, <1>7 DEF PodStep

LEMMA ReportTypeOK ==
  ASSUME TypeOK, NEW e \in Events, NEW p \in ObservedPhases,
         UpdateStatus(e, p) \/ LoseReport(e, p)
  PROVE  TypeOK'
<1>1. CASE UpdateStatus(e, p)
  BY <1>1 DEF UpdateStatus, TypeOK, k8sVars, auxVars, ObservedPhases,
              WorkerPhases
<1>2. CASE LoseReport(e, p)
  BY <1>2 DEF LoseReport, TypeOK, docVars, k8sVars, auxVars
<1> QED BY <1>1, <1>2

LEMMA InitTypeOK == Init => TypeOK
BY DEF Init, TypeOK, Request, Steps

LEMMA NextTypeOK == TypeOK /\ [Next]_vars => TypeOK'
<1> SUFFICES ASSUME TypeOK, [Next]_vars PROVE TypeOK'
  OBVIOUS
<1>1. ASSUME NEW e \in Events,
             CreateEvent(e) \/ CreateStep(e) \/ CreateFails(e)
      PROVE  TypeOK'
  BY <1>1, CreateTypeOK
<1>2. ASSUME NEW r \in Requests,
             Call(r) \/ HandlerStep(r) \/ CleanupFails(r) \/ Abandon(r)
      PROVE  TypeOK'
  BY <1>2, CallTypeOK, HandlerTypeOK, FaultTypeOK
<1>3. ASSUME NEW e \in Events, PodStep(e) \/ Observe(e) PROVE TypeOK'
  BY <1>3, ClusterTypeOK
<1>4. ASSUME NEW e \in Events, NEW p \in ObservedPhases,
             UpdateStatus(e, p) \/ LoseReport(e, p)
      PROVE  TypeOK'
  BY <1>4, ReportTypeOK
<1>5. CASE UNCHANGED vars
  BY <1>5 DEF vars, docVars, k8sVars, auxVars, TypeOK
<1> QED BY <1>1, <1>2, <1>3, <1>4, <1>5 DEF Next

(* Every reachable state is well typed, in all sixteen variables.          *)
THEOREM TypeCorrect == Spec => []TypeOK
BY InitTypeOK, NextTypeOK, PTL DEF Spec

-----------------------------------------------------------------------------
(* RecordIsTruthful is not inductive: a report under way may be applied any*)
(* time, and a pod may be reported any time, so both must be truthful too. *)
Truthful ==
  /\ TypeOK
  /\ reports \subseteq occurred
  /\ \A e \in Events :
       pod[e] # NoPod => <<e, WorkerPhaseOf(pod[e])>> \in occurred
  /\ RecordIsTruthful

(* A step is harmless to Truthful if every pod and every record it leaves  *)
(* behind was there before, or says nothing, and history is kept.          *)
LEMMA TruthfulKept ==
  ASSUME Truthful, TypeOK',
         reports' \subseteq reports, occurred \subseteq occurred',
         \A e \in Events : pod'[e] \in {pod[e], NoPod},
         \A e \in Events :
           \/ phase'[e] \in {phase[e], Absent, "PENDING", "CANCELED"}
           \/ phase'[e] = "ABORTED" /\ phase[e] = "RUNNING"
  PROVE  Truthful'
<1>1. ASSUME NEW e \in Events
      PROVE  /\ phase'[e] \in ObservedPhases => <<e, phase'[e]>> \in occurred'
             /\ phase'[e] = "ABORTED" => <<e, "RUNNING">> \in occurred'
  <2>1. CASE phase'[e] = phase[e]
    BY <2>1 DEF Truthful, RecordIsTruthful
  <2>2. CASE phase'[e] \in {Absent, "PENDING", "CANCELED"}
    BY <2>2 DEF Absent, ObservedPhases
  <2>3. CASE phase'[e] = "ABORTED" /\ phase[e] = "RUNNING"
    <3>1. <<e, "RUNNING">> \in occurred
      BY <2>3 DEF Truthful, RecordIsTruthful, ObservedPhases
    <3> QED BY <2>3, <3>1 DEF ObservedPhases
  <2> QED BY <2>1, <2>2, <2>3
<1>2. ASSUME NEW e \in Events, pod'[e] # NoPod
      PROVE  <<e, WorkerPhaseOf(pod'[e])>> \in occurred'
  BY <1>2 DEF Truthful
<1> QED BY <1>1, <1>2 DEF Truthful, RecordIsTruthful

(* A pod that comes up or moves on is entered in the history at once.      *)
LEMMA TruthfulPod ==
  ASSUME Truthful, TypeOK', NEW e \in Events, NEW p \in PodPhases,
         pod' = [pod EXCEPT ![e] = p],
         occurred' = occurred \cup {<<e, WorkerPhaseOf(p)>>},
         UNCHANGED <<phase, reports>>
  PROVE  Truthful'
<1>1. pod \in [Events -> PodPhases \cup {NoPod}]
  BY DEF Truthful, TypeOK
<1>2. \A d \in Events : pod'[d] # NoPod =>
        <<d, WorkerPhaseOf(pod'[d])>> \in occurred'
  BY <1>1 DEF Truthful
<1>3. RecordIsTruthful'
  BY DEF Truthful, RecordIsTruthful
<1> QED BY <1>2, <1>3 DEF Truthful

LEMMA TruthfulCreate ==
  ASSUME Truthful, TypeOK', NEW e \in Events,
         CreateEvent(e) \/ CreateStep(e) \/ CreateFails(e)
  PROVE  Truthful'
<1>1. UNCHANGED <<reports, occurred, pod>>
  BY DEF CreateEvent, CreateStep, CreateEventSecret, PublishWorker,
         CreateFails, k8sVars, auxVars
<1>2. \A d \in Events : phase'[d] \in {phase[d], "PENDING"}
  BY DEF CreateEvent, CreateStep, CreateEventSecret, PublishWorker,
         CreateFails, docVars, Truthful, TypeOK
<1> QED BY <1>1, <1>2, TruthfulKept

LEMMA TruthfulCall ==
  ASSUME Truthful, TypeOK', NEW r \in Requests,
         Call(r) \/ CleanupFails(r) \/ Abandon(r)
  PROVE  Truthful'
<1>1. UNCHANGED <<reports, occurred, pod, phase>>
  BY DEF Call, Start, Cancel, Delete, CancelMany, DeleteMany, CleanupFails,
         Abandon, docVars, k8sVars, auxVars
<1> QED BY <1>1, TruthfulKept

(* What the guarded updates and the removal of documents do to phases.     *)
LEMMA UpdatePhaseEffect ==
  ASSUME TypeOK, NEW r, NEW S \in SUBSET Events, NEW from, NEW to,
         UpdatePhase(r, S, from, to)
  PROVE  \A e \in Events :
           \/ phase'[e] = phase[e]
           \/ phase[e] = from /\ phase'[e] = to
BY DEF TypeOK, UpdatePhase

LEMMA RemoveDocsEffect ==
  ASSUME TypeOK, NEW S \in SUBSET Events, RemoveDocs(S)
  PROVE  \A e \in Events : phase'[e] \in {phase[e], Absent}
BY DEF TypeOK, RemoveDocs

LEMMA HandlerPhases ==
  ASSUME TypeOK, NEW r \in Requests, HandlerStep(r)
  PROVE  \A e \in Events :
           \/ phase'[e] \in {phase[e], Absent}
           \/ phase'[e] = "CANCELED" /\ phase[e] = "PENDING"
           \/ phase'[e] = "ABORTED" /\ phase[e] = "RUNNING"
<1>0. req[r].ev \in Events
  BY DEF TypeOK, Request
<1>1. CASE CancelPending(r)
  BY <1>0, <1>1, UpdatePhaseEffect DEF CancelPending
<1>2. CASE CancelRunning(r)
  BY <1>0, <1>2, UpdatePhaseEffect DEF CancelRunning
<1>3. CASE CancelManyPending(r)
  BY <1>3, UpdatePhaseEffect DEF CancelManyPending
<1>4. CASE CancelManyRunning(r)
  BY <1>4, UpdatePhaseEffect DEF CancelManyRunning
<1>5. CASE DeleteDoc(r)
  <2> DEFINE found == {f \in {req[r].ev} : phase[f] # Absent}
  <2>1. found \in SUBSET Events /\ RemoveDocs(found)
    BY <1>0, <1>5 DEF DeleteDoc
  <2> HIDE DEF found
  <2> QED BY <2>1, RemoveDocsEffect
<1>6. CASE Purge(r)
  <2>1. Selected(r, r) \in SUBSET Events /\ RemoveDocs(Selected(r, r))
    BY <1>6 DEF Purge, Selected
  <2> QED BY <2>1, RemoveDocsEffect
<1>7. CASE \/ CreateWorkspacePVC(r) \/ CreateWorkerPod(r) \/ CancelManyFind(r)
           \/ MarkDeleted(r) \/ FindDeleted(r)
           \/ DeletePods(r) \/ DeletePVCs(r) \/ DeleteSecrets(r)
  BY <1>7 DEF CreateWorkspacePVC, CreateWorkerPod, CancelManyFind, MarkDeleted,
              FindDeleted, DeletePods, DeletePVCs, DeleteSecrets, docVars
<1> QED BY <1>1, <1>2, <1>3, <1>4, <1>5, <1>6, <1>7 DEF HandlerStep

LEMMA TruthfulHandler ==
  ASSUME Truthful, TypeOK', NEW r \in Requests, HandlerStep(r)
  PROVE  Truthful'
<1>1. CASE CreateWorkerPod(r)
  <2>1. req[r].ev \in Events
    BY DEF Truthful, TypeOK, Request
  <2>2. UNCHANGED <<phase, reports>>
    BY <1>1 DEF CreateWorkerPod, docVars
  <2>3. CASE pod[req[r].ev] = NoPod
    BY <1>1, <2>1, <2>2, <2>3, TruthfulPod DEF CreateWorkerPod, PodPhases
  <2>4. CASE pod[req[r].ev] # NoPod
    BY <1>1, <2>2, <2>4, TruthfulKept DEF CreateWorkerPod
  <2> QED BY <2>3, <2>4
<1>2. CASE ~CreateWorkerPod(r)
  <2>1. UNCHANGED <<pod, reports, occurred>>
    BY <1>2 DEF HandlerStep, CreateWorkspacePVC, CancelPending, CancelRunning,
                CancelManyPending, CancelManyRunning, CancelManyFind, DeleteDoc,
                MarkDeleted, FindDeleted, Purge, DeletePods, DeletePVCs,
                DeleteSecrets, k8sVars, auxVars
  <2>2. TypeOK
    BY DEF Truthful
  <2> QED BY <2>1, <2>2, HandlerPhases, TruthfulKept
<1> QED BY <1>1, <1>2

LEMMA TruthfulCluster ==
  ASSUME Truthful, TypeOK', NEW e \in Events, PodStep(e) \/ Observe(e)
  PROVE  Truthful'
<1>1. ASSUME NEW p \in PodPhases, PodBecomes(e, p) PROVE Truthful'
  BY <1>1, TruthfulPod DEF PodBecomes, docVars
<1>2. {"Running", "Succeeded", "Failed", "Unknown"} \subseteq PodPhases
  BY DEF PodPhases
<1>3. CASE PodRuns(e) \/ PodEnds(e) \/ PodLost(e)
  BY <1>1, <1>2, <1>3 DEF PodRuns, PodEnds, PodLost
<1>4. CASE PodGone(e)
  BY <1>4, TruthfulKept DEF PodGone, docVars, auxVars, Truthful, TypeOK
<1>5. CASE Observe(e)
  BY <1>5 DEF Observe, Truthful, RecordIsTruthful, docVars, k8sVars, auxVars
<1> QED BY <1>3, <1>4, <1>5 DEF PodStep

LEMMA TruthfulReport ==
  ASSUME Truthful, TypeOK', NEW e \in Events, NEW p \in ObservedPhases,
         UpdateStatus(e, p) \/ LoseReport(e, p)
  PROVE  Truthful'
<1>1. CASE LoseReport(e, p)
  BY <1>1, TruthfulKept DEF LoseReport, docVars, k8sVars, auxVars
<1>2. CASE UpdateStatus(e, p)
  <2>1. <<e, p>> \in occurred /\ UNCHANGED <<pod, occurred>>
    BY <1>2 DEF UpdateStatus, Truthful, k8sVars, auxVars
  <2>2. \A d \in Events : phase'[d] = phase[d] \/ (d = e /\ phase'[d] = p)
    BY <1>2 DEF UpdateStatus, Truthful, TypeOK
  <2>3. RecordIsTruthful'
    BY <2>1, <2>2 DEF Truthful, RecordIsTruthful, ObservedPhases
  <2>4. reports' \subseteq occurred'
    BY <1>2, <2>1 DEF UpdateStatus, Truthful
  <2> QED BY <2>1, <2>3, <2>4 DEF Truthful
<1> QED BY <1>1, <1>2

(* Whatever the order of requests and reports, the recorded phase is never *)
(* one the worker was not in, and ABORTED only follows a start.            *)
THEOREM RecordsAreTruthful == Spec => []RecordIsTruthful
<1>1. Init => Truthful
  <2> SUFFICES ASSUME Init PROVE Truthful
    OBVIOUS
  <2>1. TypeOK
    BY InitTypeOK
  <2>2. reports = {} /\ \A e \in Events : pod[e] = NoPod /\ phase[e] = Absent
    BY DEF Init
  <2> QED BY <2>1, <2>2 DEF Truthful, RecordIsTruthful, Absent, ObservedPhases
<1>2. Truthful /\ [Next]_vars => Truthful'
  <2> SUFFICES ASSUME Truthful, [Next]_vars PROVE Truthful'
    OBVIOUS
  <2>0. TypeOK'
    BY NextTypeOK DEF Truthful
  <2>1. ASSUME NEW e \in Events,
               CreateEvent(e) \/ CreateStep(e) \/ CreateFails(e)
        PROVE  Truthful'
    BY <2>0, <2>1, TruthfulCreate
  <2>2. ASSUME NEW r \in Requests,
               Call(r) \/ HandlerStep(r) \/ CleanupFails(r) \/ Abandon(r)
        PROVE  Truthful'
    BY <2>0, <2>2, TruthfulCall, TruthfulHandler
  <2>3. ASSUME NEW e \in Events, PodStep(e) \/ Observe(e) PROVE Truthful'
    BY <2>0, <2>3, TruthfulCluster
  <2>4. ASSUME NEW e \in Events, NEW p \in ObservedPhases,
               UpdateStatus(e, p) \/ LoseReport(e, p)
        PROVE  Truthful'
    BY <2>0, <2>4, TruthfulReport
  <2>5. CASE UNCHANGED vars
    BY <2>0, <2>5, TruthfulKept DEF vars, docVars, k8sVars, auxVars
  <2> QED BY <2>1, <2>2, <2>3, <2>4, <2>5 DEF Next
<1>3. Truthful => RecordIsTruthful
  BY DEF Truthful
<1> QED BY <1>1, <1>2, <1>3, PTL DEF Spec

-----------------------------------------------------------------------------
(* No interleaving of requests and reports lets a cancellation overwrite a *)
(* result: CANCELED only ever replaces PENDING and ABORTED only RUNNING.   *)
THEOREM CancellationSparesOutcomes == Spec => CancelSparesOutcome
<1> DEFINE Spares ==
      \A e \in Events :
        /\ phase'[e] = "CANCELED" => phase[e] \in {"PENDING", "CANCELED"}
        /\ phase'[e] = "ABORTED" => phase[e] \in {"RUNNING", "ABORTED"}
<1>1. TypeOK /\ [Next]_vars => [Spares]_vars
  <2> SUFFICES ASSUME TypeOK, Next PROVE Spares
    OBVIOUS
  <2>1. ASSUME NEW e \in Events,
               CreateEvent(e) \/ CreateStep(e) \/ CreateFails(e)
        PROVE  Spares
    BY <2>1 DEF CreateEvent, CreateStep, CreateEventSecret, PublishWorker,
                CreateFails, docVars, TypeOK
  <2>2. ASSUME NEW r \in Requests, Call(r) \/ CleanupFails(r) \/ Abandon(r)
        PROVE  Spares
    BY <2>2 DEF Call, Start, Cancel, Delete, CancelMany, DeleteMany,
                CleanupFails, Abandon, docVars
  <2>3. ASSUME NEW r \in Requests, HandlerStep(r) PROVE Spares
    BY <2>3, HandlerPhases DEF Absent
  <2>4. ASSUME NEW e \in Events, PodStep(e) \/ Observe(e) PROVE Spares
    BY <2>4 DEF PodStep, PodRuns, PodEnds, PodLost, PodGone, PodBecomes,
                Observe, docVars
  <2>5. ASSUME NEW e \in Events, NEW p \in ObservedPhases,
               UpdateStatus(e, p) \/ LoseReport(e, p)
        PROVE  Spares
    BY <2>5 DEF UpdateStatus, LoseReport, docVars, ObservedPhases, TypeOK
  <2> QED BY <2>1, <2>2, <2>3, <2>4, <2>5 DEF Next
<1>2. Spec => [][Spares]_vars
  BY <1>1, TypeCorrect, PTL DEF Spec
<1> QED BY <1>2 DEF CancelSparesOutcome

-----------------------------------------------------------------------------
(* ResidueExplained: whatever a canceled or deleted event leaves behind in *)
(* Kubernetes has one of the causes named there.  Apart from the claim     *)
(* itself the inductive invariant says why no step makes anything for a    *)
(* withdrawn event that was not raced: it takes the phase PENDING to begin *)
(* a Start, no withdrawn event is ever PENDING again, and whoever was past *)
(* that check is accounted for.                                            *)

NotYetCreated ==
  \A e \in Events :
    create[e] = "none" => phase[e] = Absent /\ e \notin withdrawn

PendingNotWithdrawn ==
  \A e \in Events : phase[e] = "PENDING" => e \notin withdrawn

StartsRaced ==
  \A e \in Events, r \in Requests :
    StartInFlight(r, e) /\ e \in withdrawn => e \in raced

CreatesRaced ==
  \A e \in Events : CreateInFlight(e) /\ e \in withdrawn => e \in raced

AbsentNotCanceled ==
  \A e \in Events : phase[e] = Absent => canceled[e] = NoRequest

-----------------------------------------------------------------------------
(* What steps do to requests.                                              *)

LEMMA GotoEffect ==
  ASSUME TypeOK, NEW r \in Requests, NEW step, Goto(r, step)
  PROVE  /\ req'[r].pc = step
         /\ req'[r].ev = req[r].ev /\ req'[r].todo = req[r].todo
         /\ \A q \in Requests \ {r} : req'[q] = req[q]
BY DEF Goto, TypeOK, Request

(* Once StartCleanup has run, each step is still due for everything to do. *)
LEMMA StartCleanupEffect ==
  ASSUME TypeOK, NEW r \in Requests, NEW todo \in SUBSET Events,
         StartCleanup(r, todo)
  PROVE  /\ req'[r].pc \in {"done", "pods"}
         /\ \A q \in Requests \ {r} : req'[q] = req[q]
         /\ \A e \in todo, s \in CleanupSteps : CleanupPending(r, e, s)'
<1>0. req \in [Requests -> Request]
  BY DEF TypeOK
<1>1. CASE todo = {}
  BY <1>0, <1>1 DEF StartCleanup, Request
<1>2. CASE todo # {}
  <2>1. PICK e \in todo :
          req' = [req EXCEPT ![r].pc = "pods", ![r].ev = e, ![r].todo = todo]
    BY <1>2 DEF StartCleanup
  <2>2. /\ req'[r].pc = "pods" /\ req'[r].todo = todo
        /\ \A q \in Requests \ {r} : req'[q] = req[q]
    BY <1>0, <2>1 DEF Request
  <2> QED BY <2>2 DEF CleanupPending, CleanupSteps, Before
<1> QED BY <1>1, <1>2

(* A request has the same cleanup ahead of it while it does not move and   *)
(* the event's cancellation time does not change.                          *)
LEMMA PendingElsewhere ==
  ASSUME NEW q \in Requests, NEW e \in Events, NEW s \in CleanupSteps,
         req'[q] = req[q], canceled'[e] = canceled[e]
  PROVE  CleanupPending(q, e, s)' <=> CleanupPending(q, e, s)
BY DEF CleanupPending

-----------------------------------------------------------------------------
(* Something of event e that cleanup step s is there to remove.            *)
Left(e, s) ==
  \/ s = "pods" /\ pod[e] # NoPod /\ e \notin terminating
  \/ s = "pvcs" /\ e \in pvcs
  \/ s = "secrets" /\ e \in secrets

LEMMA CleanIs ==
  ASSUME NEW e \in Events
  PROVE  Clean(e) <=> \A s \in CleanupSteps :
                        Left(e, s) => \E r \in Requests : CleanupPending(r, e, s)
BY DEF Clean, Left, CleanupSteps

(* An event stays clean if nothing new is left of it and each step that is *)
(* due, and needed, stays due.                                             *)
LEMMA CleanKept ==
  ASSUME NEW e \in Events, Clean(e),
         \A s \in CleanupSteps : Left(e, s)' => Left(e, s),
         \A s \in CleanupSteps, r \in Requests :
           CleanupPending(r, e, s) /\ Left(e, s)'
             => \E q \in Requests : CleanupPending(q, e, s)'
  PROVE  Clean(e)'
<1>1. \A s \in CleanupSteps :
        Left(e, s)' => \E r \in Requests : CleanupPending(r, e, s)'
  BY CleanIs
<1> QED BY <1>1 DEF Clean, Left, CleanupSteps

(* The frequent case: one request moves that had no cleanup ahead of it.   *)
LEMMA CleanMove ==
  ASSUME NEW e \in Events, NEW r \in Requests, Clean(e),
         \A s \in CleanupSteps : Left(e, s)' => Left(e, s),
         \A s \in CleanupSteps : ~CleanupPending(r, e, s),
         canceled'[e] = canceled[e],
         \A q \in Requests \ {r} : req'[q] = req[q]
  PROVE  Clean(e)'
BY CleanKept, PendingElsewhere

LEMMA CleanDue ==
  ASSUME NEW e \in Events, NEW r \in Requests,
         \A s \in CleanupSteps : CleanupPending(r, e, s)'
  PROVE  Clean(e)'
BY DEF Clean, CleanupSteps
-----------------------------------------------------------------------------
(* The supporting invariants.  Steps outside the handlers first.           *)

Support ==
  /\ NotYetCreated
  /\ PendingNotWithdrawn
  /\ StartsRaced
  /\ CreatesRaced
  /\ AbsentNotCanceled

LEMMA SupportCreate ==
  ASSUME TypeOK, Support, NEW e \in Events,
         CreateEvent(e) \/ CreateStep(e) \/ CreateFails(e)
  PROVE  Support'
<1>1. UNCHANGED <<canceled, req, withdrawn, raced>>
  BY DEF CreateEvent, CreateStep, CreateEventSecret, PublishWorker,
         CreateFails, docVars, auxVars
<1>2. StartsRaced'
  BY <1>1 DEF Support, StartsRaced, StartInFlight
<1>3. CASE CreateEvent(e)
  <2>1. e \notin withdrawn /\ create[e] = "none"
    BY <1>3 DEF CreateEvent, Support, NotYetCreated
  <2>2. \A d \in Events : IF d = e THEN phase'[d] = "PENDING"
                                  ELSE phase'[d] = phase[d]
    BY <1>3 DEF CreateEvent, TypeOK
  <2>3. \A d \in Events : IF d = e THEN create'[d] = "secret"
                                  ELSE create'[d] = create[d]
    BY <1>3 DEF CreateEvent, TypeOK
  <2>4. NotYetCreated' /\ PendingNotWithdrawn'
    BY <1>1, <2>1, <2>2, <2>3 DEF Support, NotYetCreated, PendingNotWithdrawn
  <2>5. CreatesRaced'
    BY <1>1, <2>1, <2>3 DEF Support, CreatesRaced, CreateInFlight
  <2>6. AbsentNotCanceled'
    BY <1>1, <2>2 DEF Support, AbsentNotCanceled, Absent
  <2> QED BY <1>2, <2>4, <2>5, <2>6 DEF Support
<1>4. CASE CreateStep(e) \/ CreateFails(e)
  <2>1. UNCHANGED phase /\ CreateInFlight(e)
    BY <1>4 DEF CreateStep, CreateEventSecret, PublishWorker, CreateFails,
                CreateInFlight, docVars
  <2>2. \A d \in Events : IF d = e THEN create'[d] \in {"publish", "done", "failed"}
                                  ELSE create'[d] = create[d]
    BY <1>4 DEF CreateStep, CreateEventSecret, PublishWorker, CreateFails, TypeOK
  <2>3. NotYetCreated' /\ PendingNotWithdrawn' /\ AbsentNotCanceled'
    BY <1>1, <2>1, <2>2
       DEF Support, NotYetCreated, PendingNotWithdrawn, AbsentNotCanceled
  <2>4. CreatesRaced'
    BY <1>1, <2>1, <2>2 DEF Support, CreatesRaced, CreateInFlight
  <2> QED BY <1>2, <2>3, <2>4 DEF Support
<1> QED BY <1>3, <1>4

(* A Start begins at PENDING, where nothing is withdrawn.                  *)
LEMMA SupportCall ==
  ASSUME TypeOK, Support, NEW r \in Requests, Call(r)
  PROVE  Support'
<1>1. UNCHANGED <<phase, canceled, create, withdrawn, raced>>
  BY DEF Call, Start, Cancel, Delete, CancelMany, DeleteMany, docVars, auxVars
<1>2. /\ NotYetCreated' /\ PendingNotWithdrawn' /\ CreatesRaced'
      /\ AbsentNotCanceled'
  BY <1>1 DEF Support, NotYetCreated, PendingNotWithdrawn, CreatesRaced,
              AbsentNotCanceled, CreateInFlight
<1>3. \A q \in Requests \ {r} : req'[q] = req[q]
  BY DEF Call, Start, Cancel, Delete, CancelMany, DeleteMany, TypeOK
<1>4. ASSUME NEW e \in Events, StartInFlight(r, e)'
      PROVE  phase[e] = "PENDING"
  <2>1. ASSUME NEW d \in Events, Start(r, d) PROVE phase[e] = "PENDING"
    <3>1. req'[r].ev = d /\ phase[d] = "PENDING"
      BY <2>1 DEF Start, TypeOK, Request
    <3> QED BY <1>4, <3>1 DEF StartInFlight
  <2>2. ASSUME NEW d \in Events, Cancel(r, d) \/ Delete(r, d) PROVE FALSE
    BY <1>4, <2>2 DEF Cancel, Delete, StartInFlight, TypeOK, Request
  <2>3. ASSUME NEW sel \in Selectors, CancelMany(r, sel) \/ DeleteMany(r, sel)
        PROVE  FALSE
    BY <1>4, <2>3 DEF CancelMany, DeleteMany, StartInFlight, TypeOK, Request
  <2> QED BY <2>1, <2>2, <2>3 DEF Call
<1>5. StartsRaced'
  <2> SUFFICES ASSUME NEW e \in Events, NEW q \in Requests,
                      StartInFlight(q, e)', e \in withdrawn'
               PROVE  e \in raced'
    BY DEF StartsRaced
  <2>1. CASE q = r
    BY <1>1, <1>4, <2>1 DEF Support, PendingNotWithdrawn
  <2>2. CASE q # r
    BY <1>1, <1>3, <2>2 DEF Support, StartsRaced, StartInFlight
  <2> QED BY <2>1, <2>2
<1> QED BY <1>2, <1>5 DEF Support

(* Steps that leave documents and history alone and begin nothing.         *)
LEMMA SupportKept ==
  ASSUME Support, UNCHANGED <<phase, canceled, create, withdrawn, raced>>,
         \A q \in Requests, e \in Events :
           StartInFlight(q, e)' => StartInFlight(q, e)
  PROVE  Support'
BY DEF Support, NotYetCreated, PendingNotWithdrawn, StartsRaced, CreatesRaced,
       AbsentNotCanceled, CreateInFlight

(* Of everything a handler does, only what it withdraws matters.           *)
LEMMA SupportWithdraw ==
  ASSUME Support, UNCHANGED create,
         withdrawn \subseteq withdrawn', raced \subseteq raced',
         \A q \in Requests, e \in Events :
           StartInFlight(q, e)' => StartInFlight(q, e),
         \A e \in Events :
           /\ phase[e] = Absent => phase'[e] = Absent
           /\ phase'[e] = Absent => canceled'[e] = NoRequest
           /\ phase'[e] = "PENDING" =>
                phase[e] = "PENDING" /\ (e \in withdrawn' => e \in withdrawn),
         \A e \in Events : e \in withdrawn' \ withdrawn =>
           /\ phase[e] # Absent
           /\ CreateInFlight(e) => e \in raced'
           /\ \A q \in Requests : StartInFlight(q, e) => e \in raced'
  PROVE  Support'
<1>1. NotYetCreated'
  BY DEF Support, NotYetCreated
<1>2. PendingNotWithdrawn'
  BY DEF Support, PendingNotWithdrawn
<1>3. StartsRaced'
  BY DEF Support, StartsRaced
<1>4. CreatesRaced'
  BY DEF Support, CreatesRaced, CreateInFlight
<1>5. AbsentNotCanceled'
  BY DEF AbsentNotCanceled
<1> QED BY <1>1, <1>2, <1>3, <1>4, <1>5 DEF Support
-----------------------------------------------------------------------------
(* What the handlers' updates do to documents and history.                 *)

LEMMA UpdatePhaseHistory ==
  ASSUME TypeOK, NEW r \in Requests, NEW S \in SUBSET Events,
         NEW from \in {"PENDING", "RUNNING"}, NEW to \in {"CANCELED", "ABORTED"},
         UpdatePhase(r, S, from, to), NEW e \in Events
  PROVE  /\ withdrawn \subseteq withdrawn' /\ raced \subseteq raced'
         /\ IF e \in S /\ phase[e] = from
            THEN /\ phase'[e] = to /\ canceled'[e] = r /\ e \in withdrawn'
                 /\ CreateInFlight(e) => e \in raced'
                 /\ \A q \in Requests : StartInFlight(q, e) => e \in raced'
            ELSE /\ phase'[e] = phase[e] /\ canceled'[e] = canceled[e]
                 /\ e \in withdrawn' => e \in withdrawn
BY DEF TypeOK, UpdatePhase, Withdraw

LEMMA RemoveDocsHistory ==
  ASSUME TypeOK, NEW S \in SUBSET Events, RemoveDocs(S), NEW e \in Events
  PROVE  IF e \in S THEN phase'[e] = Absent /\ canceled'[e] = NoRequest
                    ELSE phase'[e] = phase[e] /\ canceled'[e] = canceled[e]
BY DEF TypeOK, RemoveDocs

LEMMA UpdatePhaseSupport ==
  ASSUME TypeOK, Support, NEW r \in Requests, NEW S \in SUBSET Events,
         NEW from \in {"PENDING", "RUNNING"}, NEW to \in {"CANCELED", "ABORTED"},
         UpdatePhase(r, S, from, to), UNCHANGED create,
         \A q \in Requests, e \in Events :
           StartInFlight(q, e)' => StartInFlight(q, e)
  PROVE  Support'
<1>1. withdrawn \subseteq withdrawn' /\ raced \subseteq raced'
  BY DEF UpdatePhase, Withdraw
<1>2. ASSUME NEW e \in Events
      PROVE  /\ phase[e] = Absent => phase'[e] = Absent
             /\ phase'[e] = Absent => canceled'[e] = NoRequest
             /\ phase'[e] = "PENDING" =>
                  phase[e] = "PENDING" /\ (e \in withdrawn' => e \in withdrawn)
             /\ e \in withdrawn' \ withdrawn =>
                  /\ phase[e] # Absent
                  /\ CreateInFlight(e) => e \in raced'
                  /\ \A q \in Requests : StartInFlight(q, e) => e \in raced'
  <2>1. CASE e \in S /\ phase[e] = from
    BY <2>1, UpdatePhaseHistory DEF Absent
  <2>2. CASE ~(e \in S /\ phase[e] = from)
    BY <2>2, UpdatePhaseHistory DEF Support, AbsentNotCanceled
  <2> QED BY <2>1, <2>2
<1> QED BY <1>1, <1>2, SupportWithdraw

(* Removing documents, given that the history is kept as Withdraw does.    *)
LEMMA RemoveDocsSupport ==
  ASSUME TypeOK, Support, NEW S \in SUBSET Events, RemoveDocs(S),
         UNCHANGED create,
         withdrawn' = withdrawn \cup S, raced \subseteq raced',
         \A e \in S : /\ phase[e] # Absent
                      /\ CreateInFlight(e) => e \in raced'
                      /\ \A q \in Requests : StartInFlight(q, e) => e \in raced',
         \A q \in Requests, e \in Events :
           StartInFlight(q, e)' => StartInFlight(q, e)
  PROVE  Support'
<1>1. ASSUME NEW e \in Events
      PROVE  /\ phase[e] = Absent => phase'[e] = Absent
             /\ phase'[e] = Absent => canceled'[e] = NoRequest
             /\ phase'[e] = "PENDING" =>
                  phase[e] = "PENDING" /\ (e \in withdrawn' => e \in withdrawn)
             /\ e \in withdrawn' \ withdrawn =>
                  /\ phase[e] # Absent
                  /\ CreateInFlight(e) => e \in raced'
                  /\ \A q \in Requests : StartInFlight(q, e) => e \in raced'
  <2>1. CASE e \in S
    BY <2>1, RemoveDocsHistory DEF Absent
  <2>2. CASE e \notin S
    BY <2>2, RemoveDocsHistory DEF Support, AbsentNotCanceled
  <2> QED BY <2>1, <2>2
<1> QED BY <1>1, SupportWithdraw

(* No handler step brings a Start past its check.                          *)
StartsKept(r) ==
  /\ \A q \in Requests \ {r} : req'[q] = req[q]
  /\ \/ req'[r].pc \notin {"startPVC", "startPod"}
     \/ req[r].pc = "startPVC" /\ req'[r].ev = req[r].ev

LEMMA GotoStarts ==
  ASSUME TypeOK, NEW r \in Requests, NEW step, Goto(r, step),
         step \in {"startPVC", "startPod"} => req[r].pc = "startPVC"
  PROVE  StartsKept(r)
BY GotoEffect DEF StartsKept

LEMMA CleanupStarts ==
  ASSUME TypeOK, NEW r \in Requests, NEW todo \in SUBSET Events,
         StartCleanup(r, todo)
  PROVE  StartsKept(r)
BY StartCleanupEffect DEF StartsKept

LEMMA HandlerStarts ==
  ASSUME TypeOK, NEW r \in Requests,
         HandlerStep(r) \/ CleanupFails(r) \/ Abandon(r)
  PROVE  \A q \in Requests, e \in Events :
           StartInFlight(q, e)' => StartInFlight(q, e)
<1> SUFFICES StartsKept(r)
  BY DEF StartsKept, StartInFlight
<1>0. req[r].ev \in Events /\ req[r].todo \in SUBSET Events
  BY DEF TypeOK, Request
<1>1. CASE CreateWorkspacePVC(r)
  <2>1. \/ Goto(r, "done")
        \/ Goto(r, "startPod") /\ req[r].pc = "startPVC"
    BY <1>1 DEF CreateWorkspacePVC
  <2> QED BY <2>1, GotoStarts
<1>2. CASE CreateWorkerPod(r)
  BY <1>2, GotoStarts DEF CreateWorkerPod
<1>3. CASE CancelManyPending(r)
  BY <1>3, GotoStarts DEF CancelManyPending
<1>4. CASE CancelManyRunning(r)
  BY <1>4, GotoStarts DEF CancelManyRunning
<1>5. CASE MarkDeleted(r)
  BY <1>5, GotoStarts DEF MarkDeleted
<1>6. CASE DeletePods(r)
  BY <1>6, GotoStarts DEF DeletePods
<1>7. CASE DeletePVCs(r)
  BY <1>7, GotoStarts DEF DeletePVCs
<1>8. CASE Abandon(r)
  BY <1>8, GotoStarts DEF Abandon
<1>9. CASE FindDeleted(r)
  BY <1>9 DEF FindDeleted, TypeOK, Request, StartsKept
<1>10. CASE CancelPending(r)
  <2>1. Goto(r, "cancelRunning") \/ StartCleanup(r, {req[r].ev})
    BY <1>10 DEF CancelPending
  <2>2. {req[r].ev} \in SUBSET Events
    BY <1>0
  <2>3. CASE Goto(r, "cancelRunning")
    BY <2>3, GotoStarts
  <2>4. CASE StartCleanup(r, {req[r].ev})
    BY <2>2, <2>4, CleanupStarts
  <2> QED BY <2>1, <2>3, <2>4
<1>11. CASE CancelRunning(r)
  <2>1. PICK todo \in {{}, {req[r].ev}} : StartCleanup(r, todo)
    BY <1>11 DEF CancelRunning
  <2>2. todo \in SUBSET Events
    BY <1>0, <2>1
  <2> QED BY <2>1, <2>2, CleanupStarts
<1>12. CASE CancelManyFind(r)
  <2>1. {e \in Events : phase[e] # Absent /\ canceled[e] = r} \in SUBSET Events
    OBVIOUS
  <2>2. StartCleanup(r, {e \in Events : phase[e] # Absent /\ canceled[e] = r})
    BY <1>12 DEF CancelManyFind
  <2> QED BY <2>1, <2>2, CleanupStarts
<1>13. CASE DeleteDoc(r)
  <2>1. {e \in {req[r].ev} : phase[e] # Absent} \in SUBSET Events
    BY <1>0
  <2>2. StartCleanup(r, {e \in {req[r].ev} : phase[e] # Absent})
    BY <1>13 DEF DeleteDoc
  <2> QED BY <2>1, <2>2, CleanupStarts
<1>14. CASE Purge(r)
  <2>1. StartCleanup(r, req[r].todo)
    BY <1>14 DEF Purge
  <2> QED BY <1>0, <2>1, CleanupStarts
<1>15. CASE DeleteSecrets(r) \/ CleanupFails(r)
  <2>1. StartCleanup(r, req[r].todo \ {req[r].ev})
    BY <1>15 DEF DeleteSecrets, CleanupFails, NextCleanup
  <2>2. req[r].todo \ {req[r].ev} \in SUBSET Events
    BY <1>0
  <2> QED BY <2>1, <2>2, CleanupStarts
<1> QED
  BY <1>1, <1>2, <1>3, <1>4, <1>5, <1>6, <1>7, <1>8, <1>9, <1>10, <1>11,
     <1>12, <1>13, <1>14, <1>15 DEF HandlerStep

(* The documents a request is about to remove exist.                       *)
LEMMA SelectedExist ==
  ASSUME TypeOK, NEW r \in Requests, NEW mark
  PROVE  Selected(r, mark) \in SUBSET {e \in Events : phase[e] # Absent}
BY DEF Selected, TypeOK, Request, WorkerPhases, Absent

LEMMA SupportHandler ==
  ASSUME TypeOK, Support, NEW r \in Requests,
         HandlerStep(r) \/ CleanupFails(r) \/ Abandon(r)
  PROVE  Support'
<1>0. req[r].ev \in Events
  BY DEF TypeOK, Request
<1>1. \A q \in Requests, e \in Events :
        StartInFlight(q, e)' => StartInFlight(q, e)
  BY HandlerStarts
<1>2. CASE CreateWorkspacePVC(r) \/ CreateWorkerPod(r) \/ CancelManyFind(r)
           \/ MarkDeleted(r) \/ FindDeleted(r) \/ DeletePods(r)
           \/ DeletePVCs(r) \/ DeleteSecrets(r) \/ CleanupFails(r) \/ Abandon(r)
  <2>1. UNCHANGED <<phase, canceled, create, withdrawn, raced>>
    BY <1>2 DEF CreateWorkspacePVC, CreateWorkerPod, CancelManyFind,
                MarkDeleted, FindDeleted, DeletePods, DeletePVCs,
                DeleteSecrets, CleanupFails, Abandon, docVars, auxVars
  <2> QED BY <1>1, <2>1, SupportKept
<1>3. CASE CancelPending(r)
  <2>1. UpdatePhase(r, {req[r].ev}, "PENDING", "CANCELED") /\ UNCHANGED create
    BY <1>3 DEF CancelPending
  <2>2. {req[r].ev} \in SUBSET Events
    BY <1>0
  <2> QED BY <1>1, <2>1, <2>2, UpdatePhaseSupport
<1>4. CASE CancelRunning(r)
  <2>1. UpdatePhase(r, {req[r].ev}, "RUNNING", "ABORTED") /\ UNCHANGED create
    BY <1>4 DEF CancelRunning
  <2>2. {req[r].ev} \in SUBSET Events
    BY <1>0
  <2> QED BY <1>1, <2>1, <2>2, UpdatePhaseSupport
<1>5. CASE CancelManyPending(r)
  <2>1. PICK S \in {Events, {}} : UpdatePhase(r, S, "PENDING", "CANCELED")
    BY <1>5 DEF CancelManyPending
  <2>2. S \in SUBSET Events /\ UNCHANGED create
    BY <1>5, <2>1 DEF CancelManyPending
  <2> QED BY <1>1, <2>1, <2>2, UpdatePhaseSupport
<1>6. CASE CancelManyRunning(r)
  <2>1. PICK S \in {Events, {}} : UpdatePhase(r, S, "RUNNING", "ABORTED")
    BY <1>6 DEF CancelManyRunning
  <2>2. S \in SUBSET Events /\ UNCHANGED create
    BY <1>6, <2>1 DEF CancelManyRunning
  <2> QED BY <1>1, <2>1, <2>2, UpdatePhaseSupport
<1>7. CASE DeleteDoc(r)
  <2> DEFINE found == {e \in {req[r].ev} : phase[e] # Absent}
  <2>1. RemoveDocs(found) /\ Withdraw(found) /\ UNCHANGED create
    BY <1>7 DEF DeleteDoc
  <2>2. found \in SUBSET Events /\ \A e \in found : phase[e] # Absent
    BY <1>0
  <2>3. /\ withdrawn' = withdrawn \cup found /\ raced \subseteq raced'
        /\ \A e \in found :
             /\ CreateInFlight(e) => e \in raced'
             /\ \A q \in Requests : StartInFlight(q, e) => e \in raced'
    BY <2>1 DEF Withdraw
  <2> HIDE DEF found
  <2> QED BY <1>1, <2>1, <2>2, <2>3, RemoveDocsSupport
<1>8. CASE Purge(r)
  <2> DEFINE gone == Selected(r, r)
  <2>1. gone \in SUBSET Events /\ \A e \in gone : phase[e] # Absent
    BY SelectedExist
  <2>2. /\ RemoveDocs(gone) /\ UNCHANGED create
        /\ withdrawn' = withdrawn \cup gone /\ raced \subseteq raced'
        /\ \A e \in gone :
             /\ CreateInFlight(e) => e \in raced'
             /\ \A q \in Requests : StartInFlight(q, e) => e \in raced'
    BY <1>8 DEF Purge
  <2> HIDE DEF gone
  <2> QED BY <1>1, <2>1, <2>2, RemoveDocsSupport
<1> QED BY <1>2, <1>3, <1>4, <1>5, <1>6, <1>7, <1>8 DEF HandlerStep

LEMMA SupportCluster ==
  ASSUME Support, NEW e \in Events, PodStep(e) \/ Observe(e)
  PROVE  Support'
<1>1. UNCHANGED <<phase, canceled, create, withdrawn, raced, req>>
  BY DEF PodStep, PodRuns, PodEnds, PodLost, PodGone, PodBecomes, Observe,
         docVars, auxVars
<1> QED BY <1>1, SupportKept DEF StartInFlight

LEMMA SupportReport ==
  ASSUME TypeOK, Support, NEW e \in Events, NEW p \in ObservedPhases,
         UpdateStatus(e, p) \/ LoseReport(e, p)
  PROVE  Support'
<1>1. UNCHANGED <<canceled, create, withdrawn, raced, req>>
  BY DEF UpdateStatus, LoseReport, docVars, auxVars
<1>2. \A d \in Events : /\ phase'[d] = Absent <=> phase[d] = Absent
                        /\ phase'[d] = "PENDING" => phase[d] = "PENDING"
  BY DEF UpdateStatus, LoseReport, docVars, TypeOK, ObservedPhases, Absent
<1>3. \A q \in Requests, d \in Events :
        StartInFlight(q, d)' => StartInFlight(q, d)
  BY <1>1 DEF StartInFlight
<1>4. \A d \in Events : phase'[d] = Absent => canceled'[d] = NoRequest
  BY <1>1, <1>2 DEF Support, AbsentNotCanceled
<1> QED BY <1>1, <1>2, <1>3, <1>4, SupportWithdraw
-----------------------------------------------------------------------------
(* The claim itself, action by action, for an event of which a clean-up is *)
(* owed.                                                                   *)
Owed == withdrawn \ (raced \cup dropped)

Accounted ==
  /\ Support
  /\ \A e \in Owed : Clean(e)

LEMMA CleanSteady ==
  ASSUME NEW e \in Events, Clean(e), UNCHANGED <<canceled, req>>,
         \A s \in CleanupSteps : Left(e, s)' => Left(e, s)
  PROVE  Clean(e)'
<1>1. \A q \in Requests, s \in CleanupSteps :
        CleanupPending(q, e, s)' <=> CleanupPending(q, e, s)
  BY DEF CleanupPending
<1> QED BY <1>1, CleanKept

LEMMA CleanCreate ==
  ASSUME Accounted, NEW d \in Events,
         CreateEvent(d) \/ CreateStep(d) \/ CreateFails(d),
         NEW e \in Events, e \in Owed'
  PROVE  Clean(e)'
<1>1. UNCHANGED <<canceled, req, withdrawn, raced, dropped, pod, terminating,
                  pvcs>>
  BY DEF CreateEvent, CreateStep, CreateEventSecret, PublishWorker,
         CreateFails, docVars, k8sVars, auxVars
<1>2. e \in Owed /\ Clean(e)
  BY <1>1 DEF Owed, Accounted
<1>3. e \in secrets' => e \in secrets
  <2>1. CASE CreateEventSecret(d)
    <3>1. d # e
      BY <1>2, <2>1 DEF CreateEventSecret, CreateInFlight, Accounted, Support,
                        CreatesRaced, Owed
    <3> QED BY <2>1, <3>1 DEF CreateEventSecret
  <2>2. CASE ~CreateEventSecret(d)
    BY <2>2 DEF CreateEvent, CreateStep, PublishWorker, CreateFails, k8sVars
  <2> QED BY <2>1, <2>2
<1> QED BY <1>1, <1>2, <1>3, CleanSteady DEF Left

LEMMA CleanCall ==
  ASSUME TypeOK, Accounted, NEW r \in Requests, Call(r),
         NEW e \in Events, e \in Owed'
  PROVE  Clean(e)'
<1>1. /\ UNCHANGED <<canceled, withdrawn, raced, dropped, pod, terminating,
                     pvcs, secrets>>
      /\ req[r].pc = "idle"
  BY DEF Call, Start, Cancel, Delete, CancelMany, DeleteMany, docVars, k8sVars,
         auxVars
<1>2. \A q \in Requests \ {r} : req'[q] = req[q]
  BY DEF Call, Start, Cancel, Delete, CancelMany, DeleteMany, TypeOK
<1>3. Clean(e)
  BY <1>1 DEF Owed, Accounted
<1>4. \A s \in CleanupSteps : ~CleanupPending(r, e, s)
  BY <1>1 DEF CleanupPending, CleanupSteps
<1>5. \A s \in CleanupSteps : Left(e, s)' => Left(e, s)
  BY <1>1 DEF Left
<1> QED BY <1>1, <1>2, <1>3, <1>4, <1>5, CleanMove

(* A claim or pod is only made for an event whose Start was in flight.     *)
LEMMA CleanStart ==
  ASSUME TypeOK, Accounted, NEW r \in Requests,
         CreateWorkspacePVC(r) \/ CreateWorkerPod(r),
         NEW e \in Events, e \in Owed'
  PROVE  Clean(e)'
<1>1. /\ UNCHANGED <<canceled, withdrawn, raced, dropped, terminating, secrets>>
      /\ req[r].pc \in {"startPVC", "startPod"}
  BY DEF CreateWorkspacePVC, CreateWorkerPod, docVars, auxVars
<1>2. \A q \in Requests \ {r} : req'[q] = req[q]
  BY GotoEffect DEF CreateWorkspacePVC, CreateWorkerPod
<1>3. Clean(e) /\ req[r].ev # e
  BY <1>1 DEF Owed, Accounted, Support, StartsRaced, StartInFlight
<1>4. \A s \in CleanupSteps : ~CleanupPending(r, e, s)
  BY <1>1 DEF CleanupPending, CleanupSteps
<1>5. \A s \in CleanupSteps : Left(e, s)' => Left(e, s)
  <2>1. pod'[e] = pod[e] /\ (e \in pvcs' => e \in pvcs)
    BY <1>3 DEF CreateWorkspacePVC, CreateWorkerPod, TypeOK
  <2> QED BY <1>1, <2>1 DEF Left
<1> QED BY <1>1, <1>2, <1>3, <1>4, <1>5, CleanMove

(* The update of a single cancellation, which cleans what it matched.      *)
LEMMA CleanCancel ==
  ASSUME TypeOK, Accounted, NEW r \in Requests,
         NEW from \in {"PENDING", "RUNNING"}, NEW to \in {"CANCELED", "ABORTED"},
         req[r].pc \in {"cancelPending", "cancelRunning"},
         UpdatePhase(r, {req[r].ev}, from, to),
         phase[req[r].ev] = from => StartCleanup(r, {req[r].ev}),
         phase[req[r].ev] # from =>
           Goto(r, "cancelRunning") \/ StartCleanup(r, {}),
         UNCHANGED <<k8sVars, dropped>>,
         NEW e \in Events, e \in Owed'
  PROVE  Clean(e)'
<1>0. req[r].ev \in Events /\ {req[r].ev} \in SUBSET Events /\ {} \in SUBSET Events
  BY DEF TypeOK, Request
<1>1. CASE e = req[r].ev /\ phase[e] = from
  <2>1. \A s \in CleanupSteps : CleanupPending(r, e, s)'
    BY <1>0, <1>1, StartCleanupEffect
  <2> QED BY <2>1, CleanDue
<1>2. CASE ~(e = req[r].ev /\ phase[e] = from)
  <2>1. canceled'[e] = canceled[e] /\ e \in Owed
    BY <1>0, <1>2, UpdatePhaseHistory DEF Owed
  <2>2. \A q \in Requests \ {r} : req'[q] = req[q]
    BY <1>0, GotoEffect, StartCleanupEffect
  <2>3. \A s \in CleanupSteps : ~CleanupPending(r, e, s)
    BY DEF CleanupPending, CleanupSteps
  <2>4. \A s \in CleanupSteps : Left(e, s)' => Left(e, s)
    BY DEF Left, k8sVars
  <2>5. Clean(e)
    BY <2>1 DEF Accounted
  <2> QED BY <2>1, <2>2, <2>3, <2>4, <2>5, CleanMove
<1> QED BY <1>1, <1>2

(* A bulk cancellation: until it has looked for what it cancelled, the     *)
(* cancellation time is what keeps the clean-up due.                       *)
LEMMA CleanMany ==
  ASSUME TypeOK, Accounted, NEW r \in Requests,
         NEW S \in SUBSET Events,
         \/ /\ req[r].pc = "manyPending" /\ Goto(r, "manyRunning")
            /\ UpdatePhase(r, S, "PENDING", "CANCELED")
         \/ /\ req[r].pc = "manyRunning" /\ Goto(r, "manyFind")
            /\ UpdatePhase(r, S, "RUNNING", "ABORTED"),
         UNCHANGED <<k8sVars, dropped>>,
         NEW e \in Events, e \in Owed'
  PROVE  Clean(e)'
<1>1. PICK from \in {"PENDING", "RUNNING"}, to \in {"CANCELED", "ABORTED"} :
        UpdatePhase(r, S, from, to)
  OBVIOUS
<1>2. /\ req'[r].pc \in {"manyRunning", "manyFind"}
      /\ \A q \in Requests \ {r} : req'[q] = req[q]
  BY GotoEffect
<1>3. CASE e \in S /\ phase[e] = from
  <2>1. canceled'[e] = r
    BY <1>1, <1>3, UpdatePhaseHistory
  <2>2. \A s \in CleanupSteps : CleanupPending(r, e, s)'
    BY <1>2, <2>1 DEF CleanupPending
  <2> QED BY <2>2, CleanDue
<1>4. CASE ~(e \in S /\ phase[e] = from)
  <2>1. canceled'[e] = canceled[e] /\ e \in Owed
    BY <1>1, <1>4, UpdatePhaseHistory DEF Owed
  <2>2. Clean(e)
    BY <2>1 DEF Accounted
  <2>3. \A s \in CleanupSteps : Left(e, s)' => Left(e, s)
    BY DEF Left, k8sVars
  <2>4. ASSUME NEW s \in CleanupSteps, CleanupPending(r, e, s)
        PROVE  CleanupPending(r, e, s)'
    <3>1. canceled[e] = r
      BY <2>4 DEF CleanupPending, CleanupSteps
    <3> QED BY <1>2, <2>1, <3>1 DEF CleanupPending
  <2>5. \A s \in CleanupSteps, q \in Requests :
          CleanupPending(q, e, s) => CleanupPending(q, e, s)'
    BY <1>2, <2>1, <2>4, PendingElsewhere
  <2> QED BY <2>2, <2>3, <2>5, CleanKept
<1> QED BY <1>3, <1>4

LEMMA CleanManyFind ==
  ASSUME TypeOK, Accounted, NEW r \in Requests, CancelManyFind(r),
         NEW e \in Events, e \in Owed'
  PROVE  Clean(e)'
<1> DEFINE found == {d \in Events : phase[d] # Absent /\ canceled[d] = r}
<1>1. /\ UNCHANGED <<canceled, withdrawn, raced, dropped, k8sVars>>
      /\ req[r].pc = "manyFind" /\ StartCleanup(r, found)
      /\ found \in SUBSET Events
  BY DEF CancelManyFind, docVars, auxVars
<1>2. /\ \A q \in Requests \ {r} : req'[q] = req[q]
      /\ \A d \in found, s \in CleanupSteps : CleanupPending(r, d, s)'
  BY <1>1, StartCleanupEffect
<1>3. CASE canceled[e] = r
  <2>1. e \in found
    BY <1>3, NoRequestAssumption DEF Accounted, Support, AbsentNotCanceled
  <2> QED BY <1>2, <2>1, CleanDue
<1>4. CASE canceled[e] # r
  <2>1. Clean(e)
    BY <1>1 DEF Accounted, Owed
  <2>2. \A s \in CleanupSteps : ~CleanupPending(r, e, s)
    BY <1>1, <1>4 DEF CleanupPending, CleanupSteps
  <2>3. \A s \in CleanupSteps : Left(e, s)' => Left(e, s)
    BY <1>1 DEF Left, k8sVars
  <2> QED BY <1>1, <1>2, <2>1, <2>2, <2>3, CleanMove
<1> QED BY <1>3, <1>4

LEMMA CleanDeleteDoc ==
  ASSUME TypeOK, Accounted, NEW r \in Requests, DeleteDoc(r),
         NEW e \in Events, e \in Owed'
  PROVE  Clean(e)'
<1> DEFINE found == {d \in {req[r].ev} : phase[d] # Absent}
<1>1. /\ req[r].pc = "deleteDoc" /\ RemoveDocs(found) /\ Withdraw(found)
      /\ StartCleanup(r, found) /\ UNCHANGED <<k8sVars, dropped>>
  BY DEF DeleteDoc
<1>2. found \in SUBSET Events
  BY DEF TypeOK, Request
<1> HIDE DEF found
<1>3. /\ \A q \in Requests \ {r} : req'[q] = req[q]
      /\ \A d \in found, s \in CleanupSteps : CleanupPending(r, d, s)'
  BY <1>1, <1>2, StartCleanupEffect
<1>4. CASE e \in found
  BY <1>3, <1>4, CleanDue
<1>5. CASE e \notin found
  <2>1. canceled'[e] = canceled[e]
    BY <1>1, <1>2, <1>5, RemoveDocsHistory
  <2>2. Clean(e)
    BY <1>1, <1>5 DEF Withdraw, Owed, Accounted
  <2>3. \A s \in CleanupSteps : ~CleanupPending(r, e, s)
    BY <1>1 DEF CleanupPending, CleanupSteps
  <2>4. \A s \in CleanupSteps : Left(e, s)' => Left(e, s)
    BY <1>1 DEF Left, k8sVars
  <2> QED BY <1>3, <2>1, <2>2, <2>3, <2>4, CleanMove
<1> QED BY <1>4, <1>5

(* What is purged without having been found counts as raced.               *)
LEMMA CleanPurge ==
  ASSUME TypeOK, Accounted, NEW r \in Requests, Purge(r),
         NEW e \in Events, e \in Owed'
  PROVE  Clean(e)'
<1> DEFINE gone == Selected(r, r)
<1>1. /\ req[r].pc = "purge" /\ RemoveDocs(gone)
      /\ withdrawn' = withdrawn \cup gone
      /\ raced \subseteq raced' /\ gone \ req[r].todo \subseteq raced'
      /\ StartCleanup(r, req[r].todo) /\ UNCHANGED <<k8sVars, dropped>>
  BY DEF Purge
<1>2. gone \in SUBSET Events /\ req[r].todo \in SUBSET Events
  BY SelectedExist DEF TypeOK, Request
<1> HIDE DEF gone
<1>3. /\ \A q \in Requests \ {r} : req'[q] = req[q]
      /\ \A d \in req[r].todo, s \in CleanupSteps : CleanupPending(r, d, s)'
  BY <1>1, <1>2, StartCleanupEffect
<1>4. CASE e \in req[r].todo
  BY <1>3, <1>4, CleanDue
<1>5. CASE e \notin req[r].todo
  <2>1. e \notin gone
    BY <1>1, <1>5 DEF Owed
  <2>2. canceled'[e] = canceled[e]
    BY <1>1, <1>2, <2>1, RemoveDocsHistory
  <2>3. Clean(e)
    BY <1>1, <2>1 DEF Owed, Accounted
  <2>4. \A s \in CleanupSteps : ~CleanupPending(r, e, s)
    BY <1>1 DEF CleanupPending, CleanupSteps
  <2>5. \A s \in CleanupSteps : Left(e, s)' => Left(e, s)
    BY <1>1 DEF Left, k8sVars
  <2> QED BY <1>3, <2>2, <2>3, <2>4, <2>5, CleanMove
<1> QED BY <1>4, <1>5

LEMMA CleanMark ==
  ASSUME TypeOK, Accounted, NEW r \in Requests,
         MarkDeleted(r) \/ FindDeleted(r),
         NEW e \in Events, e \in Owed'
  PROVE  Clean(e)'
<1>1. /\ req[r].pc \in {"markDeleted", "findDeleted"}
      /\ UNCHANGED <<canceled, withdrawn, raced, dropped, k8sVars>>
  BY DEF MarkDeleted, FindDeleted, docVars, auxVars
<1>2. \A q \in Requests \ {r} : req'[q] = req[q]
  BY GotoEffect DEF MarkDeleted, FindDeleted, TypeOK
<1>3. Clean(e)
  BY <1>1 DEF Owed, Accounted
<1>4. \A s \in CleanupSteps : ~CleanupPending(r, e, s)
  BY <1>1 DEF CleanupPending, CleanupSteps
<1>5. \A s \in CleanupSteps : Left(e, s)' => Left(e, s)
  BY <1>1 DEF Left, k8sVars
<1> QED BY <1>1, <1>2, <1>3, <1>4, <1>5, CleanMove

(* The clean-up of one event: a step done leaves nothing for itself to     *)
(* remove, and the steps after it stay due.                                *)
LEMMA CleanDelete ==
  ASSUME TypeOK, Accounted, NEW r \in Requests,
         DeletePods(r) \/ DeletePVCs(r),
         NEW e \in Events, e \in Owed'
  PROVE  Clean(e)'
<1>1. UNCHANGED <<canceled, withdrawn, raced, dropped, pod, secrets>>
  BY DEF DeletePods, DeletePVCs, docVars, auxVars
<1>2. Clean(e)
  BY <1>1 DEF Owed, Accounted
<1>3. PICK step \in {"pvcs", "secrets"} : Goto(r, step)
  BY DEF DeletePods, DeletePVCs
<1>4. /\ req'[r].pc = step /\ req'[r].ev = req[r].ev
      /\ req'[r].todo = req[r].todo
      /\ \A q \in Requests \ {r} : req'[q] = req[q]
  BY <1>3, GotoEffect
<1>5. \A s \in CleanupSteps : Left(e, s)' => Left(e, s)
  BY <1>1 DEF Left, DeletePods, DeletePVCs, k8sVars
<1>6. ASSUME NEW s \in CleanupSteps, CleanupPending(r, e, s), Left(e, s)'
      PROVE  CleanupPending(r, e, s)'
  <2>1. CASE DeletePods(r)
    <3>1. req'[r].pc = "pvcs" /\ e \in req[r].todo
      BY <1>6, <2>1, GotoEffect DEF DeletePods, CleanupPending
    <3>2. e = req[r].ev => s # "pods"
      BY <1>1, <1>6, <2>1 DEF DeletePods, Left
    <3> QED BY <1>4, <3>1, <3>2 DEF CleanupPending, CleanupSteps, Before
  <2>2. CASE DeletePVCs(r)
    <3>1. /\ req'[r].pc = "secrets" /\ e \in req[r].todo
          /\ e = req[r].ev => s \in {"pvcs", "secrets"}
      BY <1>6, <2>2, GotoEffect DEF DeletePVCs, CleanupPending, Before
    <3>2. e = req[r].ev => s # "pvcs"
      BY <1>6, <2>2 DEF DeletePVCs, Left
    <3> QED BY <1>4, <3>1, <3>2 DEF CleanupPending, CleanupSteps, Before
  <2> QED BY <2>1, <2>2
<1> QED BY <1>1, <1>2, <1>4, <1>5, <1>6, CleanKept, PendingElsewhere

LEMMA CleanNext ==
  ASSUME TypeOK, Accounted, NEW r \in Requests,
         DeleteSecrets(r) \/ CleanupFails(r),
         NEW e \in Events, e \in Owed'
  PROVE  Clean(e)'
<1> DEFINE rest == req[r].todo \ {req[r].ev}
<1>1. /\ UNCHANGED <<canceled, withdrawn, raced, pod, terminating, pvcs>>
      /\ dropped \subseteq dropped' /\ secrets' \subseteq secrets
      /\ req[r].pc \in CleanupSteps /\ StartCleanup(r, rest)
  BY DEF DeleteSecrets, CleanupFails, NextCleanup, CleanupSteps, docVars,
         k8sVars, auxVars
<1>2. rest \in SUBSET Events
  BY DEF TypeOK, Request
<1>3. /\ \A q \in Requests \ {r} : req'[q] = req[q]
      /\ \A d \in rest, s \in CleanupSteps : CleanupPending(r, d, s)'
  BY <1>1, <1>2, StartCleanupEffect
<1>4. Clean(e)
  BY <1>1 DEF Owed, Accounted
<1>5. \A s \in CleanupSteps : Left(e, s)' => Left(e, s)
  BY <1>1 DEF Left
<1>6. ASSUME NEW s \in CleanupSteps, CleanupPending(r, e, s), Left(e, s)'
      PROVE  CleanupPending(r, e, s)'
  <2>1. e \in req[r].todo
    BY <1>1, <1>6 DEF CleanupPending, CleanupSteps
  <2>2. e # req[r].ev
    <3>1. CASE CleanupFails(r)
      BY <3>1 DEF CleanupFails, Owed
    <3>2. CASE DeleteSecrets(r)
      BY <1>6, <3>2 DEF DeleteSecrets, CleanupPending, CleanupSteps, Before, Left
    <3> QED BY <3>1, <3>2
  <2> QED BY <1>3, <2>1, <2>2
<1> QED BY <1>1, <1>3, <1>4, <1>5, <1>6, CleanKept, PendingElsewhere

LEMMA CleanAbandon ==
  ASSUME TypeOK, Accounted, NEW r \in Requests, Abandon(r),
         NEW e \in Events, e \in Owed'
  PROVE  Clean(e)'
<1>1. /\ UNCHANGED <<canceled, withdrawn, raced, k8sVars>>
      /\ dropped \subseteq dropped'
  BY DEF Abandon, docVars
<1>2. \A s \in CleanupSteps : ~CleanupPending(r, e, s)
  BY DEF Abandon, Owed
<1>3. \A q \in Requests \ {r} : req'[q] = req[q]
  BY GotoEffect DEF Abandon
<1>4. Clean(e)
  BY <1>1 DEF Owed, Accounted
<1>5. \A s \in CleanupSteps : Left(e, s)' => Left(e, s)
  BY <1>1 DEF Left, k8sVars
<1> QED BY <1>1, <1>2, <1>3, <1>4, <1>5, CleanMove

LEMMA CleanCluster ==
  ASSUME TypeOK, Accounted, NEW d \in Events, PodStep(d) \/ Observe(d),
         NEW e \in Events, e \in Owed'
  PROVE  Clean(e)'
<1>1. UNCHANGED <<canceled, req, withdrawn, raced, dropped, secrets, pvcs>>
  BY DEF PodStep, PodRuns, PodEnds, PodLost, PodGone, PodBecomes, Observe,
         docVars, k8sVars, auxVars
<1>2. Clean(e)
  BY <1>1 DEF Owed, Accounted
<1>3. pod'[e] # NoPod /\ e \notin terminating'
        => pod[e] # NoPod /\ e \notin terminating
  BY DEF PodStep, PodRuns, PodEnds, PodLost, PodGone, PodBecomes, Observe,
         k8sVars, TypeOK, NoPod
<1> QED BY <1>1, <1>2, <1>3, CleanSteady DEF Left

LEMMA CleanReport ==
  ASSUME Accounted, NEW d \in Events, NEW p \in ObservedPhases,
         UpdateStatus(d, p) \/ LoseReport(d, p),
         NEW e \in Events, e \in Owed'
  PROVE  Clean(e)'
<1>1. UNCHANGED <<canceled, req, withdrawn, raced, dropped, k8sVars>>
  BY DEF UpdateStatus, LoseReport, docVars, auxVars
<1>2. Clean(e)
  BY <1>1 DEF Owed, Accounted
<1> QED BY <1>1, <1>2, CleanSteady DEF Left, k8sVars

(* Every step, for every event of which a clean-up is owed after it.       *)
LEMMA HandlerClean ==
  ASSUME TypeOK, Accounted, NEW r \in Requests, HandlerStep(r),
         NEW e \in Events, e \in Owed'
  PROVE  Clean(e)'
<1>0. req[r].ev \in Events
  BY DEF TypeOK, Request
<1>1. CASE CancelPending(r)
  BY <1>1, CleanCancel DEF CancelPending
<1>2. CASE CancelRunning(r)
  <2>1. /\ req[r].pc = "cancelRunning" /\ UNCHANGED <<k8sVars, dropped>>
        /\ UpdatePhase(r, {req[r].ev}, "RUNNING", "ABORTED")
        /\ phase[req[r].ev] = "RUNNING" => StartCleanup(r, {req[r].ev})
        /\ phase[req[r].ev] # "RUNNING" => StartCleanup(r, {})
    BY <1>2 DEF CancelRunning
  <2> QED BY <2>1, CleanCancel
<1>3. CASE CancelManyPending(r)
  <2>1. PICK S \in {Events, {}} : UpdatePhase(r, S, "PENDING", "CANCELED")
    BY <1>3 DEF CancelManyPending
  <2>2. /\ S \in SUBSET Events /\ req[r].pc = "manyPending"
        /\ Goto(r, "manyRunning") /\ UNCHANGED <<k8sVars, dropped>>
    BY <1>3, <2>1 DEF CancelManyPending
  <2> QED BY <2>1, <2>2, CleanMany
<1>4. CASE CancelManyRunning(r)
  <2>1. PICK S \in {Events, {}} : UpdatePhase(r, S, "RUNNING", "ABORTED")
    BY <1>4 DEF CancelManyRunning
  <2>2. /\ S \in SUBSET Events /\ req[r].pc = "manyRunning"
        /\ Goto(r, "manyFind") /\ UNCHANGED <<k8sVars, dropped>>
    BY <1>4, <2>1 DEF CancelManyRunning
  <2> QED BY <2>1, <2>2, CleanMany
<1>5. CASE ~(CancelPending(r) \/ CancelRunning(r) \/ CancelManyPending(r)
             \/ CancelManyRunning(r))
  BY <1>5, CleanStart, CleanManyFind, CleanDeleteDoc, CleanMark, CleanPurge,
     CleanDelete, CleanNext DEF HandlerStep
<1> QED BY <1>1, <1>2, <1>3, <1>4, <1>5

(* Nothing of a canceled or deleted event stays behind unexplained.        *)
THEOREM ResidueIsExplained == Spec => []ResidueExplained
<1> DEFINE IInv == TypeOK /\ Accounted
<1>1. Init => IInv
  BY InitTypeOK
     DEF Init, Accounted, Support, NotYetCreated, PendingNotWithdrawn,
         StartsRaced, CreatesRaced, AbsentNotCanceled, Owed, Absent
<1>2. IInv /\ [Next]_vars => IInv'
  <2> SUFFICES ASSUME TypeOK, Accounted, [Next]_vars PROVE Accounted'
    BY NextTypeOK
  <2> USE DEF Accounted
  <2>1. ASSUME NEW d \in Events,
               CreateEvent(d) \/ CreateStep(d) \/ CreateFails(d)
        PROVE  Support' /\ \A e \in Events : e \in Owed' => Clean(e)'
    BY <2>1, SupportCreate, CleanCreate
  <2>2. ASSUME NEW r \in Requests, Call(r)
        PROVE  Support' /\ \A e \in Events : e \in Owed' => Clean(e)'
    BY <2>2, SupportCall, CleanCall
  <2>3. ASSUME NEW r \in Requests,
               HandlerStep(r) \/ CleanupFails(r) \/ Abandon(r)
        PROVE  Support' /\ \A e \in Events : e \in Owed' => Clean(e)'
    BY <2>3, SupportHandler, HandlerClean, CleanNext, CleanAbandon
  <2>4. ASSUME NEW d \in Events, PodStep(d) \/ Observe(d)
        PROVE  Support' /\ \A e \in Events : e \in Owed' => Clean(e)'
    BY <2>4, SupportCluster, CleanCluster
  <2>5. ASSUME NEW d \in Events, NEW p \in ObservedPhases,
               UpdateStatus(d, p) \/ LoseReport(d, p)
        PROVE  Support' /\ \A e \in Events : e \in Owed' => Clean(e)'
    BY <2>5, SupportReport, CleanReport
  <2>6. ASSUME UNCHANGED vars
        PROVE  Support' /\ \A e \in Events : e \in Owed' => Clean(e)'
    <3>1. UNCHANGED <<phase, canceled, create, withdrawn, raced, dropped, req,
                      k8sVars>>
      BY <2>6 DEF vars, docVars, auxVars
    <3>2. Support'
      BY <3>1, SupportKept DEF StartInFlight
    <3>3. \A e \in Events : e \in Owed' => Clean(e)'
      BY <3>1, CleanSteady DEF Owed, Left, k8sVars
    <3> QED BY <3>2, <3>3
  <2>7. Support' /\ \A e \in Events : e \in Owed' => Clean(e)'
    BY <2>1, <2>2, <2>3, <2>4, <2>5, <2>6 DEF Next
  <2>8. Owed' \subseteq Events
    BY NextTypeOK DEF Owed, TypeOK
  <2> QED BY <2>7, <2>8
<1>3. IInv => ResidueExplained
  BY DEF Accounted, Owed, ResidueExplained
<1> QED BY <1>1, <1>2, <1>3, PTL DEF Spec

-----------------------------------------------------------------------------
(* SingleExecution is about the number of pods, and a pod is only created  *)
(* where there is none: an event that has had a pod and has none must have *)
(* lost it to a cleanup, and cleanups only ever work on events that were   *)
(* withdrawn or marked.  Once it is, an event stays so: a mark goes with   *)
(* the document, by a deletion that withdraws the event.                   *)

Taken == withdrawn \cup {e \in Events : deleted[e] # NoRequest}

CanceledTaken == \A e \in Events : canceled[e] # NoRequest => e \in withdrawn

CleansTaken ==
  \A r \in Requests :
    /\ req[r].pc \in CleanupSteps \cup {"purge"} => req[r].todo \subseteq Taken
    /\ req[r].pc \in CleanupSteps => req[r].ev \in req[r].todo

PodLostTaken ==
  /\ terminating \subseteq Taken
  /\ \A e \in Events : runs[e] > 0 /\ pod[e] = NoPod => e \in Taken

RunsOnce == CanceledTaken /\ CleansTaken /\ PodLostTaken /\ SingleExecution

(* Pods are left alone, and what is taken stays taken.                     *)
LEMMA PodsUntouched ==
  ASSUME TypeOK, RunsOnce, Taken \subseteq Taken', UNCHANGED <<pod, terminating, runs>>
  PROVE  PodLostTaken' /\ SingleExecution'
<1>1. \A e \in Events : runs[e] > 1 => e \in Taken
  BY DEF RunsOnce, SingleExecution, Taken
<1>2. \A e \in Events : runs'[e] > 1 => e \in Taken'
  BY <1>1
<1> QED BY <1>2 DEF RunsOnce, PodLostTaken, SingleExecution, Taken

(* Request r moves to where it cleans nothing up, or goes on with what it  *)
(* has to do, or begins it.                                                *)
LEMMA CleansElsewhere ==
  ASSUME CleansTaken, Taken \subseteq Taken', NEW r \in Requests,
         \A q \in Requests \ {r} : req'[q] = req[q],
         \/ req'[r].pc \notin CleanupSteps \cup {"purge"}
         \/ /\ req[r].pc \in CleanupSteps
            /\ req'[r].todo = req[r].todo /\ req'[r].ev = req[r].ev
  PROVE  CleansTaken'
BY DEF CleansTaken

LEMMA CleansStart ==
  ASSUME TypeOK, CleansTaken, Taken \subseteq Taken', NEW r \in Requests,
         NEW todo \in SUBSET Taken', todo \subseteq Events, StartCleanup(r, todo)
  PROVE  CleansTaken'
<1>0. req \in [Requests -> Request] /\ \A q \in Requests \ {r} : req'[q] = req[q]
  BY StartCleanupEffect DEF TypeOK
<1>1. CASE todo = {}
  <2>1. req'[r].pc = "done"
    BY <1>0, <1>1 DEF StartCleanup, Request
  <2> QED BY <1>0, <2>1, CleansElsewhere DEF CleanupSteps
<1>2. CASE todo # {}
  <2>1. PICK e \in todo :
          req' = [req EXCEPT ![r].pc = "pods", ![r].ev = e, ![r].todo = todo]
    BY <1>2 DEF StartCleanup
  <2>2. req'[r].ev = e /\ req'[r].todo = todo
    BY <1>0, <2>1 DEF Request
  <2> QED BY <1>0, <2>1, <2>2 DEF CleansTaken
<1> QED BY <1>1, <1>2

(* A withdrawal by a guarded update, and one by the removal of documents.  *)
LEMMA UpdatePhaseTaken ==
  ASSUME TypeOK, CanceledTaken, NEW r \in Requests, NEW S \in SUBSET Events,
         NEW from, NEW to, UpdatePhase(r, S, from, to), UNCHANGED deleted
  PROVE  /\ CanceledTaken' /\ Taken \subseteq Taken'
         /\ \A e \in S : phase[e] = from => e \in Taken'
<1>1. withdrawn' = withdrawn \cup {e \in S : phase[e] = from}
  BY DEF UpdatePhase, Withdraw
<1>2. \A e \in Events :
        canceled'[e] = canceled[e] \/ (e \in S /\ phase[e] = from)
  BY DEF UpdatePhase, TypeOK
<1> QED BY <1>1, <1>2 DEF CanceledTaken, Taken

LEMMA RemoveDocsTaken ==
  ASSUME TypeOK, CanceledTaken, NEW S \in SUBSET Events, RemoveDocs(S),
         withdrawn' = withdrawn \cup S
  PROVE  CanceledTaken' /\ Taken \subseteq Taken' /\ S \subseteq Taken'
<1>1. \A e \in Events \ S : canceled'[e] = canceled[e] /\ deleted'[e] = deleted[e]
  BY DEF RemoveDocs, TypeOK
<1> QED BY <1>1 DEF CanceledTaken, Taken

LEMMA OnceUntouched ==
  ASSUME TypeOK, RunsOnce, Taken \subseteq Taken', CanceledTaken', CleansTaken',
         UNCHANGED <<pod, terminating, runs>>
  PROVE  RunsOnce'
BY PodsUntouched DEF RunsOnce

LEMMA OnceCall ==
  ASSUME TypeOK, RunsOnce, NEW r \in Requests, Call(r)
  PROVE  RunsOnce'
<1>0. req \in [Requests -> Request]
  BY DEF TypeOK
<1>1. /\ UNCHANGED <<canceled, deleted, pod, terminating, runs, withdrawn>>
      /\ \A q \in Requests \ {r} : req'[q] = req[q]
      /\ req'[r].pc \notin CleanupSteps \cup {"purge"}
  <2>1. UNCHANGED <<canceled, deleted, pod, terminating, runs, withdrawn>>
    BY DEF Call, Start, Cancel, Delete, CancelMany, DeleteMany, docVars, k8sVars,
           auxVars
  <2>2. ASSUME NEW step, NEW e \in Events,
               req' = [req EXCEPT ![r].pc = step, ![r].ev = e]
        PROVE  req'[r].pc = step /\ \A q \in Requests \ {r} : req'[q] = req[q]
    BY <1>0, <2>2 DEF Request
  <2>3. ASSUME NEW step, NEW sel \in SUBSET WorkerPhases,
               req' = [req EXCEPT ![r].pc = step, ![r].sel = sel]
        PROVE  req'[r].pc = step /\ \A q \in Requests \ {r} : req'[q] = req[q]
    BY <1>0, <2>3 DEF Request
  <2>4. ASSUME NEW e \in Events, Start(r, e) \/ Cancel(r, e) \/ Delete(r, e)
        PROVE  /\ req'[r].pc \notin CleanupSteps \cup {"purge"}
               /\ \A q \in Requests \ {r} : req'[q] = req[q]
    <3>1. \E step \in {"startPVC", "startPod", "cancelPending", "deleteDoc"} :
            req' = [req EXCEPT ![r].pc = step, ![r].ev = e]
      BY <2>4 DEF Start, Cancel, Delete
    <3> QED BY <2>2, <3>1 DEF CleanupSteps
  <2>5. ASSUME NEW sel \in Selectors, CancelMany(r, sel) \/ DeleteMany(r, sel)
        PROVE  /\ req'[r].pc \notin CleanupSteps \cup {"purge"}
               /\ \A q \in Requests \ {r} : req'[q] = req[q]
    <3>1. \E step \in {"done", "manyPending", "markDeleted"} :
            req' = [req EXCEPT ![r].pc = step, ![r].sel = sel]
      BY <2>5 DEF CancelMany, DeleteMany
    <3> QED BY <2>3, <3>1, SelectorsAssumption DEF CleanupSteps
  <2> QED BY <2>1, <2>4, <2>5 DEF Call
<1>2. Taken' = Taken /\ CanceledTaken'
  BY <1>1 DEF Taken, RunsOnce, CanceledTaken
<1>3. CleansTaken'
  BY <1>1, <1>2, CleansElsewhere DEF RunsOnce
<1> QED BY <1>1, <1>2, <1>3, OnceUntouched

(* The steps of Start and of the cleanup, the ones that handle pods.       *)
LEMMA OnceStart ==
  ASSUME TypeOK, RunsOnce, NEW r \in Requests,
         CreateWorkspacePVC(r) \/ CreateWorkerPod(r)
  PROVE  RunsOnce'
<1> DEFINE e == req[r].ev
<1>0. e \in Events
  BY DEF TypeOK, Request
<1>1. /\ UNCHANGED <<canceled, deleted, withdrawn, terminating>>
      /\ \E step \in {"startPod", "done"} : Goto(r, step)
  BY DEF CreateWorkspacePVC, CreateWorkerPod, docVars, auxVars
<1>2. /\ \A q \in Requests \ {r} : req'[q] = req[q]
      /\ req'[r].pc \notin CleanupSteps \cup {"purge"}
  BY <1>1, GotoEffect DEF CleanupSteps
<1>3. Taken' = Taken /\ CanceledTaken'
  BY <1>1 DEF Taken, RunsOnce, CanceledTaken
<1>4. CleansTaken'
  BY <1>2, <1>3, CleansElsewhere DEF RunsOnce
<1>5. CASE UNCHANGED <<pod, runs>>
  BY <1>1, <1>3, <1>4, <1>5, OnceUntouched
<1>6. CASE /\ pod[e] = NoPod
           /\ pod' = [pod EXCEPT ![e] = "Pending"]
           /\ runs' = [runs EXCEPT ![e] = @ + 1]
  <2>1. runs[e] > 0 => e \in Taken
    BY <1>0, <1>6 DEF RunsOnce, PodLostTaken
  <2>2. \A d \in Events : runs[d] > 1 => d \in Taken
    BY DEF RunsOnce, SingleExecution, Taken
  <2>3. \A d \in Events : runs'[d] > 1 => d \in Taken'
    BY <1>0, <1>3, <1>6, <2>1, <2>2 DEF TypeOK
  <2>4. PodLostTaken'
    BY <1>0, <1>1, <1>3, <1>6 DEF RunsOnce, PodLostTaken, TypeOK, NoPod
  <2> QED BY <1>3, <1>4, <2>3, <2>4 DEF RunsOnce, SingleExecution, Taken
<1> QED BY <1>5, <1>6 DEF CreateWorkspacePVC, CreateWorkerPod, auxVars

LEMMA OnceCleanup ==
  ASSUME TypeOK, RunsOnce, NEW r \in Requests,
         \/ DeletePods(r) \/ DeletePVCs(r) \/ DeleteSecrets(r)
         \/ CleanupFails(r) \/ Abandon(r)
  PROVE  RunsOnce'
<1> DEFINE e == req[r].ev
<1>0. e \in Events /\ req[r].todo \subseteq Events
  BY DEF TypeOK, Request
<1>1. UNCHANGED <<canceled, deleted, withdrawn, pod, runs>>
  BY DEF DeletePods, DeletePVCs, DeleteSecrets, CleanupFails, Abandon, docVars,
         k8sVars, auxVars
<1>2. Taken' = Taken /\ CanceledTaken'
  BY <1>1 DEF Taken, RunsOnce, CanceledTaken
<1>3. CASE DeletePods(r) \/ DeletePVCs(r)
  <2>1. \E step \in {"pvcs", "secrets"} : Goto(r, step)
    BY <1>3 DEF DeletePods, DeletePVCs
  <2>2. req[r].pc \in CleanupSteps
    BY <1>3 DEF DeletePods, DeletePVCs, CleanupSteps
  <2>3. CleansTaken'
    BY <1>2, <2>1, <2>2, GotoEffect, CleansElsewhere DEF RunsOnce
  <2>4. e \in Taken
    BY <2>2 DEF RunsOnce, CleansTaken
  <2>5. terminating' \subseteq Taken'
    BY <1>2, <1>3, <2>4 DEF DeletePods, DeletePVCs, RunsOnce, PodLostTaken
  <2> QED BY <1>1, <1>2, <2>3, <2>5 DEF RunsOnce, PodLostTaken, SingleExecution
<1>4. CASE DeleteSecrets(r) \/ CleanupFails(r)
  <2>1. NextCleanup(r) /\ req[r].pc \in CleanupSteps /\ UNCHANGED terminating
    BY <1>4 DEF DeleteSecrets, CleanupFails, CleanupSteps, k8sVars
  <2>2. req[r].todo \ {e} \in SUBSET Taken'
    BY <1>2, <2>1 DEF RunsOnce, CleansTaken
  <2>3. CleansTaken'
    BY <1>0, <1>2, <2>1, <2>2, CleansStart DEF NextCleanup, RunsOnce
  <2> QED BY <1>1, <1>2, <2>1, <2>3, OnceUntouched
<1>5. CASE Abandon(r)
  <2>1. Goto(r, "dead") /\ UNCHANGED terminating
    BY <1>5 DEF Abandon, k8sVars
  <2>2. CleansTaken'
    BY <1>2, <2>1, GotoEffect, CleansElsewhere DEF RunsOnce, CleanupSteps
  <2> QED BY <1>1, <1>2, <2>1, <2>2, OnceUntouched
<1> QED BY <1>3, <1>4, <1>5

(* The steps that withdraw or mark events and begin a cleanup.             *)
LEMMA OnceWithdraw ==
  ASSUME TypeOK, RunsOnce, NEW r \in Requests,
         \/ CancelPending(r) \/ CancelRunning(r) \/ CancelManyPending(r)
         \/ CancelManyRunning(r) \/ CancelManyFind(r) \/ DeleteDoc(r)
         \/ MarkDeleted(r) \/ FindDeleted(r) \/ Purge(r)
  PROVE  RunsOnce'
<1> DEFINE e == req[r].ev
<1>0. /\ req \in [Requests -> Request] /\ e \in Events
      /\ req[r].todo \subseteq Events /\ {} \in SUBSET Taken'
  BY DEF TypeOK, Request
<1>1. UNCHANGED <<pod, terminating, runs>>
  BY DEF CancelPending, CancelRunning, CancelManyPending, CancelManyRunning,
         CancelManyFind, DeleteDoc, MarkDeleted, FindDeleted, Purge, k8sVars,
         auxVars
<1>2. CanceledTaken /\ CleansTaken
  BY DEF RunsOnce
<1>3. CASE CancelPending(r)
  <2>1. /\ CanceledTaken' /\ Taken \subseteq Taken'
        /\ phase[e] = "PENDING" => {e} \in SUBSET Taken'
    BY <1>0, <1>2, <1>3, UpdatePhaseTaken DEF CancelPending
  <2>2. CASE phase[e] = "PENDING"
    BY <1>0, <1>1, <1>2, <1>3, <2>1, <2>2, CleansStart, OnceUntouched
       DEF CancelPending
  <2>3. CASE phase[e] # "PENDING"
    <3>1. Goto(r, "cancelRunning")
      BY <1>3, <2>3 DEF CancelPending
    <3>2. CleansTaken'
      BY <1>2, <2>1, <3>1, GotoEffect, CleansElsewhere DEF CleanupSteps
    <3> QED BY <1>1, <2>1, <3>2, OnceUntouched
  <2> QED BY <2>2, <2>3
<1>4. CASE CancelRunning(r)
  <2> DEFINE todo == IF phase[e] = "RUNNING" THEN {e} ELSE {}
  <2>1. CanceledTaken' /\ Taken \subseteq Taken' /\ todo \in SUBSET Taken'
    BY <1>0, <1>2, <1>4, UpdatePhaseTaken DEF CancelRunning
  <2>2. StartCleanup(r, todo) /\ todo \subseteq Events
    BY <1>0, <1>4 DEF CancelRunning
  <2> HIDE DEF todo
  <2> QED BY <1>1, <1>2, <2>1, <2>2, CleansStart, OnceUntouched
<1>5. CASE CancelManyPending(r) \/ CancelManyRunning(r)
  <2>1. PICK S \in SUBSET Events, from \in WorkerPhases, to \in WorkerPhases :
          UpdatePhase(r, S, from, to)
    BY <1>5 DEF CancelManyPending, CancelManyRunning, WorkerPhases
  <2>2. CanceledTaken' /\ Taken \subseteq Taken'
    BY <1>2, <1>5, <2>1, UpdatePhaseTaken DEF CancelManyPending, CancelManyRunning
  <2>3. \E step \in {"manyRunning", "manyFind"} : Goto(r, step)
    BY <1>5 DEF CancelManyPending, CancelManyRunning
  <2>4. CleansTaken'
    BY <1>2, <2>2, <2>3, GotoEffect, CleansElsewhere DEF CleanupSteps
  <2> QED BY <1>1, <2>2, <2>4, OnceUntouched
<1>6. CASE CancelManyFind(r)
  <2> DEFINE todo == {d \in Events : phase[d] # Absent /\ canceled[d] = r}
  <2>1. UNCHANGED <<canceled, deleted, withdrawn>> /\ StartCleanup(r, todo)
    BY <1>6 DEF CancelManyFind, docVars, auxVars
  <2>2. Taken' = Taken /\ CanceledTaken'
    BY <1>2, <2>1 DEF Taken, CanceledTaken
  <2>3. todo \in SUBSET Taken'
    BY <1>2, <2>2, NoRequestAssumption DEF CanceledTaken, Taken
  <2> HIDE DEF todo
  <2>4. todo \subseteq Events
    BY DEF todo
  <2> QED BY <1>1, <1>2, <2>1, <2>2, <2>3, <2>4, CleansStart, OnceUntouched
<1>7. CASE DeleteDoc(r)
  <2> DEFINE found == {d \in {e} : phase[d] # Absent}
  <2>1. /\ found \in SUBSET Events /\ RemoveDocs(found)
        /\ withdrawn' = withdrawn \cup found /\ StartCleanup(r, found)
    BY <1>0, <1>7 DEF DeleteDoc, Withdraw
  <2> HIDE DEF found
  <2>2. CanceledTaken' /\ Taken \subseteq Taken' /\ found \in SUBSET Taken'
    BY <1>2, <2>1, RemoveDocsTaken
  <2> QED BY <1>1, <1>2, <2>1, <2>2, CleansStart, OnceUntouched
<1>8. CASE MarkDeleted(r)
  <2>1. /\ \A d \in Events : deleted'[d] \in {deleted[d], r}
        /\ UNCHANGED <<canceled, withdrawn>> /\ Goto(r, "findDeleted")
    BY <1>8 DEF MarkDeleted, auxVars
  <2>2. CanceledTaken' /\ Taken \subseteq Taken'
    BY <1>2, <2>1, NoRequestAssumption DEF Taken, CanceledTaken
  <2>3. CleansTaken'
    BY <1>2, <2>1, <2>2, GotoEffect, CleansElsewhere DEF CleanupSteps
  <2> QED BY <1>1, <2>2, <2>3, OnceUntouched
<1>9. CASE FindDeleted(r)
  <2>1. UNCHANGED <<canceled, deleted, withdrawn>>
    BY <1>9 DEF FindDeleted, docVars, auxVars
  <2>2. Taken' = Taken /\ CanceledTaken'
    BY <1>2, <2>1 DEF Taken, CanceledTaken
  <2>3. Selected(r, r) \subseteq Taken
    BY NoRequestAssumption DEF Selected, Taken
  <2>4. /\ req'[r].pc = "purge" /\ req'[r].todo = Selected(r, r)
        /\ \A q \in Requests \ {r} : req'[q] = req[q]
    BY <1>0, <1>9 DEF FindDeleted, Request
  <2>5. CleansTaken'
    BY <1>2, <2>2, <2>3, <2>4 DEF CleansTaken, CleanupSteps
  <2> QED BY <1>1, <2>2, <2>5, OnceUntouched
<1>10. CASE Purge(r)
  <2> DEFINE gone == Selected(r, r)
  <2>1. /\ gone \in SUBSET Events /\ RemoveDocs(gone)
        /\ withdrawn' = withdrawn \cup gone /\ StartCleanup(r, req[r].todo)
    BY <1>10 DEF Purge, Selected
  <2> HIDE DEF gone
  <2>2. CanceledTaken' /\ Taken \subseteq Taken'
    BY <1>2, <2>1, RemoveDocsTaken
  <2>3. req[r].todo \in SUBSET Taken'
    BY <1>2, <1>10, <2>2 DEF Purge, CleansTaken
  <2> QED BY <1>0, <1>1, <1>2, <2>1, <2>2, <2>3, CleansStart, OnceUntouched
<1> QED BY <1>3, <1>4, <1>5, <1>6, <1>7, <1>8, <1>9, <1>10

LEMMA OnceCluster ==
  ASSUME TypeOK, RunsOnce, NEW e \in Events, PodStep(e) \/ Observe(e)
  PROVE  RunsOnce'
<1>1. UNCHANGED <<canceled, deleted, withdrawn, req, runs>>
  BY DEF PodStep, PodRuns, PodEnds, PodLost, PodGone, PodBecomes, Observe,
         docVars, auxVars
<1>2. Taken' = Taken /\ CanceledTaken'
  BY <1>1 DEF Taken, RunsOnce, CanceledTaken
<1>3. CleansTaken' /\ SingleExecution'
  BY <1>1, <1>2 DEF RunsOnce, CleansTaken, SingleExecution
<1>4. CASE PodGone(e)
  BY <1>1, <1>2, <1>3, <1>4 DEF PodGone, RunsOnce, PodLostTaken, TypeOK
<1>5. ASSUME NEW p \in PodPhases, PodBecomes(e, p) PROVE PodLostTaken'
  BY <1>1, <1>2, <1>5 DEF PodBecomes, RunsOnce, PodLostTaken, TypeOK, PodPhases, NoPod
<1>6. CASE PodRuns(e) \/ PodEnds(e) \/ PodLost(e)
  BY <1>2, <1>3, <1>5, <1>6 DEF PodRuns, PodEnds, PodLost, PodPhases, RunsOnce
<1>7. CASE Observe(e)
  BY <1>2, <1>3, <1>7, OnceUntouched DEF Observe, k8sVars, auxVars
<1> QED BY <1>4, <1>6, <1>7 DEF PodStep

(* However often an event is delivered and Start called for it, it gets a  *)
(* second pod only after it was withdrawn or marked.                       *)
THEOREM EventsRunOnce == Spec => []SingleExecution
<1> DEFINE IInv == TypeOK /\ RunsOnce
<1>1. Init => IInv
  <2> SUFFICES ASSUME Init PROVE RunsOnce
    BY InitTypeOK
  <2>1. \A r \in Requests : req[r].pc = "idle"
    BY DEF Init
  <2>2. /\ terminating = {} /\ \A e \in Events : runs[e] = 0
        /\ \A e \in Events : canceled[e] = NoRequest
    BY DEF Init
  <2> QED BY <2>1, <2>2 DEF RunsOnce, CanceledTaken, CleansTaken, PodLostTaken,
                            SingleExecution, CleanupSteps
<1>2. IInv /\ [Next]_vars => IInv'
  <2> SUFFICES ASSUME TypeOK, RunsOnce, [Next]_vars PROVE RunsOnce'
    BY NextTypeOK
  <2>1. ASSUME UNCHANGED <<canceled, deleted, withdrawn, req, pod, terminating, runs>>
        PROVE  RunsOnce'
    BY <2>1 DEF RunsOnce, CanceledTaken, CleansTaken, PodLostTaken,
                SingleExecution, Taken
  <2>2. ASSUME NEW e \in Events,
               CreateEvent(e) \/ CreateStep(e) \/ CreateFails(e)
        PROVE  RunsOnce'
    BY <2>1, <2>2 DEF CreateEvent, CreateStep, CreateEventSecret, PublishWorker,
                      CreateFails, docVars, k8sVars, auxVars
  <2>3. ASSUME NEW r \in Requests, HandlerStep(r) PROVE RunsOnce'
    BY <2>3, OnceStart, OnceCleanup, OnceWithdraw DEF HandlerStep
  <2>4. ASSUME NEW r \in Requests, CleanupFails(r) \/ Abandon(r) PROVE RunsOnce'
    BY <2>4, OnceCleanup
  <2>5. ASSUME NEW e \in Events, NEW p \in ObservedPhases,
               UpdateStatus(e, p) \/ LoseReport(e, p)
        PROVE  RunsOnce'
    BY <2>1, <2>5 DEF UpdateStatus, LoseReport, docVars, k8sVars, auxVars
  <2>6. CASE UNCHANGED vars
    BY <2>1, <2>6 DEF vars, docVars, k8sVars, auxVars
  <2> QED BY <2>2, <2>3, <2>4, <2>5, <2>6, OnceCall, OnceCluster DEF Next
<1>3. IInv => SingleExecution
  BY DEF RunsOnce
<1> QED BY <1>1, <1>2, <1>3, PTL DEF Spec
=============================================================================
