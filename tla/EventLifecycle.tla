--------------------------- MODULE EventLifecycle ---------------------------
(***************************************************************************)
(* The life of an Event and of its Worker, as the API server's events and  *)
(* workers services drive it against two stores that share no transaction: *)
(* MongoDB, which holds the recorded worker phase, and Kubernetes, which   *)
(* holds the worker's pod, workspace PVC and secret.                       *)
(*                                                                         *)
(* Every API request is a sequence of store and Kubernetes calls; each     *)
(* call is one atomic action here and requests interleave between them.    *)
(* The scheduler appears as the caller of Start, the observer as a source  *)
(* of status reports that were true when they were sent and that arrive    *)
(* at any later time or never (its UpdateStatus call gives up after 5 s,   *)
(* while the API server may still carry the update out).                   *)
(*                                                                         *)
(*   phase       recorded worker phase per event, Absent without document  *)
(*   canceled    the request whose cancellation time the document carries  *)
(*   deleted     the request whose logical-deletion time it carries        *)
(*   pod         phase of the pod worker-<event>, NoPod without one        *)
(*   terminating events whose pod has a deletion timestamp                 *)
(*   secrets     events whose secret event-<event> exists                  *)
(*   pvcs        events whose claim workspace-<event> exists               *)
(*   published   events whose ID was written to the workers queue          *)
(*   create      where the Create call for the event is                    *)
(*   req         where each other API request is                           *)
(*   reports     status updates the observer sent, not applied yet         *)
(*                                                                         *)
(* Auxiliary, read by no action except to update themselves:               *)
(*   occurred    what an event's worker really did, in worker phases       *)
(*   runs        worker pods ever created for an event                     *)
(*   withdrawn   events a cancellation or deletion was committed for       *)
(*   raced       withdrawn events a Start or Create was past its check of, *)
(*               or that were purged without having been found for cleanup *)
(*   dropped     events whose cleanup was cut short by an error or a crash *)
(***************************************************************************)
EXTENDS Naturals

CONSTANTS
  Events,      \* event IDs: a fresh UUID per Create, so one Create each
  Requests,    \* API requests other than Create, each made once
  Workspace,   \* events whose worker spec has UseWorkspace
  Selectors,   \* worker-phase selectors that bulk requests carry
  NoRequest    \* no request's time stamp

ASSUME WorkspaceAssumption == Workspace \subseteq Events
ASSUME NoRequestAssumption == NoRequest \notin Requests

VARIABLES phase, canceled, deleted, pod, terminating, secrets, pvcs, published,
          create, req, reports, occurred, runs, withdrawn, raced, dropped

docVars == <<phase, canceled, deleted>>
k8sVars == <<pod, terminating, secrets, pvcs>>
auxVars == <<occurred, runs, withdrawn, raced, dropped>>
vars == <<docVars, k8sVars, published, create, req, reports, auxVars>>

-----------------------------------------------------------------------------
(* Phases.                                                                 *)

WorkerPhases == {"PENDING", "RUNNING", "SUCCEEDED", "FAILED", "CANCELED",
                 "ABORTED", "TIMED_OUT", "UNKNOWN"}
Absent == "ABSENT"

PodPhases == {"Pending", "Running", "Succeeded", "Failed", "Unknown"}
NoPod == "NoPod"

(* Seeded fault: a pending pod is read as a pending worker.                *)
WorkerPhaseOf_Mutant(p) ==
  CASE p = "Pending"   -> "PENDING"
    [] p = "Running"   -> "RUNNING"
    [] p = "Succeeded" -> "SUCCEEDED"
    [] p = "Failed"    -> "FAILED"
    [] OTHER           -> "UNKNOWN"

(* The observer reads a pod's phase as a worker phase.                     *)
WorkerPhaseOf(p) ==
  CASE p \in {"Pending", "Running"} -> "RUNNING"
    [] p = "Succeeded"              -> "SUCCEEDED"
    [] p = "Failed"                 -> "FAILED"
    [] OTHER                        -> "UNKNOWN"

ObservedPhases == {"RUNNING", "SUCCEEDED", "FAILED", "UNKNOWN"}

ASSUME SelectorsAssumption == Selectors \subseteq SUBSET WorkerPhases

-----------------------------------------------------------------------------
(* Requests.  ev is the event a step works on, todo the events whose       *)
(* Kubernetes objects the request has yet to delete (ev among them).       *)

CleanupSteps == {"pods", "pvcs", "secrets"}
Steps == {"idle", "startPVC", "startPod", "cancelPending", "cancelRunning",
          "deleteDoc", "manyPending", "manyRunning", "manyFind",
          "markDeleted", "findDeleted", "purge", "done", "dead"}
         \cup CleanupSteps
Finished == {"idle", "done", "dead"}

Request == [pc : Steps, ev : Events, sel : SUBSET WorkerPhases,
            todo : SUBSET Events]

Goto(r, step) == req' = [req EXCEPT ![r].pc = step]

(* The request begins its DeleteWorkerAndJobs calls, one event at a time.  *)
StartCleanup(r, todo) ==
  IF todo = {}
  THEN req' = [req EXCEPT ![r].pc = "done", ![r].todo = {}]
  ELSE \E e \in todo :
         req' = [req EXCEPT ![r].pc = "pods", ![r].ev = e, ![r].todo = todo]

(* It is done with the current event and turns to the next one, if any.    *)
NextCleanup(r) == StartCleanup(r, req[r].todo \ {req[r].ev})

(* What keeps request r from having no further business with e.            *)
StartInFlight(r, e) == req[r].pc \in {"startPVC", "startPod"} /\ req[r].ev = e
CreateInFlight(e) == create[e] \in {"secret", "publish"}

Before(step, s) ==
  \/ step = "pods"
  \/ step = "pvcs" /\ s \in {"pvcs", "secrets"}
  \/ step = "secrets" /\ s = "secrets"

(* Request r will still carry out cleanup step s for event e.              *)
CleanupPending(r, e, s) ==
  \/ req[r].pc \in {"manyRunning", "manyFind"} /\ canceled[e] = r
  \/ req[r].pc \in CleanupSteps /\ e \in req[r].todo
       /\ (req[r].ev = e => Before(req[r].pc, s))

(* A cancellation or deletion of the events in S commits.                  *)
Withdraw(S) ==
  /\ withdrawn' = withdrawn \cup S
  /\ raced' = raced \cup {e \in S : CreateInFlight(e)
                                    \/ \E r \in Requests : StartInFlight(r, e)}

-----------------------------------------------------------------------------
Init ==
  /\ phase = [e \in Events |-> Absent]
  /\ canceled = [e \in Events |-> NoRequest]
  /\ deleted = [e \in Events |-> NoRequest]
  /\ pod = [e \in Events |-> NoPod]
  /\ terminating = {} /\ secrets = {} /\ pvcs = {} /\ published = {}
  /\ create = [e \in Events |-> "none"]
  /\ \E e \in Events :
       req = [r \in Requests |->
                [pc |-> "idle", ev |-> e, sel |-> {}, todo |-> {}]]
  /\ reports = {}
  /\ occurred = {} /\ runs = [e \in Events |-> 0]
  /\ withdrawn = {} /\ raced = {} /\ dropped = {}

-----------------------------------------------------------------------------
(* events.Create: store the event, create its secret, publish its ID.      *)
(* Any of the last two may fail; the stored event then stays as it is.     *)

CreateEvent(e) ==
  /\ create[e] = "none"
  /\ create' = [create EXCEPT ![e] = "secret"]
  /\ phase' = [phase EXCEPT ![e] = "PENDING"]
  /\ UNCHANGED <<canceled, deleted, k8sVars, published, req, reports, auxVars>>

CreateEventSecret(e) ==
  /\ create[e] = "secret"
  /\ create' = [create EXCEPT ![e] = "publish"]
  /\ secrets' = secrets \cup {e}
  /\ UNCHANGED <<docVars, pod, terminating, pvcs, published, req, reports,
                 auxVars>>

PublishWorker(e) ==
  /\ create[e] = "publish"
  /\ create' = [create EXCEPT ![e] = "done"]
  /\ published' = published \cup {e}
  /\ UNCHANGED <<docVars, k8sVars, req, reports, auxVars>>

CreateFails(e) ==
  /\ CreateInFlight(e)
  /\ create' = [create EXCEPT ![e] = "failed"]
  /\ UNCHANGED <<docVars, k8sVars, published, req, reports, auxVars>>

-----------------------------------------------------------------------------
(* workers.Start: the phase is checked once, then the substrate is called. *)

(* Seeded fault: Start records the worker as running before it has a pod.  *)
Start_RecordsEarly(r, e) ==
  /\ req[r].pc = "idle"
  /\ e \in published
  /\ phase[e] = "PENDING"
  /\ phase' = [phase EXCEPT ![e] = "RUNNING"]
  /\ req' = [req EXCEPT ![r].pc = "startPod", ![r].ev = e]
  /\ UNCHANGED <<canceled, deleted, k8sVars, published, create, reports,
                 auxVars>>

(* Seeded fault: Start only checks that the event exists.                  *)
Start_NoPhaseCheck(r, e) ==
  /\ req[r].pc = "idle"
  /\ e \in published
  /\ phase[e] # Absent
  /\ req' = [req EXCEPT ![r].pc = "startPod", ![r].ev = e]
  /\ UNCHANGED <<docVars, k8sVars, published, create, reports, auxVars>>

Start(r, e) ==
  /\ req[r].pc = "idle"
  /\ e \in published
  /\ phase[e] = "PENDING"
  /\ req' = [req EXCEPT ![r].pc = IF e \in Workspace THEN "startPVC"
                                                      ELSE "startPod",
                        ![r].ev = e]
  /\ UNCHANGED <<docVars, k8sVars, published, create, reports, auxVars>>

(* An existing claim or pod makes the call fail and the request end.       *)
CreateWorkspacePVC(r) ==
  LET e == req[r].ev IN
  /\ req[r].pc = "startPVC"
  /\ Goto(r, IF e \in pvcs THEN "done" ELSE "startPod")
  /\ pvcs' = pvcs \cup {e}
  /\ UNCHANGED <<docVars, pod, terminating, secrets, published, create,
                 reports, auxVars>>

(* Seeded fault: a finished pod of the same name is replaced.              *)
CreateWorkerPod_Replaces(r) ==
  LET e == req[r].ev IN
  /\ req[r].pc = "startPod"
  /\ Goto(r, "done")
  /\ IF pod[e] \in {NoPod, "Succeeded", "Failed"}
     THEN /\ pod' = [pod EXCEPT ![e] = "Pending"]
          /\ occurred' = occurred \cup {<<e, WorkerPhaseOf("Pending")>>}
          /\ runs' = [runs EXCEPT ![e] = @ + 1]
     ELSE UNCHANGED <<pod, occurred, runs>>
  /\ UNCHANGED <<docVars, terminating, secrets, pvcs, published, create,
                 reports, withdrawn, raced, dropped>>

CreateWorkerPod(r) ==
  LET e == req[r].ev IN
  /\ req[r].pc = "startPod"
  /\ Goto(r, "done")
  /\ IF pod[e] = NoPod
     THEN /\ pod' = [pod EXCEPT ![e] = "Pending"]
          /\ occurred' = occurred \cup {<<e, WorkerPhaseOf("Pending")>>}
          /\ runs' = [runs EXCEPT ![e] = @ + 1]
     ELSE UNCHANGED <<pod, occurred, runs>>
  /\ UNCHANGED <<docVars, terminating, secrets, pvcs, published, create,
                 reports, withdrawn, raced, dropped>>

-----------------------------------------------------------------------------
(* events.Cancel: two guarded updates in turn, then the cleanup.           *)

Cancel(r, e) ==
  /\ req[r].pc = "idle"
  /\ phase[e] # Absent
  /\ req' = [req EXCEPT ![r].pc = "cancelPending", ![r].ev = e]
  /\ UNCHANGED <<docVars, k8sVars, published, create, reports, auxVars>>

(* Seeded fault: the update trusts the phase the request read before it.   *)
UpdatePhase_Unguarded(r, S, from, to) ==
  LET matched == {e \in S : phase[e] # Absent} IN
  /\ phase' = [e \in Events |-> IF e \in matched THEN to ELSE phase[e]]
  /\ canceled' = [e \in Events |-> IF e \in matched THEN r ELSE canceled[e]]
  /\ Withdraw(matched)

(* UpdateOne or UpdateMany: documents of S that are in phase from move to  *)
(* phase to and carry the request's cancellation time.                     *)
UpdatePhase(r, S, from, to) ==
  LET matched == {e \in S : phase[e] = from} IN
  /\ phase' = [e \in Events |-> IF e \in matched THEN to ELSE phase[e]]
  /\ canceled' = [e \in Events |-> IF e \in matched THEN r ELSE canceled[e]]
  /\ Withdraw(matched)

CancelPending(r) ==
  LET e == req[r].ev IN
  /\ req[r].pc = "cancelPending"
  /\ UpdatePhase(r, {e}, "PENDING", "CANCELED")
  /\ IF phase[e] = "PENDING" THEN StartCleanup(r, {e})
                             ELSE Goto(r, "cancelRunning")
  /\ UNCHANGED <<deleted, k8sVars, published, create, reports, occurred, runs,
                 dropped>>

CancelRunning(r) ==
  LET e == req[r].ev IN
  /\ req[r].pc = "cancelRunning"
  /\ UpdatePhase(r, {e}, "RUNNING", "ABORTED")
  /\ StartCleanup(r, IF phase[e] = "RUNNING" THEN {e} ELSE {})
  /\ UNCHANGED <<deleted, k8sVars, published, create, reports, occurred, runs,
                 dropped>>

-----------------------------------------------------------------------------
(* events.CancelMany: cancel by phase, then find by cancellation time.     *)

CancelMany(r, sel) ==
  /\ req[r].pc = "idle"
  /\ sel # {}
  /\ req' = [req EXCEPT ![r].pc = IF sel \cap {"PENDING", "RUNNING"} = {}
                                  THEN "done" ELSE "manyPending",
                        ![r].sel = sel]
  /\ UNCHANGED <<docVars, k8sVars, published, create, reports, auxVars>>

CancelManyPending(r) ==
  /\ req[r].pc = "manyPending"
  /\ UpdatePhase(r, IF "PENDING" \in req[r].sel THEN Events ELSE {},
                 "PENDING", "CANCELED")
  /\ Goto(r, "manyRunning")
  /\ UNCHANGED <<deleted, k8sVars, published, create, reports, occurred, runs,
                 dropped>>

CancelManyRunning(r) ==
  /\ req[r].pc = "manyRunning"
  /\ UpdatePhase(r, IF "RUNNING" \in req[r].sel THEN Events ELSE {},
                 "RUNNING", "ABORTED")
  /\ Goto(r, "manyFind")
  /\ UNCHANGED <<deleted, k8sVars, published, create, reports, occurred, runs,
                 dropped>>

(* Seeded fault: only the events that were pending are found.              *)
CancelManyFind_PendingOnly(r) ==
  /\ req[r].pc = "manyFind"
  /\ StartCleanup(r, {e \in Events : phase[e] = "CANCELED" /\ canceled[e] = r})
  /\ UNCHANGED <<docVars, k8sVars, published, create, reports, auxVars>>

CancelManyFind(r) ==
  /\ req[r].pc = "manyFind"
  /\ StartCleanup(r, {e \in Events : phase[e] # Absent /\ canceled[e] = r})
  /\ UNCHANGED <<docVars, k8sVars, published, create, reports, auxVars>>

-----------------------------------------------------------------------------
(* events.Delete and events.DeleteMany.                                    *)

(* The documents of the events in S are removed.                           *)
RemoveDocs(S) ==
  /\ phase' = [e \in Events |-> IF e \in S THEN Absent ELSE phase[e]]
  /\ canceled' = [e \in Events |-> IF e \in S THEN NoRequest ELSE canceled[e]]
  /\ deleted' = [e \in Events |-> IF e \in S THEN NoRequest ELSE deleted[e]]

Delete(r, e) ==
  /\ req[r].pc = "idle"
  /\ phase[e] # Absent
  /\ req' = [req EXCEPT ![r].pc = "deleteDoc", ![r].ev = e]
  /\ UNCHANGED <<docVars, k8sVars, published, create, reports, auxVars>>

DeleteDoc(r) ==
  LET found == {e \in {req[r].ev} : phase[e] # Absent} IN
  /\ req[r].pc = "deleteDoc"
  /\ RemoveDocs(found)
  /\ Withdraw(found)
  /\ StartCleanup(r, found)
  /\ UNCHANGED <<k8sVars, published, create, reports, occurred, runs, dropped>>

DeleteMany(r, sel) ==
  /\ req[r].pc = "idle"
  /\ sel # {}
  /\ req' = [req EXCEPT ![r].pc = "markDeleted", ![r].sel = sel]
  /\ UNCHANGED <<docVars, k8sVars, published, create, reports, auxVars>>

(* The criteria of all three steps: phase selected, and the given mark.    *)
Selected(r, mark) ==
  {e \in Events : phase[e] \in req[r].sel /\ deleted[e] = mark}

MarkDeleted(r) ==
  /\ req[r].pc = "markDeleted"
  /\ deleted' = [e \in Events |-> IF e \in Selected(r, NoRequest) THEN r
                                                          ELSE deleted[e]]
  /\ Goto(r, "findDeleted")
  /\ UNCHANGED <<phase, canceled, k8sVars, published, create, reports, auxVars>>

FindDeleted(r) ==
  /\ req[r].pc = "findDeleted"
  /\ req' = [req EXCEPT ![r].pc = "purge", ![r].todo = Selected(r, r)]
  /\ UNCHANGED <<docVars, k8sVars, published, create, reports, auxVars>>

Purge(r) ==
  LET gone == Selected(r, r) IN
  /\ req[r].pc = "purge"
  /\ RemoveDocs(gone)
  /\ withdrawn' = withdrawn \cup gone
  /\ raced' = raced \cup (gone \ req[r].todo)
              \cup {e \in gone : CreateInFlight(e)
                                 \/ \E q \in Requests : StartInFlight(q, e)}
  /\ StartCleanup(r, req[r].todo)
  /\ UNCHANGED <<k8sVars, published, create, reports, occurred, runs, dropped>>

-----------------------------------------------------------------------------
(* substrate.DeleteWorkerAndJobs: pods, then claims, then secrets.         *)

DeletePods(r) ==
  LET e == req[r].ev IN
  /\ req[r].pc = "pods"
  /\ terminating' = IF pod[e] = NoPod THEN terminating ELSE terminating \cup {e}
  /\ Goto(r, "pvcs")
  /\ UNCHANGED <<docVars, pod, secrets, pvcs, published, create, reports,
                 auxVars>>

(* Seeded fault: the cleanup ends with the claims.                         *)
DeletePVCs_Last(r) ==
  /\ req[r].pc = "pvcs"
  /\ pvcs' = pvcs \ {req[r].ev}
  /\ NextCleanup(r)
  /\ UNCHANGED <<docVars, pod, terminating, secrets, published, create,
                 reports, auxVars>>

DeletePVCs(r) ==
  /\ req[r].pc = "pvcs"
  /\ pvcs' = pvcs \ {req[r].ev}
  /\ Goto(r, "secrets")
  /\ UNCHANGED <<docVars, pod, terminating, secrets, published, create,
                 reports, auxVars>>

DeleteSecrets(r) ==
  /\ req[r].pc = "secrets"
  /\ secrets' = secrets \ {req[r].ev}
  /\ NextCleanup(r)
  /\ UNCHANGED <<docVars, pod, terminating, pvcs, published, create, reports,
                 auxVars>>

(* A cleanup call fails: the event's remaining calls are not made.  A      *)
(* single request returns the error, a bulk one logs it and goes on.       *)
CleanupFails(r) ==
  /\ req[r].pc \in CleanupSteps
  /\ dropped' = dropped \cup {req[r].ev}
  /\ NextCleanup(r)
  /\ UNCHANGED <<docVars, k8sVars, published, create, reports, occurred, runs,
                 withdrawn, raced>>

(* Any call of a request fails, its client goes away, or the API server    *)
(* process dies: the rest of the request never happens.                    *)
Abandon(r) ==
  /\ req[r].pc \notin Finished
  /\ Goto(r, "dead")
  /\ dropped' = dropped \cup {e \in Events : \E s \in CleanupSteps :
                                               CleanupPending(r, e, s)}
  /\ UNCHANGED <<docVars, k8sVars, published, create, reports, occurred, runs,
                 withdrawn, raced>>

-----------------------------------------------------------------------------
(* Kubernetes: the pod mounts the event secret and the workspace, so it    *)
(* runs only while both exist; once deleted it terminates and disappears.  *)

PodBecomes(e, p) ==
  /\ pod' = [pod EXCEPT ![e] = p]
  /\ occurred' = occurred \cup {<<e, WorkerPhaseOf(p)>>}
  /\ UNCHANGED <<docVars, terminating, secrets, pvcs, published, create, req,
                 reports, runs, withdrawn, raced, dropped>>

PodRuns(e) ==
  /\ \/ pod[e] = "Pending" /\ e \in secrets /\ e \notin terminating
          /\ (e \in Workspace => e \in pvcs)
     \/ pod[e] = "Unknown"
  /\ PodBecomes(e, "Running")

PodEnds(e) ==
  /\ pod[e] \in {"Running", "Unknown"}
  /\ PodBecomes(e, "Succeeded") \/ PodBecomes(e, "Failed")

PodLost(e) ==
  /\ pod[e] = "Running"
  /\ PodBecomes(e, "Unknown")

PodGone(e) ==
  /\ e \in terminating
  /\ pod' = [pod EXCEPT ![e] = NoPod]
  /\ terminating' = terminating \ {e}
  /\ UNCHANGED <<docVars, secrets, pvcs, published, create, req, reports,
                 auxVars>>

-----------------------------------------------------------------------------
(* The observer sends what it sees; workers.UpdateStatus writes what it    *)
(* is told, whatever is recorded, unless the event has no document.        *)

Observe(e) ==
  /\ pod[e] # NoPod
  /\ e \notin terminating
  /\ reports' = reports \cup {<<e, WorkerPhaseOf(pod[e])>>}
  /\ UNCHANGED <<docVars, k8sVars, published, create, req, auxVars>>

UpdateStatus(e, p) ==
  /\ <<e, p>> \in reports
  /\ reports' = reports \ {<<e, p>>}
  /\ phase' = IF phase[e] = Absent THEN phase ELSE [phase EXCEPT ![e] = p]
  /\ UNCHANGED <<canceled, deleted, k8sVars, published, create, req, auxVars>>

LoseReport(e, p) ==
  /\ <<e, p>> \in reports
  /\ reports' = reports \ {<<e, p>>}
  /\ UNCHANGED <<docVars, k8sVars, published, create, req, auxVars>>

-----------------------------------------------------------------------------
CreateStep(e) == CreateEventSecret(e) \/ PublishWorker(e)

HandlerStep(r) ==
  \/ CreateWorkspacePVC(r) \/ CreateWorkerPod(r)
  \/ CancelPending(r) \/ CancelRunning(r)
  \/ CancelManyPending(r) \/ CancelManyRunning(r) \/ CancelManyFind(r)
  \/ DeleteDoc(r) \/ MarkDeleted(r) \/ FindDeleted(r) \/ Purge(r)
  \/ DeletePods(r) \/ DeletePVCs(r) \/ DeleteSecrets(r)

Call(r) ==
  \/ \E e \in Events : Start(r, e) \/ Cancel(r, e) \/ Delete(r, e)
  \/ \E sel \in Selectors : CancelMany(r, sel) \/ DeleteMany(r, sel)

PodStep(e) == PodRuns(e) \/ PodEnds(e) \/ PodLost(e) \/ PodGone(e)

Next ==
  \/ \E e \in Events : CreateEvent(e) \/ CreateStep(e) \/ CreateFails(e)
  \/ \E r \in Requests : Call(r) \/ HandlerStep(r)
                         \/ CleanupFails(r) \/ Abandon(r)
  \/ \E e \in Events : PodStep(e) \/ Observe(e)
  \/ \E e \in Events, p \in ObservedPhases :
       UpdateStatus(e, p) \/ LoseReport(e, p)

Spec == Init /\ [][Next]_vars

(* A handler runs until its calls are made or one fails; a terminating pod *)
(* is removed.  Clients, faults and the observer owe nothing.              *)
Fairness ==
  /\ \A r \in Requests : WF_vars(HandlerStep(r))
  /\ \A e \in Events : WF_vars(PodGone(e))

FairSpec == Spec /\ Fairness

-----------------------------------------------------------------------------
TypeOK ==
  /\ phase \in [Events -> WorkerPhases \cup {Absent}]
  /\ canceled \in [Events -> Requests \cup {NoRequest}]
  /\ deleted \in [Events -> Requests \cup {NoRequest}]
  /\ pod \in [Events -> PodPhases \cup {NoPod}]
  /\ terminating \subseteq Events
  /\ secrets \subseteq Events
  /\ pvcs \subseteq Events
  /\ published \subseteq Events
  /\ create \in [Events -> {"none", "secret", "publish", "done", "failed"}]
  /\ req \in [Requests -> Request]
  /\ reports \subseteq Events \X ObservedPhases
  /\ occurred \subseteq Events \X ObservedPhases
  /\ runs \in [Events -> Nat]
  /\ withdrawn \subseteq Events
  /\ raced \subseteq Events
  /\ dropped \subseteq Events

(* The recorded phase never says anything of the worker that was not true  *)
(* of one of its pods at some time: no report, however late or reordered,  *)
(* and no request records a run or an outcome that did not happen, and     *)
(* only a worker that did start is ever recorded as ABORTED.               *)
RecordIsTruthful ==
  \A e \in Events :
    /\ phase[e] \in ObservedPhases => <<e, phase[e]>> \in occurred
    /\ phase[e] = "ABORTED" => <<e, "RUNNING">> \in occurred

(* Once an event is canceled or deleted, nothing of it stays behind in     *)
(* Kubernetes: a pod that is not terminating, a claim or a secret is one   *)
(* that some request has yet to delete.  The exceptions are exactly the    *)
(* events whose cleanup was cut short, and those a Start or a Create was   *)
(* already past its check of when the cancellation or deletion committed.  *)
Clean(e) ==
  /\ pod[e] # NoPod /\ e \notin terminating =>
       \E r \in Requests : CleanupPending(r, e, "pods")
  /\ e \in pvcs => \E r \in Requests : CleanupPending(r, e, "pvcs")
  /\ e \in secrets => \E r \in Requests : CleanupPending(r, e, "secrets")

ResidueExplained ==
  \A e \in withdrawn \ (raced \cup dropped) : Clean(e)

(* However often the scheduler delivers an event, its worker gets a second *)
(* pod only if the event was withdrawn, or marked by a bulk deletion, in   *)
(* between: neither overlapping Starts nor late reports run it twice.      *)
SingleExecution ==
  \A e \in Events :
    runs[e] > 1 => e \in withdrawn \/ deleted[e] # NoRequest

(* Cancellation spares outcomes: whatever happens between a request's      *)
(* reads and its updates, a recorded phase turns into CANCELED only from   *)
(* PENDING and into ABORTED only from RUNNING, never from a result.        *)
CancelSparesOutcome ==
  [][\A e \in Events :
       /\ phase'[e] = "CANCELED" => phase[e] \in {"PENDING", "CANCELED"}
       /\ phase'[e] = "ABORTED" => phase[e] \in {"RUNNING", "ABORTED"}]_vars

(* A withdrawn event's worker is eventually stopped and its Kubernetes     *)
(* objects removed, with the same exceptions.                              *)
WithdrawalCleansUp ==
  \A e \in Events :
    e \in withdrawn ~> \/ pod[e] = NoPod /\ e \notin pvcs \cup secrets
                       \/ e \in raced \cup dropped

(* What the DeleteMany comment promises: the selected events are deleted   *)
(* unconditionally.  No document a completed DeleteMany has marked is left.*)
DeleteManyDeletes ==
  \A r \in Requests, e \in Events :
    deleted[e] = r => req[r].pc \notin CleanupSteps \cup {"done"}
=============================================================================
