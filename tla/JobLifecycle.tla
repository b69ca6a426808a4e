---------------------------- MODULE JobLifecycle ----------------------------
(***************************************************************************)
(* The jobs of one event: how the API server's jobs service creates,       *)
(* starts and records them, in the event's document and in Kubernetes,     *)
(* while the event may be canceled or deleted.                             *)
(*                                                                         *)
(* As in EventLifecycle each store or Kubernetes call is one action and    *)
(* requests interleave.  The jobs of an event are independent of those of  *)
(* any other, but two names of one event may stand for the same Kubernetes *)
(* object, which is named after the name in lower case.                    *)
(*                                                                         *)
(*   event     the document: "active", "canceled" or "deleted"             *)
(*   job       per name, the recorded job or NoJob                         *)
(*   queue     names written to the jobs queue; deliveries repeat          *)
(*   creator   where each Create call is;   starter: each Start call       *)
(*   cleanup   where DeleteWorkerAndJobs is                                *)
(*   secret    per object name, the Start call that made the secret        *)
(*   pod       per object name, the pod: its job name, its spec, the Start *)
(*             call that made it and the state of its primary container    *)
(*   terminating  object names of pods with a deletion timestamp           *)
(*   reports   status updates of the observer that are not applied yet     *)
(*                                                                         *)
(* Auxiliary: occurred, what pods of a job really did; raced, names two    *)
(* Create calls were past the check for at once.                           *)
(***************************************************************************)
EXTENDS Naturals

CONSTANTS
  Names,       \* job names
  LowerCase,   \* the object name of each job name
  Creates,     \* Create calls; each carries a specification of its own
  Starts,      \* Start calls, made by the scheduler
  None         \* no Create or Start call

Objects == {LowerCase[n] : n \in Names}

ASSUME LowerCaseAssumption == DOMAIN LowerCase = Names
ASSUME NoneAssumption == None \notin Creates \cup Starts

VARIABLES event, job, queue, creator, starter, cleanup, secret, pod,
          terminating, reports, occurred, raced

k8sVars == <<secret, pod, terminating>>
auxVars == <<occurred, raced>>
vars == <<event, job, queue, creator, starter, cleanup, k8sVars, reports,
          auxVars>>

-----------------------------------------------------------------------------
(* Of JobPhases, the code only ever assigns these; a job's pod counts as   *)
(* RUNNING from its creation until its primary container terminates.       *)
ObservedPhases == {"RUNNING", "SUCCEEDED", "FAILED"}
Ended == {"SUCCEEDED", "FAILED"}

Jobs == [spec : Creates, phase : {"PENDING"} \cup ObservedPhases]
NoJob == [spec |-> None, phase |-> "NONE"]

Pods == [name : Names, spec : Creates, by : Starts, phase : ObservedPhases]
NoPod == [name |-> None, spec |-> None, by |-> None, phase |-> "NONE"]

Exists(n) == job[n] # NoJob

Object(s) == LowerCase[starter[s].name]

-----------------------------------------------------------------------------
Init ==
  /\ event = "active"
  /\ job = [n \in Names |-> NoJob]
  /\ queue = {}
  /\ \E n \in Names :
       /\ creator = [c \in Creates |-> [pc |-> "idle", name |-> n]]
       /\ starter = [s \in Starts |-> [pc |-> "idle", name |-> n, spec |-> None]]
  /\ cleanup = "none"
  /\ secret = [k \in Objects |-> None]
  /\ pod = [k \in Objects |-> NoPod] /\ terminating = {}
  /\ reports = {} /\ occurred = {} /\ raced = {}

-----------------------------------------------------------------------------
(* jobs.Create.  The worker's phase plays no part in it.                   *)

(* Seeded fault: whether the event has a job of the name is not checked.   *)
CreateJob_NoCheck(c, n) ==
  /\ creator[c].pc = "idle" /\ event # "deleted"
  /\ creator' = [creator EXCEPT ![c] = [pc |-> "store", name |-> n]]
  /\ UNCHANGED <<event, job, queue, starter, cleanup, k8sVars, reports,
                 auxVars>>

CreateJob(c, n) ==
  /\ creator[c].pc = "idle" /\ event # "deleted"
  /\ ~Exists(n)
  /\ creator' = [creator EXCEPT ![c] = [pc |-> "store", name |-> n]]
  /\ UNCHANGED <<event, job, queue, starter, cleanup, k8sVars, reports,
                 auxVars>>

(* The job is set, whatever the document holds under its name by now.      *)
StoreJob(c) ==
  LET n == creator[c].name IN
  /\ creator[c].pc = "store" /\ event # "deleted"
  /\ creator' = [creator EXCEPT ![c].pc = "publish"]
  /\ job' = [job EXCEPT ![n] = [spec |-> c, phase |-> "PENDING"]]
  /\ raced' = raced \cup {m \in {n} : \E d \in Creates \ {c} :
                             creator[d] = [pc |-> "store", name |-> m]}
  /\ UNCHANGED <<event, queue, starter, cleanup, k8sVars, reports, occurred>>

PublishJob(c) ==
  /\ creator[c].pc = "publish"
  /\ creator' = [creator EXCEPT ![c].pc = "accepted"]
  /\ queue' = queue \cup {creator[c].name}
  /\ UNCHANGED <<event, job, starter, cleanup, k8sVars, reports, auxVars>>

(* A call fails; what was done before it stays.                            *)
CreateFails(c) ==
  /\ creator[c].pc \in {"store", "publish"}
  /\ creator' = [creator EXCEPT ![c].pc = "failed"]
  /\ UNCHANGED <<event, job, queue, starter, cleanup, k8sVars, reports,
                 auxVars>>

-----------------------------------------------------------------------------
(* jobs.Start and substrate.StartJob.                                      *)

Start(s, n) ==
  /\ starter[s].pc = "idle" /\ n \in queue
  /\ event # "deleted" /\ Exists(n)
  /\ job[n].phase = "PENDING"
  /\ starter' = [starter EXCEPT ![s] = [pc |-> "secret", name |-> n,
                                        spec |-> job[n].spec]]
  /\ UNCHANGED <<event, job, queue, creator, cleanup, k8sVars, reports,
                 auxVars>>

(* Seeded fault: a secret that is there already is taken for one's own.    *)
CreateJobSecret_Tolerant(s) ==
  LET k == Object(s) IN
  /\ starter[s].pc = "secret"
  /\ starter' = [starter EXCEPT ![s].pc = "pod"]
  /\ secret' = IF secret[k] = None THEN [secret EXCEPT ![k] = s] ELSE secret
  /\ UNCHANGED <<event, job, queue, creator, cleanup, pod, terminating,
                 reports, auxVars>>

CreateJobSecret(s) ==
  LET k == Object(s) IN
  /\ starter[s].pc = "secret"
  /\ IF secret[k] = None
     THEN /\ secret' = [secret EXCEPT ![k] = s]
          /\ starter' = [starter EXCEPT ![s].pc = "pod"]
     ELSE /\ starter' = [starter EXCEPT ![s].pc = "failed"]
          /\ UNCHANGED secret
  /\ UNCHANGED <<event, job, queue, creator, cleanup, pod, terminating,
                 reports, auxVars>>

CreateJobPod(s) ==
  LET k == Object(s)
      n == starter[s].name IN
  /\ starter[s].pc = "pod"
  /\ IF pod[k] = NoPod
     THEN /\ pod' = [pod EXCEPT ![k] = [name |-> n, spec |-> starter[s].spec,
                                        by |-> s, phase |-> "RUNNING"]]
          /\ occurred' = occurred \cup {<<n, "RUNNING">>}
          /\ starter' = [starter EXCEPT ![s].pc = "done"]
     ELSE /\ starter' = [starter EXCEPT ![s].pc = "failed"]
          /\ UNCHANGED <<pod, occurred>>
  /\ UNCHANGED <<event, job, queue, creator, cleanup, secret, terminating,
                 reports, raced>>

StartFails(s) ==
  /\ starter[s].pc \in {"secret", "pod"}
  /\ starter' = [starter EXCEPT ![s].pc = "failed"]
  /\ UNCHANGED <<event, job, queue, creator, cleanup, k8sVars, reports,
                 auxVars>>

-----------------------------------------------------------------------------
(* The event is canceled, or deleted; then its objects are.  What jobs of  *)
(* a canceled event are recorded as does not change.                       *)

(* Seeded fault: a cancellation takes the jobs out of the document, too.   *)
Withdraw_ClearsJobs ==
  /\ \/ event = "active" /\ event' = "canceled"
     \/ event # "deleted" /\ event' = "deleted"
  /\ job' = [n \in Names |-> NoJob]
  /\ cleanup' = "pods"
  /\ UNCHANGED <<queue, creator, starter, k8sVars, reports, auxVars>>

Withdraw ==
  /\ \/ event = "active" /\ event' = "canceled"
     \/ event # "deleted" /\ event' = "deleted"
  /\ job' = IF event' = "deleted" THEN [n \in Names |-> NoJob] ELSE job
  /\ cleanup' = "pods"
  /\ UNCHANGED <<queue, creator, starter, k8sVars, reports, auxVars>>

DeletePods ==
  /\ cleanup = "pods"
  /\ cleanup' = "secrets"
  /\ terminating' = {k \in Objects : pod[k] # NoPod}
  /\ UNCHANGED <<event, job, queue, creator, starter, secret, pod, reports,
                 auxVars>>

DeleteSecrets ==
  /\ cleanup = "secrets"
  /\ cleanup' = "done"
  /\ secret' = [k \in Objects |-> None]
  /\ UNCHANGED <<event, job, queue, creator, starter, pod, terminating,
                 reports, auxVars>>

CleanupFails ==
  /\ cleanup \in {"pods", "secrets"}
  /\ cleanup' = "done"
  /\ UNCHANGED <<event, job, queue, creator, starter, k8sVars, reports,
                 auxVars>>

-----------------------------------------------------------------------------
(* Kubernetes and the observer.                                            *)

ContainerEnds(k, p) ==
  /\ pod[k].phase = "RUNNING" /\ p \in Ended
  /\ pod' = [pod EXCEPT ![k].phase = p]
  /\ occurred' = occurred \cup {<<pod[k].name, p>>}
  /\ UNCHANGED <<event, job, queue, creator, starter, cleanup, secret,
                 terminating, reports, raced>>

PodGone(k) ==
  /\ k \in terminating
  /\ terminating' = terminating \ {k}
  /\ pod' = [pod EXCEPT ![k] = NoPod]
  /\ UNCHANGED <<event, job, queue, creator, starter, cleanup, secret,
                 reports, auxVars>>

(* Seeded fault: the job is taken from the pod's name, not from its label. *)
SyncJobPod_ByObject(k) ==
  /\ pod[k] # NoPod /\ k \notin terminating
  /\ reports' = reports \cup
       {<<n, pod[k].phase>> : n \in {m \in Names : LowerCase[m] = k}}
  /\ UNCHANGED <<event, job, queue, creator, starter, cleanup, k8sVars,
                 auxVars>>

SyncJobPod(k) ==
  /\ pod[k] # NoPod /\ k \notin terminating
  /\ reports' = reports \cup {<<pod[k].name, pod[k].phase>>}
  /\ UNCHANGED <<event, job, queue, creator, starter, cleanup, k8sVars,
                 auxVars>>

(* Any job, recorded or not, takes any status, as long as there is a       *)
(* document.                                                               *)
UpdateStatus(n, p) ==
  /\ <<n, p>> \in reports
  /\ reports' = reports \ {<<n, p>>}
  /\ job' = IF event = "deleted" THEN job ELSE [job EXCEPT ![n].phase = p]
  /\ UNCHANGED <<event, queue, creator, starter, cleanup, k8sVars, auxVars>>

LoseReport(n, p) ==
  /\ <<n, p>> \in reports
  /\ reports' = reports \ {<<n, p>>}
  /\ UNCHANGED <<event, job, queue, creator, starter, cleanup, k8sVars,
                 auxVars>>

-----------------------------------------------------------------------------
Next ==
  \/ \E c \in Creates : StoreJob(c) \/ PublishJob(c) \/ CreateFails(c)
  \/ \E s \in Starts : CreateJobSecret(s) \/ CreateJobPod(s) \/ StartFails(s)
  \/ \E n \in Names : \/ \E c \in Creates : CreateJob(c, n)
                      \/ \E s \in Starts : Start(s, n)
                      \/ \E p \in ObservedPhases : UpdateStatus(n, p)
                                                   \/ LoseReport(n, p)
  \/ Withdraw \/ DeletePods \/ DeleteSecrets \/ CleanupFails
  \/ \E k \in Objects : \/ PodGone(k) \/ SyncJobPod(k)
                        \/ \E p \in Ended : ContainerEnds(k, p)

Spec == Init /\ [][Next]_vars

-----------------------------------------------------------------------------
(* Types.  No update makes a job of a name that was never created, though  *)
(* the update itself would: every recorded job has a specification.        *)
TypeOK ==
  /\ event \in {"active", "canceled", "deleted"}
  /\ job \in [Names -> Jobs \cup {NoJob}]
  /\ queue \subseteq Names
  /\ creator \in [Creates ->
       [pc : {"idle", "store", "publish", "accepted", "failed"}, name : Names]]
  /\ starter \in [Starts ->
       [pc : {"idle", "secret", "pod", "done", "failed"}, name : Names,
        spec : Creates \cup {None}]]
  /\ cleanup \in {"none", "pods", "secrets", "done"}
  /\ secret \in [Objects -> Starts \cup {None}]
  /\ pod \in [Objects -> Pods \cup {NoPod}]
  /\ terminating \subseteq Objects
  /\ reports \subseteq Names \X ObservedPhases
  /\ occurred \subseteq Names \X ObservedPhases
  /\ raced \subseteq Names

(* A recorded phase other than PENDING is one that a pod of that very job, *)
(* not of another that shares its object name, was really in.              *)
JobRecordIsTruthful ==
  \A n \in Names : job[n].phase \in ObservedPhases =>
                     <<n, job[n].phase>> \in occurred

(* A job's pod runs with the environment of its own Start call, never with *)
(* the secret another job, or an earlier attempt, left under the same      *)
(* object name, until the event is withdrawn.                              *)
OwnEnvironment ==
  event = "active" =>
    \A k \in Objects : pod[k] # NoPod => secret[k] = pod[k].by

(* What runs is what is recorded: until the event is withdrawn, a job's pod*)
(* has the specification in the document, unless two Create calls for the  *)
(* name overlapped.                                                        *)
RunsRecordedSpec ==
  event = "active" =>
    \A k \in Objects :
      LET n == pod[k].name IN
      pod[k] # NoPod => n \in raced \/ job[n].spec = pod[k].spec
=============================================================================
