--------------------------- MODULE JobLifecycleProofs ---------------------------
(***************************************************************************)
(* Theorems about JobLifecycle, for any job names and object names, and    *)
(* any Create and Start calls.                                             *)
(***************************************************************************)
EXTENDS JobLifecycle, TLAPS

-----------------------------------------------------------------------------
(* While there is a document, whatever is about has a job recorded for it: *)
(* no job is removed before the document is.                               *)

StartUnderWay(s) == starter[s].pc \in {"secret", "pod"}

NamesRecorded ==
  event # "deleted" =>
    /\ \A n \in queue : Exists(n)
    /\ \A c \in Creates : creator[c].pc = "publish" => Exists(creator[c].name)
    /\ \A s \in Starts : StartUnderWay(s) => Exists(starter[s].name)
    /\ \A k \in Objects : pod[k] # NoPod => Exists(pod[k].name)
    /\ \A n \in Names, p \in ObservedPhases : <<n, p>> \in reports => Exists(n)

SpecsRead == \A s \in Starts : StartUnderWay(s) => starter[s].spec \in Creates

(* What is reported, or will be, happened.                                 *)
ReportsTruthful ==
  /\ reports \subseteq occurred
  /\ \A k \in Objects : pod[k] # NoPod => <<pod[k].name, pod[k].phase>> \in occurred
  /\ JobRecordIsTruthful

(* A Start call goes on to the pod only with a secret of its own.          *)
SecretsOwned ==
  /\ event = "active" => cleanup = "none"
  /\ event = "active" =>
       \A s \in Starts : starter[s].pc = "pod" => secret[Object(s)] = s
  /\ OwnEnvironment

(* A job stored while another Create call for its name is past the check is*)
(* the only one that is ever stored again.                                 *)
SpecsStable ==
  event = "active" =>
    /\ \A c \in Creates : LET n == creator[c].name IN
         creator[c].pc = "store" /\ Exists(n) => n \in raced
    /\ \A s \in Starts : LET n == starter[s].name IN
         StartUnderWay(s) => n \in raced \/ job[n].spec = starter[s].spec
    /\ \A k \in Objects : LET n == pod[k].name IN
         pod[k] # NoPod => n \in raced \/ job[n].spec = pod[k].spec

JobInv ==
  /\ TypeOK /\ NamesRecorded /\ SpecsRead
  /\ ReportsTruthful /\ SecretsOwned /\ SpecsStable

-----------------------------------------------------------------------------
LEMMA NothingIsNothing == NoJob \notin Jobs /\ NoPod \notin Pods
BY NoneAssumption DEF NoJob, Jobs, NoPod, Pods

LEMMA InitJobInv == Init => JobInv
<1> SUFFICES ASSUME Init PROVE JobInv
  OBVIOUS
<1>1. TypeOK
  BY DEF Init, TypeOK
<1>2. /\ \A c \in Creates : creator[c].pc = "idle"
      /\ \A s \in Starts : starter[s].pc = "idle"
      /\ \A n \in Names : job[n] = NoJob
      /\ \A k \in Objects : pod[k] = NoPod
  BY DEF Init
<1>3. NamesRecorded /\ SpecsRead
  BY <1>2 DEF Init, NamesRecorded, SpecsRead, StartUnderWay
<1>4. ReportsTruthful
  BY <1>2 DEF Init, ReportsTruthful, JobRecordIsTruthful, NoJob, ObservedPhases
<1>5. SecretsOwned /\ SpecsStable
  BY <1>2 DEF Init, SecretsOwned, OwnEnvironment, SpecsStable, StartUnderWay
<1> QED BY <1>1, <1>3, <1>4, <1>5 DEF JobInv

-----------------------------------------------------------------------------
(* jobs.Create.                                                            *)

LEMMA CreateJobInv ==
  ASSUME JobInv, NEW c \in Creates, NEW n \in Names, CreateJob(c, n)
  PROVE  JobInv'
<1> USE DEF k8sVars, auxVars
<1>1. UNCHANGED <<event, job, queue, starter, cleanup, k8sVars, reports, auxVars>>
  BY DEF CreateJob
<1>2. /\ creator'[c] = [pc |-> "store", name |-> n]
      /\ \A d \in Creates \ {c} : creator'[d] = creator[d]
  BY DEF CreateJob, JobInv, TypeOK
<1>3. TypeOK'
  BY <1>1 DEF CreateJob, JobInv, TypeOK
<1>4. NamesRecorded' /\ SpecsRead'
  BY <1>1, <1>2 DEF JobInv, NamesRecorded, SpecsRead, StartUnderWay, Exists
<1>5. ReportsTruthful' /\ SecretsOwned'
  BY <1>1 DEF JobInv, ReportsTruthful, JobRecordIsTruthful, SecretsOwned,
              OwnEnvironment, Object
<1>6. SpecsStable'
  BY <1>1, <1>2 DEF CreateJob, JobInv, SpecsStable, StartUnderWay, Exists
<1> QED BY <1>3, <1>4, <1>5, <1>6 DEF JobInv

LEMMA StoreJobInv ==
  ASSUME JobInv, NEW c \in Creates, StoreJob(c)
  PROVE  JobInv'
<1> USE DEF k8sVars
<1> DEFINE new == [spec |-> c, phase |-> "PENDING"]
<1>0. PICK n \in Names : n = creator[c].name /\ creator[c].pc = "store"
  BY DEF StoreJob, JobInv, TypeOK
<1>1. UNCHANGED <<event, queue, starter, cleanup, k8sVars, reports, occurred>>
  BY DEF StoreJob
<1>2. /\ creator'[c] = [creator[c] EXCEPT !.pc = "publish"]
      /\ \A d \in Creates \ {c} : creator'[d] = creator[d]
  BY DEF StoreJob, JobInv, TypeOK
<1>3. creator'[c].pc = "publish" /\ creator'[c].name = n
  BY <1>0, <1>2 DEF JobInv, TypeOK
<1>4. job'[n] = new /\ \A m \in Names \ {n} : job'[m] = job[m]
  BY <1>0 DEF StoreJob, JobInv, TypeOK
<1>5. new \in Jobs /\ new # NoJob
  BY NothingIsNothing DEF Jobs
<1>6. \A m \in Names : Exists(m) => Exists(m)'
  BY <1>4, <1>5 DEF Exists
<1>7. raced' = raced \cup {m \in {n} : \E d \in Creates \ {c} :
                             creator[d] = [pc |-> "store", name |-> m]}
  BY <1>0 DEF StoreJob
<1>8. TypeOK'
  <2>1. raced' \subseteq Names
    BY <1>0, <1>7 DEF JobInv, TypeOK
  <2>2. creator' \in [Creates -> [pc : {"idle", "store", "publish", "accepted",
                                        "failed"}, name : Names]]
    BY DEF StoreJob, JobInv, TypeOK
  <2>3. job' \in [Names -> Jobs \cup {NoJob}]
    BY <1>5 DEF StoreJob, JobInv, TypeOK
  <2> QED BY <1>1, <2>1, <2>2, <2>3 DEF JobInv, TypeOK
<1>9. NamesRecorded' /\ SpecsRead'
  <2>1. Exists(n)'
    BY <1>4, <1>5 DEF Exists
  <2> QED BY <1>0, <1>1, <1>2, <1>3, <1>6, <2>1
          DEF JobInv, NamesRecorded, SpecsRead, StartUnderWay, TypeOK, Pods
<1>10. ReportsTruthful'
  BY <1>1, <1>4 DEF JobInv, ReportsTruthful, JobRecordIsTruthful, ObservedPhases
<1>11. SecretsOwned'
  BY <1>1 DEF JobInv, SecretsOwned, OwnEnvironment, Object
<1>12. SpecsStable'
  <2> SUFFICES ASSUME event = "active" PROVE SpecsStable'
    BY <1>1 DEF SpecsStable
  (* If the job was there before, its name is in raced.                    *)
  <2>1. Exists(n) => n \in raced
    BY <1>0 DEF JobInv, SpecsStable
  <2>2. \A m \in Names : Exists(m) => m \in raced \/ job'[m].spec = job[m].spec
    BY <1>4, <2>1
  <2>3. raced \subseteq raced'
    BY <1>7
  <2>4. ASSUME NEW d \in Creates, creator'[d].pc = "store",
               job'[creator'[d].name] # NoJob
        PROVE  creator'[d].name \in raced'
    <3>1. d # c /\ creator'[d] = creator[d]
      BY <1>2, <1>3, <2>4
    <3>2. CASE creator[d].name = n
      <4>1. creator[d] = [pc |-> "store", name |-> n]
        BY <2>4, <3>1, <3>2 DEF JobInv, TypeOK
      <4> QED BY <1>7, <3>1, <3>2, <4>1
    <3>3. CASE creator[d].name # n
      <4>1. Exists(creator[d].name)
        BY <1>4, <2>4, <3>1, <3>3 DEF Exists, JobInv, TypeOK
      <4> QED BY <2>3, <2>4, <3>1, <4>1 DEF JobInv, SpecsStable
    <3> QED BY <3>2, <3>3
  <2>5. ASSUME NEW s \in Starts, StartUnderWay(s)
        PROVE  starter[s].name \in raced' \/ job'[starter[s].name].spec = starter[s].spec
    BY <2>2, <2>3, <2>5 DEF JobInv, SpecsStable, NamesRecorded, TypeOK
  <2>6. ASSUME NEW k \in Objects, pod[k] # NoPod
        PROVE  pod[k].name \in raced' \/ job'[pod[k].name].spec = pod[k].spec
    BY <2>2, <2>3, <2>6 DEF JobInv, SpecsStable, NamesRecorded, TypeOK, Pods
  <2> QED BY <1>1, <2>4, <2>5, <2>6 DEF SpecsStable, StartUnderWay, Exists
<1> QED BY <1>8, <1>9, <1>10, <1>11, <1>12 DEF JobInv

LEMMA CreateEndsInv ==
  ASSUME JobInv, NEW c \in Creates, PublishJob(c) \/ CreateFails(c)
  PROVE  JobInv'
<1> USE DEF k8sVars, auxVars
<1>1. UNCHANGED <<event, job, starter, cleanup, k8sVars, reports, auxVars>>
  BY DEF PublishJob, CreateFails
<1>2. /\ creator'[c] \in [pc : {"accepted", "failed"}, name : Names]
      /\ creator' \in [Creates -> [pc : {"idle", "store", "publish", "accepted",
                                         "failed"}, name : Names]]
      /\ \A d \in Creates \ {c} : creator'[d] = creator[d]
  BY DEF PublishJob, CreateFails, JobInv, TypeOK
<1>3. \/ queue' = queue
      \/ creator[c].pc = "publish" /\ queue' = queue \cup {creator[c].name}
  BY DEF PublishJob, CreateFails
<1>4. TypeOK'
  BY <1>1, <1>2, <1>3 DEF JobInv, TypeOK
<1>5. NamesRecorded' /\ SpecsRead'
  BY <1>1, <1>2, <1>3 DEF JobInv, NamesRecorded, SpecsRead, StartUnderWay, Exists
<1>6. ReportsTruthful' /\ SecretsOwned'
  BY <1>1 DEF JobInv, ReportsTruthful, JobRecordIsTruthful, SecretsOwned,
              OwnEnvironment, Object
<1>7. SpecsStable'
  BY <1>1, <1>2 DEF JobInv, SpecsStable, StartUnderWay, Exists
<1> QED BY <1>4, <1>5, <1>6, <1>7 DEF JobInv

-----------------------------------------------------------------------------
(* jobs.Start.                                                             *)

LEMMA StartInv ==
  ASSUME JobInv, NEW s \in Starts, NEW n \in Names, Start(s, n)
  PROVE  JobInv'
<1> USE DEF k8sVars, auxVars
<1>1. UNCHANGED <<event, job, queue, creator, cleanup, k8sVars, reports, auxVars>>
  BY DEF Start
<1>2. job[n] \in Jobs /\ event # "deleted"
  BY DEF Start, Exists, JobInv, TypeOK
<1>3. /\ starter'[s] = [pc |-> "secret", name |-> n, spec |-> job[n].spec]
      /\ \A t \in Starts \ {s} : starter'[t] = starter[t]
  BY DEF Start, JobInv, TypeOK
<1>4. starter'[s].pc = "secret" /\ starter'[s].name = n
      /\ starter'[s].spec = job[n].spec /\ job[n].spec \in Creates
  BY <1>2, <1>3 DEF Jobs
<1>5. TypeOK'
  BY <1>1, <1>4 DEF Start, JobInv, TypeOK
<1>6. NamesRecorded' /\ SpecsRead'
  <2>1. Exists(n)
    BY DEF Start
  <2> QED BY <1>1, <1>3, <1>4, <2>1
          DEF JobInv, NamesRecorded, SpecsRead, StartUnderWay, Exists
<1>7. ReportsTruthful'
  BY <1>1 DEF JobInv, ReportsTruthful, JobRecordIsTruthful
<1>8. SecretsOwned'
  BY <1>1, <1>3, <1>4 DEF JobInv, SecretsOwned, OwnEnvironment, Object
<1>9. SpecsStable'
  BY <1>1, <1>3, <1>4 DEF JobInv, SpecsStable, StartUnderWay, Exists
<1> QED BY <1>5, <1>6, <1>7, <1>8, <1>9 DEF JobInv

(* A Start call that moves on, or fails, keeps what it has read.           *)
LEMMA StarterMoves ==
  ASSUME JobInv, NEW s \in Starts, NEW step \in {"pod", "done", "failed"},
         starter' = [starter EXCEPT ![s].pc = step], StartUnderWay(s)
  PROVE  /\ starter' \in [Starts ->
              [pc : {"idle", "secret", "pod", "done", "failed"}, name : Names,
               spec : Creates \cup {None}]]
         /\ starter'[s].pc = step
         /\ \A t \in Starts \ {s} : starter'[t] = starter[t]
         /\ \A t \in Starts : /\ starter'[t].name = starter[t].name
                              /\ starter'[t].spec = starter[t].spec
         /\ \A t \in Starts : StartUnderWay(t)' => StartUnderWay(t)
         /\ \A t \in Starts : Object(t)' = Object(t)
BY DEF JobInv, TypeOK, StartUnderWay, Object

LEMMA CreateJobSecretInv ==
  ASSUME JobInv, NEW s \in Starts, CreateJobSecret(s)
  PROVE  JobInv'
<1>1. UNCHANGED <<event, job, queue, creator, cleanup, pod, terminating, reports,
                  occurred, raced>>
  BY DEF CreateJobSecret, auxVars
<1>2. PICK k \in Objects : k = Object(s)
  BY LowerCaseAssumption DEF Object, Objects, JobInv, TypeOK
<1>3. PICK step \in {"pod", "failed"} :
        /\ starter' = [starter EXCEPT ![s].pc = step]
        /\ \/ step = "pod" /\ secret[k] = None
              /\ secret' = [secret EXCEPT ![k] = s]
           \/ step = "failed" /\ secret' = secret
  BY <1>2 DEF CreateJobSecret
<1>4. StartUnderWay(s)
  BY DEF CreateJobSecret, StartUnderWay
<1>5. /\ starter' \in [Starts ->
              [pc : {"idle", "secret", "pod", "done", "failed"}, name : Names,
               spec : Creates \cup {None}]]
      /\ starter'[s].pc = step
      /\ \A t \in Starts \ {s} : starter'[t] = starter[t]
      /\ \A t \in Starts : /\ starter'[t].name = starter[t].name
                           /\ starter'[t].spec = starter[t].spec
      /\ \A t \in Starts : StartUnderWay(t)' => StartUnderWay(t)
      /\ \A t \in Starts : Object(t)' = Object(t)
  BY <1>3, <1>4, StarterMoves
<1>6. TypeOK'
  BY <1>1, <1>3, <1>5 DEF JobInv, TypeOK
<1>7. NamesRecorded' /\ SpecsRead'
  BY <1>1, <1>5 DEF JobInv, NamesRecorded, SpecsRead, Exists
<1>8. ReportsTruthful'
  BY <1>1 DEF JobInv, ReportsTruthful, JobRecordIsTruthful
<1>9. SecretsOwned'
  <2> SUFFICES ASSUME event = "active" PROVE SecretsOwned'
    BY <1>1 DEF JobInv, SecretsOwned, OwnEnvironment
  <2>1. secret \in [Objects -> Starts \cup {None}] /\ None \notin Starts
    BY NoneAssumption DEF JobInv, TypeOK
  <2>2. ASSUME NEW t \in Starts, starter'[t].pc = "pod"
        PROVE  secret'[Object(t)] = t
    <3>1. CASE t = s
      BY <1>2, <1>3, <1>5, <2>1, <2>2, <3>1
    <3>2. CASE t # s
      <4>1. secret[Object(t)] = t
        BY <1>5, <2>2, <3>2 DEF JobInv, SecretsOwned
      <4>2. Object(t) \in Objects
        BY LowerCaseAssumption DEF Object, Objects, JobInv, TypeOK
      <4> QED BY <1>3, <2>1, <4>1, <4>2
    <3> QED BY <3>1, <3>2
  <2>3. ASSUME NEW j \in Objects, pod[j] # NoPod
        PROVE  secret'[j] = pod[j].by
    <3>1. secret[j] = pod[j].by /\ pod[j].by # None
      BY <2>1, <2>3 DEF JobInv, SecretsOwned, OwnEnvironment, TypeOK, Pods
    <3> QED BY <1>3, <2>1, <3>1
  <2> QED BY <1>1, <1>5, <2>2, <2>3 DEF JobInv, SecretsOwned, OwnEnvironment
<1>10. SpecsStable'
  BY <1>1, <1>5 DEF JobInv, SpecsStable, Exists
<1> QED BY <1>6, <1>7, <1>8, <1>9, <1>10 DEF JobInv

LEMMA CreateJobPodInv ==
  ASSUME JobInv, NEW s \in Starts, CreateJobPod(s) \/ StartFails(s)
  PROVE  JobInv'
<1>1. UNCHANGED <<event, job, queue, creator, cleanup, secret, terminating, reports,
                  raced>>
  BY DEF CreateJobPod, StartFails, k8sVars, auxVars
<1>2. PICK k \in Objects : k = Object(s)
  BY LowerCaseAssumption DEF Object, Objects, JobInv, TypeOK
<1>3. PICK n \in Names : n = starter[s].name
  BY DEF JobInv, TypeOK
<1> DEFINE new == [name |-> n, spec |-> starter[s].spec, by |-> s,
                   phase |-> "RUNNING"]
<1>4. PICK step \in {"done", "failed"} :
        /\ starter' = [starter EXCEPT ![s].pc = step]
        /\ \/ /\ starter[s].pc = "pod" /\ pod[k] = NoPod
              /\ pod' = [pod EXCEPT ![k] = new]
              /\ occurred' = occurred \cup {<<n, "RUNNING">>}
           \/ pod' = pod /\ occurred' = occurred
  BY <1>2, <1>3 DEF CreateJobPod, StartFails, k8sVars, auxVars
<1>5. StartUnderWay(s)
  BY DEF CreateJobPod, StartFails, StartUnderWay
<1>6. /\ starter' \in [Starts ->
              [pc : {"idle", "secret", "pod", "done", "failed"}, name : Names,
               spec : Creates \cup {None}]]
      /\ starter'[s].pc = step
      /\ \A t \in Starts \ {s} : starter'[t] = starter[t]
      /\ \A t \in Starts : /\ starter'[t].name = starter[t].name
                           /\ starter'[t].spec = starter[t].spec
      /\ \A t \in Starts : StartUnderWay(t)' => StartUnderWay(t)
      /\ \A t \in Starts : Object(t)' = Object(t)
  BY <1>4, <1>5, StarterMoves
<1>7. new \in Pods /\ new.name = n /\ new.spec = starter[s].spec /\ new.by = s
      /\ new.phase = "RUNNING"
  BY <1>5 DEF JobInv, SpecsRead, Pods, ObservedPhases
<1>8. \A j \in Objects : pod'[j] = pod[j] \/ (j = k /\ pod'[j] = new
                                               /\ starter[s].pc = "pod")
  BY <1>4 DEF JobInv, TypeOK
<1> HIDE DEF new
<1>9. TypeOK'
  <2>1. pod' \in [Objects -> Pods \cup {NoPod}]
    BY <1>4, <1>7 DEF JobInv, TypeOK
  <2>2. occurred' \subseteq Names \X ObservedPhases
    BY <1>4 DEF JobInv, TypeOK, ObservedPhases
  <2> QED BY <1>1, <1>6, <2>1, <2>2 DEF JobInv, TypeOK
<1>10. NamesRecorded' /\ SpecsRead'
  <2>1. event # "deleted" => Exists(n)
    BY <1>3, <1>5 DEF JobInv, NamesRecorded
  <2>2. SpecsRead'
    BY <1>6 DEF JobInv, SpecsRead
  <2> QED BY <1>1, <1>6, <1>7, <1>8, <2>1, <2>2 DEF JobInv, NamesRecorded, Exists
<1>11. ReportsTruthful'
  <2>1. occurred \subseteq occurred'
    BY <1>4
  <2>2. ASSUME NEW j \in Objects, pod'[j] # NoPod
        PROVE  <<pod'[j].name, pod'[j].phase>> \in occurred'
    <3>1. CASE pod'[j] = pod[j]
      BY <2>1, <2>2, <3>1 DEF JobInv, ReportsTruthful
    <3>2. CASE pod'[j] # pod[j]
      <4>1. pod'[j] = new /\ pod' # pod
        BY <1>8, <3>2
      <4>2. occurred' = occurred \cup {<<n, "RUNNING">>}
        BY <1>4, <4>1
      <4> QED BY <1>7, <4>1, <4>2
    <3> QED BY <3>1, <3>2
  <2> QED BY <1>1, <2>1, <2>2 DEF JobInv, ReportsTruthful, JobRecordIsTruthful
<1>12. SecretsOwned'
  <2>1. event = "active" /\ starter[s].pc = "pod" => secret[k] = s
    BY <1>2 DEF JobInv, SecretsOwned
  <2> QED BY <1>1, <1>6, <1>7, <1>8, <2>1 DEF JobInv, SecretsOwned, OwnEnvironment
<1>13. SpecsStable'
  <2>1. event = "active" => n \in raced \/ job[n].spec = starter[s].spec
    BY <1>3, <1>5 DEF JobInv, SpecsStable
  <2> QED BY <1>1, <1>6, <1>7, <1>8, <2>1 DEF JobInv, SpecsStable, Exists
<1> QED BY <1>9, <1>10, <1>11, <1>12, <1>13 DEF JobInv

-----------------------------------------------------------------------------
(* The event is withdrawn.                                                 *)

LEMMA WithdrawInv ==
  ASSUME JobInv, Withdraw \/ DeletePods \/ DeleteSecrets \/ CleanupFails
  PROVE  JobInv'
<1> USE DEF k8sVars, auxVars
<1>1. UNCHANGED <<queue, creator, starter, pod, reports, occurred, raced>>
  BY DEF Withdraw, DeletePods, DeleteSecrets, CleanupFails
<1>2. event' # "active"
  BY DEF Withdraw, DeletePods, DeleteSecrets, CleanupFails, JobInv, SecretsOwned,
         TypeOK
<1>3. \/ job' = job /\ (event = "deleted" => event' = "deleted")
      \/ event' = "deleted" /\ \A n \in Names : job'[n] = NoJob
  BY DEF Withdraw, DeletePods, DeleteSecrets, CleanupFails
<1>4. TypeOK'
  <2>1. CASE Withdraw
    BY <2>1 DEF Withdraw, JobInv, TypeOK
  <2>2. CASE DeletePods
    BY <2>2 DEF DeletePods, JobInv, TypeOK
  <2>3. CASE DeleteSecrets
    BY <2>3 DEF DeleteSecrets, JobInv, TypeOK
  <2>4. CASE CleanupFails
    BY <2>4 DEF CleanupFails, JobInv, TypeOK
  <2> QED BY <2>1, <2>2, <2>3, <2>4
<1>5. NamesRecorded' /\ SpecsRead'
  BY <1>1, <1>3 DEF JobInv, NamesRecorded, SpecsRead, StartUnderWay, Exists
<1>6. ReportsTruthful'
  BY <1>1, <1>3 DEF JobInv, ReportsTruthful, JobRecordIsTruthful, NoJob,
                    ObservedPhases
<1>7. SecretsOwned' /\ SpecsStable'
  BY <1>2 DEF SecretsOwned, OwnEnvironment, SpecsStable
<1> QED BY <1>4, <1>5, <1>6, <1>7 DEF JobInv

-----------------------------------------------------------------------------
(* Pods and the observer.                                                  *)

LEMMA ContainerEndsInv ==
  ASSUME JobInv, NEW k \in Objects, NEW p \in Ended, ContainerEnds(k, p)
  PROVE  JobInv'
<1>1. UNCHANGED <<event, job, queue, creator, starter, cleanup, secret, terminating,
                  reports, raced>>
  BY DEF ContainerEnds
<1>2. pod[k] \in Pods
  BY DEF ContainerEnds, JobInv, TypeOK, NoPod
<1>3. /\ pod'[k].name = pod[k].name /\ pod'[k].spec = pod[k].spec
      /\ pod'[k].by = pod[k].by /\ pod'[k].phase = p /\ pod'[k] \in Pods
      /\ pod[k] # NoPod
  BY <1>2, NothingIsNothing DEF ContainerEnds, JobInv, TypeOK, Pods, Ended,
                                ObservedPhases
<1>4. \A j \in Objects \ {k} : pod'[j] = pod[j]
  BY DEF ContainerEnds, JobInv, TypeOK
<1>5. occurred' = occurred \cup {<<pod[k].name, p>>}
  BY DEF ContainerEnds
<1>6. TypeOK'
  <2>1. pod' \in [Objects -> Pods \cup {NoPod}]
    BY <1>3, <1>4 DEF ContainerEnds, JobInv, TypeOK
  <2>2. occurred' \subseteq Names \X ObservedPhases
    BY <1>2, <1>5 DEF JobInv, TypeOK, Pods, Ended, ObservedPhases
  <2> QED BY <1>1, <2>1, <2>2 DEF JobInv, TypeOK
<1>7. NamesRecorded' /\ SpecsRead'
  BY <1>1, <1>3, <1>4 DEF JobInv, NamesRecorded, SpecsRead, StartUnderWay, Exists
<1>8. ReportsTruthful'
  <2>1. reports' \subseteq occurred' /\ JobRecordIsTruthful'
    BY <1>1, <1>5 DEF JobInv, ReportsTruthful, JobRecordIsTruthful
  <2>2. \A j \in Objects : pod'[j] # NoPod
          => <<pod'[j].name, pod'[j].phase>> \in occurred'
    BY <1>3, <1>4, <1>5 DEF JobInv, ReportsTruthful
  <2> QED BY <2>1, <2>2 DEF ReportsTruthful
<1>9. SecretsOwned'
  BY <1>1, <1>3, <1>4 DEF JobInv, SecretsOwned, OwnEnvironment, Object
<1>10. SpecsStable'
  BY <1>1, <1>3, <1>4 DEF JobInv, SpecsStable, StartUnderWay, Exists
<1> QED BY <1>6, <1>7, <1>8, <1>9, <1>10 DEF JobInv

LEMMA PodGoneInv ==
  ASSUME JobInv, NEW k \in Objects, PodGone(k)
  PROVE  JobInv'
<1> USE DEF auxVars
<1>1. UNCHANGED <<event, job, queue, creator, starter, cleanup, secret, reports,
                  occurred, raced>>
  BY DEF PodGone
<1>2. \A j \in Objects : pod'[j] = pod[j] \/ pod'[j] = NoPod
  BY DEF PodGone, JobInv, TypeOK
<1>3. TypeOK'
  BY <1>1 DEF PodGone, JobInv, TypeOK
<1>4. NamesRecorded' /\ SpecsRead'
  BY <1>1, <1>2 DEF JobInv, NamesRecorded, SpecsRead, StartUnderWay, Exists
<1>5. ReportsTruthful' /\ SecretsOwned'
  BY <1>1, <1>2 DEF JobInv, ReportsTruthful, JobRecordIsTruthful, SecretsOwned,
                    OwnEnvironment, Object
<1>6. SpecsStable'
  BY <1>1, <1>2 DEF JobInv, SpecsStable, StartUnderWay, Exists
<1> QED BY <1>3, <1>4, <1>5, <1>6 DEF JobInv

LEMMA SyncJobPodInv ==
  ASSUME JobInv, NEW k \in Objects, SyncJobPod(k)
  PROVE  JobInv'
<1> USE DEF auxVars, k8sVars
<1>1. UNCHANGED <<event, job, queue, creator, starter, cleanup, k8sVars, auxVars>>
  BY DEF SyncJobPod
<1>2. pod[k] \in Pods /\ pod[k] # NoPod
      /\ reports' = reports \cup {<<pod[k].name, pod[k].phase>>}
  BY DEF SyncJobPod, JobInv, TypeOK
<1>3. TypeOK'
  BY <1>1, <1>2 DEF JobInv, TypeOK, Pods
<1>4. NamesRecorded' /\ SpecsRead'
  BY <1>1, <1>2 DEF JobInv, NamesRecorded, SpecsRead, StartUnderWay, Exists
<1>5. ReportsTruthful' /\ SecretsOwned'
  BY <1>1, <1>2 DEF JobInv, ReportsTruthful, JobRecordIsTruthful, SecretsOwned,
                    OwnEnvironment, Object
<1>6. SpecsStable'
  BY <1>1 DEF JobInv, SpecsStable, StartUnderWay, Exists
<1> QED BY <1>3, <1>4, <1>5, <1>6 DEF JobInv

(* A report is applied: that the job is recorded, though the store does not*)
(* ask, keeps an update from making a job without a specification.         *)
LEMMA UpdateStatusInv ==
  ASSUME JobInv, NEW n \in Names, NEW p \in ObservedPhases,
         UpdateStatus(n, p) \/ LoseReport(n, p)
  PROVE  JobInv'
<1> USE DEF auxVars, k8sVars
<1>1. UNCHANGED <<event, queue, creator, starter, cleanup, k8sVars, auxVars>>
      /\ reports' \subseteq reports /\ <<n, p>> \in reports
  BY DEF UpdateStatus, LoseReport
<1>2. \/ job' = job
      \/ /\ event # "deleted" /\ job[n] \in Jobs
         /\ job' = [job EXCEPT ![n] = [job[n] EXCEPT !.phase = p]]
  BY <1>1 DEF UpdateStatus, LoseReport, JobInv, NamesRecorded, Exists, TypeOK
<1>3. /\ job' \in [Names -> Jobs \cup {NoJob}]
      /\ \A m \in Names : Exists(m) <=> job'[m] # NoJob
      /\ \A m \in Names : job'[m].spec = job[m].spec
      /\ \A m \in Names : job'[m].phase = job[m].phase \/ (m = n /\ job'[m].phase = p)
  <2>1. CASE job' = job
    BY <2>1 DEF JobInv, TypeOK, Exists
  <2>2. CASE job' # job
    <3>1. [job[n] EXCEPT !.phase = p] \in Jobs
          /\ [job[n] EXCEPT !.phase = p].spec = job[n].spec
          /\ [job[n] EXCEPT !.phase = p].phase = p
      BY <1>2, <2>2 DEF Jobs
    <3>2. job'[n] = [job[n] EXCEPT !.phase = p]
          /\ \A m \in Names \ {n} : job'[m] = job[m]
      BY <1>2, <2>2 DEF JobInv, TypeOK
    <3>3. job' \in [Names -> Jobs \cup {NoJob}]
      BY <1>2, <2>2, <3>1 DEF JobInv, TypeOK
    <3>4. job'[n] # NoJob /\ job[n] # NoJob
      BY <1>2, <2>2, <3>1, <3>2, NothingIsNothing
    <3> QED BY <3>1, <3>2, <3>3, <3>4 DEF Exists
  <2> QED BY <2>1, <2>2
<1>4. TypeOK'
  BY <1>1, <1>3 DEF JobInv, TypeOK
<1>5. NamesRecorded' /\ SpecsRead'
  BY <1>1, <1>3 DEF JobInv, NamesRecorded, SpecsRead, StartUnderWay, Exists, TypeOK,
                    Pods
<1>6. ReportsTruthful'
  BY <1>1, <1>3 DEF JobInv, ReportsTruthful, JobRecordIsTruthful
<1>7. SecretsOwned'
  BY <1>1 DEF JobInv, SecretsOwned, OwnEnvironment, Object
<1>8. SpecsStable'
  BY <1>1, <1>3 DEF JobInv, SpecsStable, StartUnderWay, Exists, TypeOK, Pods
<1> QED BY <1>4, <1>5, <1>6, <1>7, <1>8 DEF JobInv

-----------------------------------------------------------------------------
LEMMA NextJobInv == JobInv /\ [Next]_vars => JobInv'
<1>1. JobInv /\ Next => JobInv'
  BY CreateJobInv, StoreJobInv, CreateEndsInv, StartInv, CreateJobSecretInv,
     CreateJobPodInv, WithdrawInv, ContainerEndsInv, PodGoneInv, SyncJobPodInv,
     UpdateStatusInv
     DEF Next
<1>2. JobInv /\ UNCHANGED vars => JobInv'
  BY DEF vars, k8sVars, auxVars, JobInv, TypeOK, NamesRecorded, SpecsRead,
         ReportsTruthful, JobRecordIsTruthful, SecretsOwned, OwnEnvironment,
         SpecsStable, StartUnderWay, Object, Exists
<1> QED BY <1>1, <1>2

LEMMA JobInvariant == Spec => []JobInv
BY InitJobInv, NextJobInv, PTL DEF Spec

(* Every recorded job has a specification, although the store's update of  *)
(* a job's status does not ask whether there is such a job.                *)
THEOREM JobsTypeCorrect == Spec => []TypeOK
<1>1. JobInv => TypeOK
  BY DEF JobInv
<1> QED BY <1>1, JobInvariant, PTL

(* A job's recorded phase happened to that job, whichever names share its  *)
(* Kubernetes objects.                                                     *)
THEOREM JobRecordsAreTruthful == Spec => []JobRecordIsTruthful
<1>1. JobInv => JobRecordIsTruthful
  BY DEF JobInv, ReportsTruthful
<1> QED BY <1>1, JobInvariant, PTL

(* Until the event is withdrawn, a pod only ever uses the secret that its  *)
(* own Start call made.                                                    *)
THEOREM PodsOwnTheirEnvironment == Spec => []OwnEnvironment
<1>1. JobInv => OwnEnvironment
  BY DEF JobInv, SecretsOwned
<1> QED BY <1>1, JobInvariant, PTL

(* Until the event is withdrawn, a pod has the recorded specification,     *)
(* unless two Create calls for the job's name overlapped.                  *)
THEOREM PodsRunTheRecordedSpec == Spec => []RunsRecordedSpec
<1>1. JobInv => RunsRecordedSpec
  BY DEF JobInv, SpecsStable, RunsRecordedSpec
<1> QED BY <1>1, JobInvariant, PTL
=============================================================================
