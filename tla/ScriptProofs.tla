----------------------------- MODULE ScriptProofs -----------------------------
(***************************************************************************)
(* Theorems about Script, for any script, any number of jobs and any names:*)
(* that its jobs behave as JobLifecycle says, so that the theorems of      *)
(* JobLifecycleProofs hold of them, and what the script can rely on.       *)
(***************************************************************************)
EXTENDS Script, JobLifecycleProofs, WellFoundedInduction

-----------------------------------------------------------------------------
(* What runs, is to run or is recorded comes from a Create call that began.*)
Begun(c) == creator[c].pc # "idle"

SpecsBegun ==
  /\ \A n \in Names : job[n].spec \in Creates => Begun(job[n].spec)
  /\ \A s \in Starts : starter[s].spec \in Creates => Begun(starter[s].spec)
  /\ \A k \in Objects : pod[k].spec \in Creates => Begun(pod[k].spec)

(* With runEach, a Create call begins when the earlier jobs have succeeded.*)
BegunInTurn ==
  script.mode = "each" =>
    \A c, d \in Creates :
      Begun(c) /\ d < c => <<NameOf(d), "SUCCEEDED">> \in occurred

ScriptInv ==
  /\ JobInv /\ ScriptTypeOK
  /\ SpecsBegun /\ BegunInTurn
  /\ RunTellsTheTruth /\ WatchedJobsExist /\ SuccessMeansAllJobs

-----------------------------------------------------------------------------
(* Types.                                                                  *)

LEMMA InitScriptTypes == ScriptInit => ScriptTypeOK
<1> SUFFICES ASSUME ScriptInit PROVE ScriptTypeOK
  OBVIOUS
<1>1. PICK s \in Scripts : script = [mode |-> s.mode, program |-> s.program,
                                     pc |-> "running"]
  BY DEF ScriptInit
<1>2. s.mode \in {"each", "all"} /\ s.program \in [Creates -> Names]
  BY ScriptsAssumption
<1> QED BY <1>1, <1>2 DEF ScriptInit, ScriptTypeOK

LEMMA ScriptTypes == ScriptTypeOK /\ [ScriptNext]_scriptVars => ScriptTypeOK'
<1> SUFFICES ASSUME ScriptTypeOK, [ScriptNext]_scriptVars PROVE ScriptTypeOK'
  OBVIOUS
<1>1. \A c \in Creates, pc \in {"idle"} \cup Active \cup Settled :
        RunBecomes(c, pc) => ScriptTypeOK'
  BY DEF RunBecomes, ScriptTypeOK
<1>2. CASE UNCHANGED <<script, run>>
  BY <1>2 DEF ScriptTypeOK
<1>3. CASE Exit \/ Crash
  BY <1>3 DEF Exit, Crash, Ends, ScriptTypeOK
<1>4. ASSUME NEW c \in Creates,
             \/ Run(c) \/ RunRefused(c) \/ RunFails(c) \/ RunAccepted(c)
             \/ Connect(c) \/ ConnectFails(c) \/ WatchStatus(c) \/ StreamEnds(c)
      PROVE  \E pc \in {"idle"} \cup Active \cup Settled : RunBecomes(c, pc)
  BY <1>4 DEF Run, RunRefused, RunFails, RunAccepted, Connect, ConnectFails,
              WatchStatus, StreamEnds, Outcome, Active, Settled
<1> QED BY <1>1, <1>2, <1>3, <1>4 DEF ScriptNext, ScriptStep, JobsStep, scriptVars

-----------------------------------------------------------------------------
(* Script's jobs are JobLifecycle's: a step of the script calls jobs.Create*)
(* or leaves the jobs alone.                                               *)

LEMMA ScriptsCallOrWait ==
  ASSUME ScriptStep
  PROVE  \/ \E c \in Creates : Run(c)
         \/ UNCHANGED vars
BY DEF ScriptStep, RunRefused, RunFails, RunAccepted, Connect, ConnectFails,
       WatchStatus, StreamEnds, Exit, Crash, Ends

LEMMA ScriptStepIsJobStep ==
  ScriptTypeOK /\ [ScriptNext]_scriptVars => [Next]_vars
<1> SUFFICES ASSUME ScriptTypeOK, [ScriptNext]_scriptVars PROVE [Next]_vars
  OBVIOUS
<1>1. ASSUME NEW c \in Creates, Run(c) PROVE Next
  <2>1. NameOf(c) \in Names
    BY DEF ScriptTypeOK, NameOf
  <2> QED BY <1>1, <2>1 DEF Run, Next
<1>2. JobsStep => Next
  BY DEF JobsStep, Next
<1> QED BY <1>1, <1>2, ScriptsCallOrWait DEF ScriptNext, scriptVars

-----------------------------------------------------------------------------
(* What a step does to the jobs.                                           *)

LEMMA OccurrencesStay == [Next]_vars => occurred \subseteq occurred'
BY DEF Next, vars, auxVars, k8sVars, CreateJob, StoreJob, PublishJob, CreateFails,
       Start, CreateJobSecret, CreateJobPod, StartFails, Withdraw, DeletePods,
       DeleteSecrets, CleanupFails, ContainerEnds, PodGone, SyncJobPod,
       UpdateStatus, LoseReport

(* The steps that write the document.                                      *)
DocumentStep ==
  \/ \E c \in Creates : StoreJob(c)
  \/ \E n \in Names, p \in ObservedPhases : UpdateStatus(n, p)
  \/ Withdraw

LEMMA OthersLeaveTheDocument ==
  [Next]_vars => DocumentStep \/ UNCHANGED <<event, job>>
BY DEF Next, vars, auxVars, k8sVars, DocumentStep, CreateJob, PublishJob, CreateFails,
       Start, CreateJobSecret, CreateJobPod, StartFails, DeletePods,
       DeleteSecrets, CleanupFails, ContainerEnds, PodGone, SyncJobPod,
       LoseReport

(* No job leaves the document but with the document.                       *)
LEMMA JobsStay ==
  ASSUME JobInv, [Next]_vars, event' # "deleted"
  PROVE  event # "deleted" /\ \A n \in Names : Exists(n) => Exists(n)'
<1> USE DEF Exists
<1>1. CASE UNCHANGED <<event, job>>
  BY <1>1
<1>2. ASSUME NEW c \in Creates, StoreJob(c)
      PROVE  event # "deleted" /\ \A n \in Names : Exists(n) => Exists(n)'
  <2>1. [spec |-> c, phase |-> "PENDING"] # NoJob
    BY NothingIsNothing DEF Jobs
  <2> QED BY <1>2, <2>1 DEF StoreJob, JobInv, TypeOK
<1>3. ASSUME NEW n \in Names, NEW p \in ObservedPhases, UpdateStatus(n, p)
      PROVE  event # "deleted" /\ \A m \in Names : Exists(m) => Exists(m)'
  <2>1. job[n] # NoJob => [job[n] EXCEPT !.phase = p] \in Jobs
    BY DEF JobInv, TypeOK, Jobs
  <2> QED BY <1>3, <2>1, NothingIsNothing DEF UpdateStatus, JobInv, TypeOK
<1>4. CASE Withdraw
  BY <1>4 DEF Withdraw
<1> QED BY <1>1, <1>2, <1>3, <1>4, OthersLeaveTheDocument DEF DocumentStep

(* A specification is stored by its Create call and handed on from there.  *)
LEMMA SpecsHandedOn ==
  ASSUME JobInv, SpecsBegun, [Next]_vars,
         \A c \in Creates : Begun(c) => Begun(c)'
  PROVE  SpecsBegun'
<1>1. \A n \in Names :
        \/ job'[n].spec = job[n].spec
        \/ job'[n].spec = None
        \/ Begun(job'[n].spec)
  <2>1. CASE UNCHANGED <<event, job>>
    BY <2>1
  <2>2. ASSUME NEW c \in Creates, StoreJob(c)
        PROVE  \A n \in Names : job'[n].spec = job[n].spec \/ Begun(job'[n].spec)
    BY <2>2 DEF StoreJob, JobInv, TypeOK, Begun
  <2>3. ASSUME NEW n \in Names, NEW p \in ObservedPhases, UpdateStatus(n, p)
        PROVE  \A m \in Names : job'[m].spec = job[m].spec
    <3>1. [job[n] EXCEPT !.phase = p].spec = job[n].spec
      BY DEF JobInv, TypeOK, Jobs, NoJob
    <3> QED BY <2>3, <3>1 DEF UpdateStatus, JobInv, TypeOK
  <2>4. CASE Withdraw
    BY <2>4 DEF Withdraw, NoJob
  <2> QED BY <2>1, <2>2, <2>3, <2>4, OthersLeaveTheDocument DEF DocumentStep
<1>2. \A s \in Starts :
        \/ starter'[s].spec = starter[s].spec
        \/ \E n \in Names : starter'[s].spec = job[n].spec
  <2>1. ASSUME NEW s \in Starts, NEW n \in Names, Start(s, n)
        PROVE  <1>2
    BY <2>1 DEF Start, JobInv, TypeOK
  <2>2. ASSUME NEW s \in Starts,
               CreateJobSecret(s) \/ CreateJobPod(s) \/ StartFails(s)
        PROVE  \A r \in Starts : starter'[r].spec = starter[r].spec
    BY <2>2 DEF CreateJobSecret, CreateJobPod, StartFails, JobInv, TypeOK
  <2>3. \/ \E s \in Starts : \/ \E n \in Names : Start(s, n)
                             \/ CreateJobSecret(s) \/ CreateJobPod(s) \/ StartFails(s)
        \/ UNCHANGED starter
    BY DEF Next, vars, auxVars, k8sVars, CreateJob, StoreJob, PublishJob,
           CreateFails, Withdraw, DeletePods, DeleteSecrets, CleanupFails,
           ContainerEnds, PodGone, SyncJobPod, UpdateStatus, LoseReport
  <2> QED BY <2>1, <2>2, <2>3
<1>3. \A k \in Objects :
        \/ pod'[k].spec = pod[k].spec
        \/ pod'[k].spec = None
        \/ \E s \in Starts : pod'[k].spec = starter[s].spec
  <2>1. ASSUME NEW s \in Starts, CreateJobPod(s)
        PROVE  <1>3
    BY <2>1 DEF CreateJobPod, JobInv, TypeOK
  <2>2. ASSUME NEW k \in Objects, NEW p \in Ended, ContainerEnds(k, p)
        PROVE  \A o \in Objects : pod'[o].spec = pod[o].spec
    <3>1. [pod[k] EXCEPT !.phase = p].spec = pod[k].spec
      BY DEF JobInv, TypeOK, Pods, NoPod
    <3> QED BY <2>2, <3>1 DEF ContainerEnds, JobInv, TypeOK
  <2>3. ASSUME NEW k \in Objects, PodGone(k)
        PROVE  <1>3
    BY <2>3 DEF PodGone, NoPod, JobInv, TypeOK
  <2>4. \/ \E s \in Starts : CreateJobPod(s)
        \/ \E k \in Objects : PodGone(k) \/ \E p \in Ended : ContainerEnds(k, p)
        \/ UNCHANGED pod
    BY DEF Next, vars, auxVars, k8sVars, CreateJob, StoreJob, PublishJob,
           CreateFails, Start, CreateJobSecret, StartFails, Withdraw, DeletePods,
           DeleteSecrets, CleanupFails, SyncJobPod, UpdateStatus, LoseReport
  <2> QED BY <2>1, <2>2, <2>3, <2>4
<1> QED BY <1>1, <1>2, <1>3, NoneAssumption DEF SpecsBegun

(* Create calls begin with the script's calls of run, each in its turn.    *)
LEMMA OnlyRunBegins ==
  ASSUME JobInv, ScriptTypeOK, [ScriptNext]_scriptVars, NEW c \in Creates
  PROVE  /\ Begun(c) => Begun(c)'
         /\ Begun(c)' => Begun(c) \/ Run(c)
<1> USE DEF Begun
<1>1. CASE UNCHANGED creator
  BY <1>1
<1>2. ASSUME NEW d \in Creates, Run(d)
      PROVE  /\ Begun(c) => Begun(c)'
             /\ Begun(c)' => Begun(c) \/ Run(c)
  BY <1>2 DEF Run, CreateJob, JobInv, TypeOK
<1>3. ASSUME NEW d \in Creates, StoreJob(d) \/ PublishJob(d) \/ CreateFails(d)
      PROVE  (Begun(c) /\ Begun(c)') \/ creator'[c] = creator[c]
  BY <1>3 DEF StoreJob, PublishJob, CreateFails, JobInv, TypeOK
<1>4. CASE JobsStep
  <2>1. \/ \E d \in Creates : StoreJob(d) \/ PublishJob(d) \/ CreateFails(d)
        \/ UNCHANGED creator
    BY <1>4 DEF JobsStep, k8sVars, auxVars, Start, CreateJobSecret, CreateJobPod,
           StartFails, Withdraw, DeletePods, DeleteSecrets, CleanupFails,
           ContainerEnds, PodGone, SyncJobPod, UpdateStatus, LoseReport
  <2> QED BY <1>1, <1>3, <2>1
<1>5. (\E d \in Creates : Run(d)) \/ JobsStep \/ UNCHANGED creator
  BY ScriptsCallOrWait DEF ScriptNext, scriptVars, vars
<1> QED BY <1>1, <1>2, <1>4, <1>5

-----------------------------------------------------------------------------
(* What the script does.                                                   *)

LEMMA InitScriptInv == ScriptInit => ScriptInv
<1> SUFFICES ASSUME ScriptInit PROVE ScriptInv
  OBVIOUS
<1>1. JobInv /\ ScriptTypeOK
  BY InitJobInv, InitScriptTypes DEF ScriptInit
<1>2. script.pc = "running" /\ \A c \in Creates : run[c] = "idle" /\ ~Begun(c)
  BY DEF ScriptInit, Init, Begun
<1>3. SpecsBegun
  BY NoneAssumption DEF ScriptInit, Init, SpecsBegun, NoJob, NoPod
<1> QED BY <1>1, <1>2, <1>3 DEF ScriptInv, BegunInTurn, RunTellsTheTruth,
           WatchedJobsExist, SuccessMeansAllJobs

(* What happens to the calls of run and to the process in a step.          *)
LEMMA WhatTheScriptSees ==
  ASSUME ScriptInv, [ScriptNext]_scriptVars
  PROVE  /\ script'.mode = script.mode /\ script'.program = script.program
         /\ script'.pc = script.pc \/ Exit \/ Crash
         /\ \A c \in Creates :
              \/ run'[c] = run[c]
              \/ run'[c] \notin {"resolved", "watching"}
              \/ /\ run'[c] = "watching" /\ event # "deleted"
                 /\ Exists(NameOf(c)) /\ UNCHANGED vars
              \/ /\ run'[c] \in {"resolved", "watching"} /\ event # "deleted"
                 /\ run[c] = "watching" /\ run'[c] = Outcome(job[NameOf(c)].phase)
                 /\ UNCHANGED vars
<1>1. CASE UNCHANGED <<script, run>>
  BY <1>1
<1>2. CASE Exit \/ Crash
  BY <1>2 DEF Exit, Crash, Ends, ScriptInv, ScriptTypeOK
<1>3. ASSUME NEW c \in Creates,
             Run(c) \/ RunRefused(c) \/ RunFails(c) \/ RunAccepted(c)
             \/ ConnectFails(c) \/ StreamEnds(c)
      PROVE  /\ UNCHANGED script
             /\ \A d \in Creates : run'[d] = run[d]
                                   \/ run'[d] \notin {"resolved", "watching"}
  BY <1>3 DEF Run, RunRefused, RunFails, RunAccepted, ConnectFails, StreamEnds,
              RunBecomes, ScriptInv, ScriptTypeOK
<1>4. ASSUME NEW c \in Creates, Connect(c)
      PROVE  /\ UNCHANGED <<script, vars>>
             /\ \A d \in Creates :
                  \/ run'[d] = run[d] \/ run'[d] = "rejected"
                  \/ run'[d] = "watching" /\ event # "deleted" /\ Exists(NameOf(d))
  BY <1>4 DEF Connect, RunBecomes, ScriptInv, ScriptTypeOK
<1>5. ASSUME NEW c \in Creates, WatchStatus(c)
      PROVE  /\ UNCHANGED <<script, vars>>
             /\ \A d \in Creates :
                  \/ run'[d] = run[d] \/ run'[d] \notin {"resolved", "watching"}
                  \/ run'[d] \in {"resolved", "watching"} /\ event # "deleted"
                     /\ run[d] = "watching" /\ run'[d] = Outcome(job[NameOf(d)].phase)
  BY <1>5 DEF WatchStatus, RunBecomes, ScriptInv, ScriptTypeOK
<1> QED BY <1>1, <1>2, <1>3, <1>4, <1>5 DEF ScriptNext, ScriptStep, JobsStep, scriptVars

(* A script that ends without a rejection has run all its jobs: the first  *)
(* call of run that is not resolved had its turn.                          *)
LEMMA NoneWaitsForItself ==
  ASSUME ScriptTypeOK,
         \A c \in Creates : run[c] = "resolved" \/ (run[c] = "idle" /\ ~Turn(c))
  PROVE  \A c \in Creates : run[c] = "resolved"
<1> DEFINE T == {c \in Creates : run[c] # "resolved"}
<1> SUFFICES ASSUME T # {} PROVE FALSE
  OBVIOUS
<1>1. PICK c \in T : \A d \in T : ~(d < c)
  <2> DEFINE R == OpToRel(<, Nat)
  <2>1. T \subseteq Nat
    BY CreatesAssumption
  <2>2. IsWellFoundedOn(R, Nat)
    BY NatLessThanWellFounded
  <2>3. \A m, n \in Nat : m < n => <<m, n>> \in R
    BY DEF OpToRel
  <2> HIDE DEF T, R
  <2>4. \E x \in T : \A y \in T : ~(<<y, x>> \in R)
    BY <2>1, <2>2, WFMin
  <2> QED BY <2>1, <2>3, <2>4
<1>2. \A d \in Creates : d < c => run[d] = "resolved"
  BY <1>1, CreatesAssumption
<1> QED BY <1>1, <1>2 DEF Turn

LEMMA NextScriptInv == ScriptInv /\ [ScriptNext]_scriptVars => ScriptInv'
<1> SUFFICES ASSUME ScriptInv, [ScriptNext]_scriptVars PROVE ScriptInv'
  OBVIOUS
<1>1. /\ JobInv /\ ScriptTypeOK /\ SpecsBegun /\ BegunInTurn
      /\ RunTellsTheTruth /\ WatchedJobsExist /\ SuccessMeansAllJobs
  BY DEF ScriptInv
<1>2. [Next]_vars /\ ScriptTypeOK'
  BY <1>1, ScriptStepIsJobStep, ScriptTypes
<1>3. JobInv'
  BY <1>1, <1>2, NextJobInv
<1>4. occurred \subseteq occurred'
  BY <1>2, OccurrencesStay
<1>5. \A c \in Creates : /\ Begun(c) => Begun(c)'
                         /\ Begun(c)' => Begun(c) \/ Run(c)
  BY <1>1, OnlyRunBegins
<1>6. /\ script'.mode = script.mode /\ \A c \in Creates : NameOf(c)' = NameOf(c)
      /\ \A c \in Creates : NameOf(c) \in Names
  BY <1>1, WhatTheScriptSees DEF NameOf, ScriptTypeOK
<1>7. SpecsBegun'
  BY <1>1, <1>2, <1>5, SpecsHandedOn
<1>8. BegunInTurn'
  <2> SUFFICES ASSUME script.mode = "each", NEW c \in Creates, NEW d \in Creates,
                      Begun(c)', d < c
               PROVE  <<NameOf(d), "SUCCEEDED">> \in occurred
    BY <1>4, <1>6 DEF BegunInTurn
  <2>1. CASE Begun(c)
    BY <1>1, <2>1 DEF BegunInTurn
  <2>2. CASE Run(c)
    BY <1>1, <2>2 DEF Run, Turn, RunTellsTheTruth
  <2> QED BY <1>5, <2>1, <2>2
<1>9. RunTellsTheTruth'
  <2> SUFFICES ASSUME NEW c \in Creates, run'[c] = "resolved"
               PROVE  <<NameOf(c), "SUCCEEDED">> \in occurred
    BY <1>4, <1>6 DEF RunTellsTheTruth
  <2>1. CASE run[c] = "resolved"
    BY <1>1, <2>1 DEF RunTellsTheTruth
  <2>2. CASE Outcome(job[NameOf(c)].phase) = "resolved"
    <3>1. job[NameOf(c)].phase = "SUCCEEDED"
      BY <2>2 DEF Outcome
    <3> QED BY <1>1, <1>6, <3>1 DEF JobInv, ReportsTruthful, JobRecordIsTruthful,
                                    ObservedPhases
  <2> QED BY <2>1, <2>2, WhatTheScriptSees
<1>10. WatchedJobsExist'
  <2> SUFFICES ASSUME NEW c \in Creates, run'[c] = "watching", event' # "deleted"
               PROVE  Exists(NameOf(c))'
    BY <1>6 DEF WatchedJobsExist
  <2>1. CASE run[c] = "watching"
    <3>1. event # "deleted" /\ Exists(NameOf(c))
      BY <1>1, <1>2, <2>1, JobsStay DEF WatchedJobsExist
    <3>2. \A n \in Names : Exists(n) => Exists(n)'
      BY <1>1, <1>2, JobsStay
    <3> QED BY <1>6, <3>1, <3>2
  <2>2. CASE Exists(NameOf(c)) /\ UNCHANGED vars
    BY <1>6, <2>2 DEF vars, Exists
  <2> QED BY <2>1, <2>2, WhatTheScriptSees
<1>11. SuccessMeansAllJobs'
  <2> SUFFICES ASSUME script'.pc = "succeeded", NEW c \in Creates
               PROVE  <<NameOf(c), "SUCCEEDED">> \in occurred
    BY <1>4, <1>6 DEF SuccessMeansAllJobs
  <2>1. CASE script.pc = "succeeded"
    BY <1>1, <2>1 DEF SuccessMeansAllJobs
  <2>2. CASE Exit
    <3>1. \A d \in Creates : run[d] # "rejected"
      BY <1>1, <2>2 DEF Exit, Ends, ScriptTypeOK
    <3>2. \A d \in Creates : run[d] = "resolved" \/ (run[d] = "idle" /\ ~Turn(d))
      BY <2>2, <3>1 DEF Exit, Settled
    <3>3. run[c] = "resolved"
      BY <1>1, <3>2, NoneWaitsForItself
    <3> QED BY <1>1, <3>3 DEF RunTellsTheTruth
  <2>3. CASE Crash
    BY <1>1, <2>3 DEF Crash, Ends, ScriptTypeOK
  <2> QED BY <2>1, <2>2, <2>3, WhatTheScriptSees
<1> QED BY <1>2, <1>3, <1>7, <1>8, <1>9, <1>10, <1>11 DEF ScriptInv

-----------------------------------------------------------------------------
LEMMA ScriptInvariant == ScriptSpec => []ScriptInv
BY InitScriptInv, NextScriptInv, PTL DEF ScriptSpec

(* Script implements JobLifecycle: a script's jobs, whatever it does with  *)
(* them and however it ends, are jobs as the API server keeps them.        *)
THEOREM ScriptsRunJobs == ScriptSpec => Spec
<1>1. ScriptInit => Init
  BY DEF ScriptInit
<1>2. ScriptInv /\ [ScriptNext]_scriptVars => [Next]_vars
  BY ScriptStepIsJobStep DEF ScriptInv
<1> QED BY <1>1, <1>2, ScriptInvariant, PTL DEF ScriptSpec, Spec

(* So what is proved of jobs holds of those that a script runs.            *)
THEOREM JobsOfScripts ==
  ScriptSpec => /\ []TypeOK /\ []JobRecordIsTruthful
                /\ []OwnEnvironment /\ []RunsRecordedSpec
BY ScriptsRunJobs, JobsTypeCorrect, JobRecordsAreTruthful, PodsOwnTheirEnvironment,
   PodsRunTheRecordedSpec

(* The promise of run resolves only when a pod of the job has succeeded.   *)
THEOREM RunIsTruthful == ScriptSpec => []RunTellsTheTruth
<1>1. ScriptInv => RunTellsTheTruth
  BY DEF ScriptInv
<1> QED BY <1>1, ScriptInvariant, PTL

(* No pod runs a job of runEach before the earlier ones have succeeded,    *)
(* however late jobs.Create and jobs.Start are with it.                    *)
THEOREM RunEachIsInOrder == ScriptSpec => []OneAfterTheOther
<1>1. ScriptInv => OneAfterTheOther
  BY DEF ScriptInv, SpecsBegun, BegunInTurn, OneAfterTheOther
<1> QED BY <1>1, ScriptInvariant, PTL

(* A worker that exits with 0 has seen all its jobs succeed.               *)
THEOREM WorkersSucceedWithTheirJobs == ScriptSpec => []SuccessMeansAllJobs
<1>1. ScriptInv => SuccessMeansAllJobs
  BY DEF ScriptInv
<1> QED BY <1>1, ScriptInvariant, PTL

(* The stream of a job's statuses never meets a job without a status.      *)
THEOREM StreamsHaveTheirJob == ScriptSpec => []WatchedJobsExist
<1>1. ScriptInv => WatchedJobsExist
  BY DEF ScriptInv
<1> QED BY <1>1, ScriptInvariant, PTL
=============================================================================
