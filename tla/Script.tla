-------------------------------- MODULE Script --------------------------------
(***************************************************************************)
(* A worker's script and the jobs it runs: Job.run of the worker's         *)
(* library, a Group that runs jobs one after the other or all at once, the *)
(* stream of job statuses that the API server sends to each of them, and   *)
(* the exit code of the worker.                                            *)
(*                                                                         *)
(* It EXTENDS JobLifecycle: each call of run makes one of its Create calls,*)
(* and everything else that happens to jobs goes on around it.  The stream *)
(* may end, break with an error, or go silent at any time.                 *)
(*                                                                         *)
(*   script  how the script runs its jobs, their names, and whether the    *)
(*           worker's process runs or how it ended                         *)
(*   run     where each call of run is                                     *)
(***************************************************************************)
EXTENDS JobLifecycle

CONSTANT Scripts   \* how a script runs its jobs, and their names

ASSUME CreatesAssumption == Creates \subseteq Nat  \* in the script's order
ASSUME ScriptsAssumption ==
  Scripts \subseteq [mode : {"each", "all"}, program : [Creates -> Names]]

VARIABLES script, run

scriptVars == <<vars, script, run>>

(* A call of run puts its job, connects and watches; the promise settles.  *)
Active == {"put", "connect", "watching"}
Settled == {"resolved", "rejected"}

NameOf(c) == script.program[c]

Running == script.pc = "running"

RunBecomes(c, pc) == run' = [run EXCEPT ![c] = pc] /\ UNCHANGED script

-----------------------------------------------------------------------------
ScriptInit ==
  /\ Init
  /\ \E s \in Scripts : script = [mode |-> s.mode, program |-> s.program,
                                   pc |-> "running"]
  /\ run = [c \in Creates |-> "idle"]
  /\ \A c \in Creates : creator[c].name = NameOf(1)  \* of no meaning yet

-----------------------------------------------------------------------------
(* Group.runEach awaits each job before it runs the next; Group.runAll     *)
(* runs them all at once.                                                  *)

(* Seeded fault: the promise of run is not awaited.                        *)
Turn_NotAwaited(c) == \A d \in Creates : d < c => run[d] # "idle"

Turn(c) ==
  script.mode = "each" => \A d \in Creates : d < c => run[d] = "resolved"

(* Job.run: the PUT reaches the API server.                                *)
Run(c) ==
  /\ Running /\ run[c] = "idle" /\ Turn(c)
  /\ CreateJob(c, NameOf(c))
  /\ RunBecomes(c, "put")

(* It is turned down: there is a job of the name, or no event.             *)
RunRefused(c) ==
  /\ Running /\ run[c] = "idle" /\ Turn(c)
  /\ event = "deleted" \/ Exists(NameOf(c))
  /\ RunBecomes(c, "rejected")
  /\ UNCHANGED vars

RunAccepted(c) ==
  /\ Running /\ run[c] = "put" /\ creator[c].pc = "accepted"
  /\ RunBecomes(c, "connect")
  /\ UNCHANGED vars

(* It failed, or its answer is lost: the job may exist all the same.       *)
RunFails(c) ==
  /\ Running /\ run[c] = "put"
  /\ RunBecomes(c, "rejected")
  /\ UNCHANGED vars

-----------------------------------------------------------------------------
(* Job.wait: the monitor.                                                  *)

(* The server looks for the job once before it answers.                    *)
Connect(c) ==
  /\ Running /\ run[c] = "connect"
  /\ RunBecomes(c, IF event # "deleted" /\ Exists(NameOf(c)) THEN "watching"
                   ELSE "rejected")
  /\ UNCHANGED vars

(* The server answers with an error.                                       *)
ConnectFails(c) ==
  /\ Running /\ run[c] = "connect"
  /\ RunBecomes(c, "rejected")
  /\ UNCHANGED vars

(* Seeded fault: any phase that is not one of failure ends the wait.       *)
Outcome_NotFailed(phase) == IF phase = "FAILED" THEN "rejected" ELSE "resolved"

(* The branches of the switch fall through, but a promise settles once.    *)
Outcome(phase) ==
  CASE phase = "SUCCEEDED" -> "resolved"
    [] phase = "FAILED" -> "rejected"
    [] OTHER -> "watching"

(* Seeded fault: only the statuses of jobs that are not over are sent.     *)
WatchStatus_OnlyRunning(c) ==
  /\ Running /\ run[c] = "watching" /\ event # "deleted"
  /\ job[NameOf(c)].phase \notin Ended
  /\ RunBecomes(c, Outcome(job[NameOf(c)].phase))
  /\ UNCHANGED vars

(* A tick of the server's goroutine: it reads the event again and sends    *)
(* the job's status; without an event it ends the stream, and the monitor  *)
(* starts a new one.                                                       *)
WatchStatus(c) ==
  /\ Running /\ run[c] = "watching"
  /\ RunBecomes(c, IF event = "deleted" THEN "connect"
                   ELSE Outcome(job[NameOf(c)].phase))
  /\ UNCHANGED vars

StreamEnds(c) ==
  /\ Running /\ run[c] = "watching"
  /\ RunBecomes(c, "connect")
  /\ UNCHANGED vars

-----------------------------------------------------------------------------
(* The process ends when nothing keeps it: no call of run is under way,    *)
(* and none is to come.  A rejection that nobody handles sets the code.    *)
(* Its promises go with it.                                                *)
Ends(pc) ==
  /\ script' = [script EXCEPT !.pc = pc]
  /\ run' = [c \in Creates |-> "idle"]
  /\ UNCHANGED vars

(* Seeded fault: the process ends with the first job that is done.         *)
Exit_Early ==
  /\ Running /\ \E c \in Creates : run[c] \in Settled
  /\ Ends(IF \E c \in Creates : run[c] = "rejected" THEN "failed"
          ELSE "succeeded")

Exit ==
  /\ Running
  /\ \A c \in Creates : run[c] \in Settled \/ (run[c] = "idle" /\ ~Turn(c))
  /\ Ends(IF \E c \in Creates : run[c] = "rejected" THEN "failed"
          ELSE "succeeded")

(* An error event of a stream that nobody handles, or the pod is deleted.  *)
Crash ==
  /\ Running
  /\ Ends("failed")

-----------------------------------------------------------------------------
MonitorStep(c) == RunAccepted(c) \/ Connect(c)

ScriptStep ==
  \/ \E c \in Creates : \/ Run(c) \/ RunRefused(c) \/ RunFails(c)
                        \/ RunAccepted(c) \/ Connect(c) \/ ConnectFails(c)
                        \/ WatchStatus(c) \/ StreamEnds(c)
  \/ Exit \/ Crash

(* All that is not the script's Create calls' beginning.                   *)
JobsStep ==
  /\ \/ \E c \in Creates : StoreJob(c) \/ PublishJob(c) \/ CreateFails(c)
     \/ \E s \in Starts : CreateJobSecret(s) \/ CreateJobPod(s) \/ StartFails(s)
     \/ \E n \in Names : \/ \E s \in Starts : Start(s, n)
                         \/ \E p \in ObservedPhases : UpdateStatus(n, p)
                                                      \/ LoseReport(n, p)
     \/ Withdraw \/ DeletePods \/ DeleteSecrets \/ CleanupFails
     \/ \E k \in Objects : \/ PodGone(k) \/ SyncJobPod(k)
                           \/ \E p \in Ended : ContainerEnds(k, p)
  /\ UNCHANGED <<script, run>>

ScriptNext == ScriptStep \/ JobsStep

Fairness ==
  \A c \in Creates : /\ WF_scriptVars(MonitorStep(c))
                     /\ SF_scriptVars(WatchStatus(c))

ScriptSpec == ScriptInit /\ [][ScriptNext]_scriptVars /\ Fairness

-----------------------------------------------------------------------------
(* Types.                                                                  *)
ScriptTypeOK ==
  /\ script \in [mode : {"each", "all"}, program : [Creates -> Names],
                 pc : {"running", "succeeded", "failed"}]
  /\ run \in [Creates -> {"idle"} \cup Active \cup Settled]

(* The promise of run tells the truth: it resolves only when a pod of the  *)
(* job has succeeded.                                                      *)
RunTellsTheTruth ==
  \A c \in Creates : run[c] = "resolved" =>
                       <<NameOf(c), "SUCCEEDED">> \in occurred

(* Jobs of runEach do not overlap: no pod runs a job of the script before  *)
(* every earlier job has succeeded.                                        *)
OneAfterTheOther ==
  script.mode = "each" =>
    \A k \in Objects, c, d \in Creates :
      pod[k].spec = c /\ d < c => <<NameOf(d), "SUCCEEDED">> \in occurred

(* A worker that succeeds has seen each of its jobs succeed.               *)
SuccessMeansAllJobs ==
  script.pc = "succeeded" =>
    \A c \in Creates : <<NameOf(c), "SUCCEEDED">> \in occurred

(* The server's goroutine dereferences the job's status without another    *)
(* check: as long as there is an event, a job that is watched is in it.    *)
WatchedJobsExist ==
  \A c \in Creates : run[c] = "watching" /\ event # "deleted" =>
                       Exists(NameOf(c))

(* The end of a job is noticed: no script waits for ever for a job that is *)
(* recorded as ended, as long as its stream does not go silent.            *)
EndIsNoticed ==
  \A c \in Creates :
    ~<>[](/\ Running /\ run[c] \in {"connect", "watching"}
          /\ job[NameOf(c)].phase \in Ended)
=============================================================================
