# Brigade 2 ("brignext"): TLA+ models, checks and proofs

This directory holds a formal model of the parts of `src/v2` that decide what
happens to an event, who may ask for it and what a client gets to see: the API
server's projects, events, workers and jobs services, the Kubernetes substrate they
drive, the scheduler that dispatches workers and jobs, the observer that reports
what became of them, the worker's script that runs jobs, the sign-in of users with
the filter every request passes, and the lists and logs a client reads.

* The modules are read side by side with the Go code; `PROJECT.json` ("map")
  gives the file and the lines each definition stands for.
* TLC checks every property on small instances (`MC*.tla`, `*.cfg`).
* TLAPS proves every invariant and every action property of the passing runs for
  every value of the constants (`*Proofs.tla`), that `Scheduler` implements
  `WorkerLoops` and `WorkerCapacity`, and that `Script` implements `JobLifecycle`.
  What is left to TLC is liveness.

Reading order: `EventLifecycle`, `WorkerLoops`, `WorkerCapacity`, `Scheduler`,
`JobLifecycle`, `Script`, `Projects`, `Accounts`, `Listings`, `LogStreams`,
`ClientReads`, and then the proof modules.

## 1. The system

Brigade runs user scripts ("workers", and the "jobs" they spawn) in Kubernetes
in answer to events. No transaction spans its stores: MongoDB holds documents,
an AMQP broker holds queues of work, Kubernetes holds pods, claims and secrets.
Four kinds of process work on them:

```
  clients, gateways --REST--> API server --+--> MongoDB   (events, projects, ...)
  worker pods (jobs) --REST-->             +--> broker    workers.<project>, jobs.<project>
                                           +--> Kubernetes (pods, PVCs, secrets)
  scheduler:  broker --> loops --REST--> API server (Get, workers.Start, jobs.Start)
              Kubernetes informer --> counts of active pods --> capacity managers
  observer:   Kubernetes informer --> REST --> API server (UpdateStatus)
```

| Component (code under `src/v2`) | State | Operations | What is hard | What makes it correct | Model |
|---|---|---|---|---|---|
| Events and workers services (`apiserver/internal/core/events.go`, `workers.go`, `mongodb/events_store.go`, `workers_store.go`) | event documents with the worker's phase, cancellation and logical-deletion times | Create, Start, Cancel, CancelMany, Delete, DeleteMany, UpdateStatus | each is several calls to several stores, no transaction, no lock; checks are made on copies | the record tells the truth, cancellation spares results, nothing of a withdrawn event stays behind, a worker runs once | `EventLifecycle` |
| Jobs service (`jobs.go`, `mongodb/jobs_store.go`) | `worker.jobs.<name>` in the event's document | Create, Start, UpdateStatus | two names may share a Kubernetes object; check and write are apart | a pod has its own environment and the recorded specification | `JobLifecycle` |
| Substrate (`apiserver/internal/core/kubernetes/substrate.go`) | pods, PVCs, secrets, namespaces, queues | Schedule/Start Worker/Job, DeleteWorkerAndJobs, Create/DeleteProject | partial failure between its own calls | see events | in the services' modules |
| Scheduler loops (`scheduler/project_loops_manager.go`, `worker_loop.go`, `job_loop.go`) | one goroutine per project, a cancel function each | read, check, wait for a slot, start, accept | redelivery, stop in the middle, lost answers | no event is lost, no loop is left over | `WorkerLoops` |
| Scheduler capacity (`capacity_manager.go`, `worker_sync.go`, `job_sync.go`) | the set of counting pods, an unbuffered channel, a ticker | count, offer, sleep; two listings, additions and updates of pods | the count is stale when used; deletions are not heard, nor what happens between the listings or while the watch is broken | the limit is exceeded by a known amount at most | `WorkerCapacity` |
| Scheduler as a whole (`scheduler.go`) | goroutines, `errCh` | Run | both of the above under restarts | events are eventually dispatched | `Scheduler` |
| Observer (`observer/*.go`) | names of finished pods | report pods' phases | late, lost, reordered reports | see events | as the reports in `EventLifecycle`, `JobLifecycle` |
| Projects service (`projects.go`, `mongodb/projects_store.go`) | project documents, namespaces, roles | Create, Update, Delete, ListSubscribers | IDs are used again; store and cluster disagree after a failure | a project has a namespace of its own, its events go with it, none run in its successor | `Projects`; its loops in `WorkerLoops` |
| Sessions, users, service accounts, system roles, token filter (`apiserver/internal/authx`, its `mongodb`, `lib/restmachinery/authn`) | documents of users, sessions and service accounts | sign-in, root sessions, expiry, logout, Lock, Unlock, tokens, Grant, Revoke; the filter of each request | sign-in is four store calls, Lock two, the filter two; they interleave and fail | a locked user stays out, a lock ends the sessions, a session has its user, there is an administrator | `Accounts` |
| Worker script runtime (`worker/src/brigadier`), status watch (`core/jobs.go`, `core/rest/jobs_endpoints.go`) | a promise per job; a stream per watched job | Job.run, monitor, groups, exit; the tick of the watch | lost answers, streams that end, statuses that arrive late | a promise tells the truth, runEach keeps the order, exit code 0 means that all jobs succeeded | `Script` |
| Lists (`cli/*_commands.go`, `mongodb/*_store.go`, `kubernetes/secrets_store.go`) | a continue value, at the client | list, page by page | the collection changes between two pages and between the two queries of one | nothing twice, nothing left out | `Listings` |
| Logs (`core/logs.go`, `kubernetes/logs_store.go`, `mongodb/logs_store.go`, `cli/logs_command.go`) | none; a cursor or a stream per client | Stream, warm or cool, followed or not | the log grows, its pod goes, old lines are overwritten, errors of a cursor go unnoticed | a client sees the log in order and to its end | `LogStreams` |
| A run of the CLI | - | one list or one log | - | both of the above | `ClientReads` |
| HTTP machinery, crypto, configuration, charts | none of their own | input and output | - | - | no |

Authorization is a stub that lets everything pass (`authx/authorizer.go`), so no
action has a guard for it.

`PROJECT.json` lists, under "hazards", every place in this code where an order
of steps, a failure or a limit is hard to reach with a test, and the property
that watches over it or the reason that none does yet.

## 2. The modules

**`EventLifecycle`**: events, workers and their Kubernetes objects. Every API
request is a program counter (`req[r].pc`) that moves through the store and
substrate calls of its handler; one call is one atomic action, and everything
interleaves between two of them. `Create` (one per event, since the ID is a
fresh UUID) is `CreateEvent`, `CreateEventSecret`, `PublishWorker`; `Start` is
the check of the phase, `CreateWorkspacePVC`, `CreateWorkerPod`; `Cancel` is
`CancelPending` then `CancelRunning`; `CancelMany` is two updates and a search by
cancellation time; `DeleteMany` is mark, find, purge; each of them then runs
`DeletePods`, `DeletePVCs`, `DeleteSecrets` per event. Any call may fail
(`CreateFails`, `CleanupFails`), and any request may end anywhere (`Abandon`: an
error, a client that has gone, a crash of the API server). The kubelet and the
observer are `PodRuns`, `PodEnds`, `PodLost`, `PodGone`, `Observe`,
`UpdateStatus` and `LoseReport`. Reports are a set: they arrive in any order,
late, or never. Five auxiliary variables (`occurred`, `runs`, `withdrawn`,
`raced`, `dropped`) record history; no guard reads them.

**`WorkerLoops`**: `manageProjectLoops` and `runWorkerLoop`, per project, with a
broker that delivers at least once, calls that fail before or after the API
server has taken them (`orphans`), stops, crashes and restarts of the process.

**`WorkerCapacity`**: `manageWorkerCapacity` with its unbuffered channel and its
one-slot ticker, and what fills the set it counts. Pods are listed twice at a start:
by `SyncExistingWorkerPods`, before anything else, and by the informer for itself
(`ListAndWatch`) some time later; what happens in between, or while the watch is
broken (`WatchBreaks`), the informer is not told. What it is told waits in `notices`
for `syncWorkerPod`; of deletions there is no handler. The process ends with
`ProcessStops`. In its own specification the loops are any environment that creates a
pod only with a slot it was granted.

**`Scheduler`** composes the two: it EXTENDS `WorkerLoops`, INSTANCEs
`WorkerCapacity`, and joins their actions where the code does (a loop takes a slot
when the manager offers one; a Start call that succeeds creates a pod; both
end and start with the process). `CapacityRespected == C!Spec` says that the
composition implements the abstract environment of `WorkerCapacity`.

**`JobLifecycle`**: the jobs of one event: Create, Start, UpdateStatus, with the
event's cancellation and deletion, and job names that differ in case only.

**`Script`** EXTENDS `JobLifecycle` with the worker that asks for the jobs. `Run` is
one call of `Job.run`: it makes one of `JobLifecycle`'s Create calls (`CreateJob`),
and everything else that happens to jobs goes on around it (`JobsStep`).
`RunRefused`, `RunFails` and `RunAccepted` are the answers to the PUT, `Connect` and
`ConnectFails` those to the monitor's GET, `WatchStatus` a tick of the server's
goroutine, `StreamEnds` a stream that ends early and is connected anew. `Turn` is
`Group.runEach` or `runAll`; `Exit` and `Crash` end the process.

**`Projects`**: projects across the two stores. An ID can be created, deleted and
created again; the namespace, drawn anew by each Create call, tells the
incarnations apart. Create is `StoreProject`, `CreateNamespace`,
`CreateNamespaceObjects`, `AssignRoles`; Update is a read and `UpdateProject`;
Delete is a read, `DeleteDoc`, `DeleteEvents`, `DeleteNamespace`. `events.Create` is
here with its fan-out: `PostToSubscribers` lists the projects once, and
`GetProject`, `StoreEvent`, `CreateEventSecret`, `PublishEvent` take them in turn.
A worker's Start of what is in a queue is `Start` (the event is read), `GetProjectOfEvent`
and `CreateWorkerPod`, in the namespace that the project had when it was read.

**`Accounts`**: who gets in. `sessions.Authenticate` is `Authenticate` (the session
found by its OAuth2 state), `GetUser`, `CountUsers`, `CreateUser`,
`AuthenticateSession`; `users.Lock` is `LockUser` and `DeleteSessions`; the token
filter is `FindServiceAccount`, or `FindSession` and `FindUser`. `LoginFails`,
`LockFails` and `Restart` end calls anywhere. The rest are single updates. Three
auxiliary fields record history: the sessions a user had when a lock took effect
(`had`), whether a request's user was locked when it began (`shut`), and whether an
administrator lost the role (`revoked`).

**`Listings`**: one list command while its collection changes: `Find...` is the first
query of the API server's store, `CountRemaining` the second, and `userList`,
`projectList`, ... the command that asks for the next page. Users, service accounts and
projects are listed by ID, events by their creation time, secrets by key.
**`LogStreams`**: one stream of one container's lines, while lines are
begun, ended, stored and overwritten and the pod goes. `OpenWarm`, `ReadLine`, `ReadEOF`
read the pod's log, `FallBack`, `FindLive`, `TryNext`, `NoneAvailable` the collection. The
faults are told apart by what becomes of them: `OpenFails`, `ReadError` and
`ConnectionLost` reach the client as errors, `FindFails` and `DecodeFails` end the
stream in order, and `CursorFails` goes unnoticed: the cursor has nothing more to read,
and nobody asks it why. **`ClientReads`** is a run of the
CLI, which does the one or the other; the two share no state, so that one run of TLC
checks both.

The job half of the scheduler (`job_loop.go`, `job_sync.go`, and a
second capacity manager) repeats the worker half with jobs for workers; one model stands
for both.

Definitions whose comment begins with "Seeded fault" are not part of any
specification. Each is a plausible bug in the definition that follows it, and
shows that the property it belongs to fails if the code has that bug.

### Abstractions

* `UpdateMany`, `DeleteMany` and `Find` of the store act on all documents at
  once. MongoDB locks document by document; the properties are about one event
  each, and the steps of different events commute.
* A time stamp is the request that wrote it. Code that searches by the time
  stamp finds what that request marked; that two requests read the same
  millisecond is left out.
* Selectors are sets of phases within one project.
* `eventsStore.Get` does not look at the logical-deletion time
  (`mongodb/events_store.go`), so Start, Cancel and Delete have no guard on
  `deleted`.
* A pod is "Running" at its node's word; the pod mounts the event secret and the
  workspace, so it does not leave "Pending" without them. A pod that is deleted
  is marked first and disappears later, and the observer skips it from then on.
* In `WorkerLoops` a loop that was told to stop has ended when its project's next
  loop is due (the manager runs every 30 s), and Start is one step, since its
  races are in `EventLifecycle`.
* In `JobLifecycle` a second withdrawal of the event restarts its one cleanup.
* In `Projects` the caller and the specification of a request are chosen in the
  step that looks at them. Of the seven objects in a namespace only the secret
  `project-secrets`, the last one, is read by the code modelled, so they are one
  step. A namespace that is deleted accepts nothing from then on. A Start does
  not look at the phase, and events are only removed with their project: their own life
  is in `EventLifecycle`. Roles are recorded but nothing is said about them, since no
  request is authorized.
* In `WorkerCapacity` the informer's list and the watch that begins with it are one
  step, as the watch begins at the list's version. A watch that breaks and can be resumed
  where it was is no step. A state that is the last one in the informer's queue already is
  not queued again, since it changes nothing. `AbruptDeletes` is whether a pod may
  vanish without an update that carries its deletion timestamp. The theorems hold for
  all values of the constants.
* In `Script` the process's promises go with it. A stream that is open but silent
  is `WatchStatus` not being taken. A call of run that is rejected stands for all
  reasons at once.
* In `Accounts` a session ID stands for its token and its OAuth2 state; the
  identity provider answers with any user. A request begins when the filter reads the
  session: nothing before it depends on state. The fixed tokens of the scheduler, the
  observer and the workers are compared with configuration or with one document, and
  are left out. Users are never deleted, so the check that one exists and the update
  of its roles are one step.
* In `Listings` IDs and keys are numbers in their order. Events created in one
  millisecond are found in any order, as the query does not sort them further.
* In `LogStreams` a line is its number; the lines of other containers are only seen
  in that they overwrite (`Overwrite`). The log aggregator is not part of the program: it
  is taken to store each line once and in order, some time after it was written, an
  unfinished one when its container is gone. A cursor is broken when the line it is at,
  or is to read next, is overwritten; what it fetched ahead is left out.

## 3. What TLC checks

Bounds are the sizes of the constant sets and the `Max*` constants. There are three
state constraints, and the theorems have none of them. `OneKind` in `accounts` leaves
out states with both a service account and a session that was used, since the two meet
only in the filter, which asks for one and then for the other. `OneEnd` in
`worker_capacity` and `scheduler_capacity` lets one pod end, since what is said of pods that
are over is said of each by itself, and the rest is about pods that run or are created;
`OneIdle` in `worker_capacity` keeps the fourth event for runs without a restart, the only
ones that `OvershootBounded` speaks of. Symmetry is used for safety only.

| Run | Question | Instance | Result |
|---|---|---|---|
| `event_races` | Do three concurrent requests on an event, with every failure and late report, keep the record true, spare results, leave nothing unexplained behind and run a worker once? | 1 event, 3 requests; 0.95 M states | holds |
| `event_cleanup` | Is a withdrawn event with a workspace eventually gone from the cluster, its claim included? | 1 event with a workspace, 2 requests, fairness | holds |
| `delete_many` | Does DeleteMany delete what it selected "unconditionally"? | 1 event, 2 requests | **violated** |
| `worker_capacity` | How far is the limit exceeded, what does the count miss, and which pods that are over keep their place? | 4 events, capacity 1, prompt starts, pods that vanish, watches that break, 1 restart; 1.5 M states | holds |
| `worker_loops` | Can an event be dropped in silence, can a loop stay behind? | 2 projects, 2 events in one queue, page of 1, 1 crash | holds |
| `scheduler_capacity` | Do the loops take slots as `WorkerCapacity` assumes? (refinement) | 2 projects, 1 event each, failing calls, 1 crash; 2.3 M states | holds |
| `scheduler_dispatch` | Is every event dispatched in the end, as long as pods end? | 1 project, 2 events, capacity 1, 1 crash, fairness; 0.5 M states | holds |
| `script_jobs` | Own environment, recorded specification and true records, with a script that waits for its jobs: does run tell the truth, does runEach keep the order, does exit code 0 mean success, is a job's end noticed? | 2 names of one object, 2 calls of run, 2 Starts, 3 scripts, fairness; 0.95 M states | holds |
| `projects` | Do store and cluster agree on the incarnations of a project, whatever overlaps or fails, and do its events stay with it? | 2 IDs, 2 Creates, 1 Update, 2 Deletes, 1 Post, 1 Start; 5.3 M states | holds |
| `accounts` | Do locked users stay out and locks end sessions, and is there an administrator, whatever sign-ins, locks and requests overlap or fail? | 2 users, 2 sessions, 2 sign-ins, 1 lock, 1 request, 1 service account; 2.4 M states | holds |
| `reads` | Does a list show everything once, and a log its lines in order and to the end, while both change and calls fail? | 4 items, pages of 2, 3 instants; 3 lines; fairness; 0.28 M states | holds |
| `subscription_labels` | Must an event have a subscription's labels to match it? | 1 subscription, 2 labels | **violated** |

Why these bounds: a race in `EventLifecycle` needs a request that is past its check, one
that overtakes it, and, for the worst cases, one that starts again: three. `event_races`
has no workspace: a second Start of an event with one fails on the claim that exists,
which would hide whether the pod's name protects `SingleExecution`; `event_cleanup` has
the claim. Reports are not bounded by a number but by the set of phases; the same phase
may be sent any number of times. The actions of `EventLifecycle` that work on many
events at once, and their effect on two events at a time, are covered by the proofs,
which hold for every set of events. In `WorkerCapacity` the overshoot is at most two
over capacity 1, and four events leave room for a third, which TLC does not find; with
`Capacity + 1` for the bound it finds a counterexample, so the bound is tight; that it
holds for every capacity is a theorem. What the count misses or keeps needs a pod,
another that takes its place, and one that waits: three. The seeded faults of all three
properties are found within these constraints. The runs of `Scheduler` have watches that
do not break and pods that do not vanish (`WatchMayBreak` and `AbruptDeletes` are
FALSE): the loops never look at the informer, and `LoopsRespectCapacity` holds with
both; `EventuallyDispatched` is checked without them, but for a restart's two listings.
One crash lets a message be delivered again to a loop that never saw it; a page of one
project makes a project beyond the first page exist. Two job names, two Creates and two
Starts are the least that can collide; three scripts stand for the ways two jobs can
meet: at once with one object name, one after the other with one object name, one after
the other with one name. In `Accounts` two sign-ins are what a count of users can be
stale for, and each of the other calls matters to a sign-in or to a request one at a
time. In `Listings` four items make two full pages, so that what is added or vanishes
can do so before, at and after the continue value; three instants let two events share
one and a third be older. In `Projects` two Deletes and two Creates make one Delete
remove the incarnation that follows the one it read; a second ID makes the fan-out a
loop that can fail half way; one Start has three steps, between which a project can go
and come again. In `LogStreams` three lines are one that is read, one that is there and
one that is new, each of which can be overwritten, unfinished or not stored yet.

`OvershootBounded` needs two hypotheses that the code does not ensure, and names
them: `PromptStarts` (a start with a slot reaches the informer within one period
of the ticker, five seconds) and no restart before. Without them no bound exists,
since the manager counts what it sees.

### Fairness

* `EventLifecycle`: weak fairness of `HandlerStep`: a handler in Go runs on
  until its calls have returned, or, with `Abandon`, fails. Weak fairness of `PodGone`:
  Kubernetes removes what it was told to. Clients, the kubelet and the observer
  owe nothing.
* `Scheduler`: weak fairness of the goroutines' own steps, of the ticker and of the
  informer, of the process's end once told and of its restart (a Deployment). Strong
  fairness of `TakeSlotOffered` per project: the manager's offer comes and goes,
  and a Go channel serves the receivers that wait in the order of their arrival.
  Nothing is assumed of pods: neither the code nor the pod it creates has a time limit,
  and a pod may wait for a node for ever. So `EventuallyDispatched` has a premise,
  `PodsEnd`: again and again, each event's pod is neither active nor one that keeps its
  place because the informer was not told of its end. A worker that never ends makes
  all others wait. `scheduler_dispatch` has no failing calls: an event about which one
  failed is accepted and stays PENDING, which `NothingLost` says too (`refused`).
* `Script`: weak fairness of `RunAccepted` and `Connect`: the worker's process runs
  and the server answers. Strong fairness of `WatchStatus`: streams may break, but
  again and again one lasts for the two seconds of a tick. Without it a worker waits
  for ever; the code has no time limit of its own for that.
* `ClientReads`: weak fairness of a stream that has something to read. Nothing is assumed
  of what writes, stores and overwrites lines, nor of the faults, and the lists have none:
  a list need not end while others add to it, since IDs are unbounded.

### Where code and comments disagree

The two runs marked "violated" check one sentence of a comment each, and TLC's
trace is the counterexample; `PROJECT.json` ("findings") quotes the lines.

1. `DeleteMany` (`events.go:238`, "unconditionaly deletes multiple Events"): all
   three of its operations select by phase. A phase that changes in between
   leaves a document that is marked, not deleted, and invisible to lists.
2. `ListSubscribers` (`mongodb/projects_store.go:124`): the type says that an event
   must have all labels of a subscription to match; the query asks that the
   subscription have all labels of the event.

More are visible in the models and have no run of their own. Scheduling and jobs:

* `worker_sync.go:94`: of a pod in phase Unknown, "If someone or something deletes it, it
  will all work itself out". The informer has no handler for deletions. A pod that is
  Running when the scheduler lists the pods at its start (`scheduler.go:63`), and has ended
  in the ordinary way and is gone when the informer lists them for itself
  (`ListAndWatch`), keeps its place until the process restarts; so does one that vanishes
  at once, or while the watch is broken. `PlacesReleased` says that there are no others
  (`missed`);
* a Create of a job that exists "MUST return" a conflict (`jobs.go:145`), but two
  that overlap are both accepted; `RunsRecordedSpec` names such jobs (`raced`);
* CANCELED is documented as canceled "prior to execution" (`workers.go`), but a pod
  can already run when the record, still PENDING, turns CANCELED; and what jobs of
  a canceled event are recorded as, PENDING or RUNNING, does not change any more
  (`Withdraw`);
* `projects.Create` assigns from a user that is nil when a service account calls it
  (`projects.go:225`): `AssignRoles` fails, and nobody administers the project.

Accounts (`authx/sessions.go`):

* a user who is new is created "with read-only permissions"; the code gives the first
  user three roles and any other none (`NewUser`);
* a session that is not found "MUST" be an authentication error for `GetByToken`; the
  store returns a not-found error, which the filter translates;
* "user 0" gets the administrator's roles; two first sign-ins that overlap are both
  counted as the first (`CountUsers`), which `AdministratorExists` allows;
* a Lock that fails after its first step leaves sessions that work again after
  an Unlock; `LockEndsSessions` promises something of locks that returned only.

Lists and logs:

* `LogStreamOptions.Follow` (`logs.go:28`) promises new lines "as they become
  available"; the log of a pod is requested without it, so a client that follows a
  running container gets what there was, and then waits (`ReadEOF`);
* "the last available line" (`logs.go:28`) is not sent if it has no newline: the end of
  the pod's log in the middle of it discards it (`ReadEOF`, `dropped`), also when the
  container has ended and the line is complete;
* any other error while a pod's log is read makes the goroutine cut the last character
  off an empty line, and the process of the API server panics (`ReadError`);
* why a cursor has nothing to read is never asked (`mongodb/logs_store.go:74`): one that
  lost its place in the capped collection, or has an error, ends a stream as if it were
  complete, or leaves a follower waiting for ever (`broken`);
* the continue value of events is a creation time, and the next page begins strictly
  before it: events of that very millisecond are skipped (`NothingLeftOut` names them);
  that of secrets is a key, and if it is unset meanwhile the list begins again
  (`restarted`);
* `GET /v2/users` with a valid limit returns before it answers
  (`rest/users_endpoints.go:66`, where the `return` is outside of the error's branch);
  the CLI sends no limit, and `Listings` has what it gets.

## 4. What TLAPS proves

Each holds for every value of the constants the assumptions allow:

| Theorem | Module | Statement |
|---|---|---|
| `TypeCorrect` | `EventLifecycleProofs` | `Spec => []TypeOK` |
| `RecordsAreTruthful` | `EventLifecycleProofs` | `Spec => []RecordIsTruthful` |
| `CancellationSparesOutcomes` | `EventLifecycleProofs` | `Spec => CancelSparesOutcome` |
| `ResidueIsExplained` | `EventLifecycleProofs` | `Spec => []ResidueExplained` |
| `EventsRunOnce` | `EventLifecycleProofs` | `Spec => []SingleExecution` |
| `LoopsTypeCorrect` | `SchedulerProofs` | `LoopsSpec => []LoopsTypeOK` |
| `NothingIsLost` | `SchedulerProofs` | `LoopsSpec => []NothingLost` |
| `LoopsFollowProjects` | `SchedulerProofs` | `LoopsSpec => []LoopsMatchKnown` |
| `LoopsRespectCapacity` | `SchedulerProofs` | `Spec => CapacityRespected` (refinement) |
| `SchedulerRunsLoops` | `SchedulerProofs` | `Spec => LoopsSpec` (refinement) |
| `SchedulerLosesNothing` | `SchedulerProofs` | `Spec => []NothingLost /\ []LoopsMatchKnown` |
| `CapacityTypeCorrect` | `WorkerCapacityProofs` | `Spec => []TypeOK` |
| `CountIsComplete` | `WorkerCapacityProofs` | `Spec => []ActivePodsCounted` |
| `OvershootIsBounded` | `WorkerCapacityProofs` | `Spec => []OvershootBounded` |
| `PlacesAreReleased` | `WorkerCapacityProofs` | `Spec => []PlacesReleased` |
| `JobsTypeCorrect` | `JobLifecycleProofs` | `Spec => []TypeOK` |
| `JobRecordsAreTruthful` | `JobLifecycleProofs` | `Spec => []JobRecordIsTruthful` |
| `PodsOwnTheirEnvironment` | `JobLifecycleProofs` | `Spec => []OwnEnvironment` |
| `PodsRunTheRecordedSpec` | `JobLifecycleProofs` | `Spec => []RunsRecordedSpec` |
| `ScriptsRunJobs` | `ScriptProofs` | `ScriptSpec => Spec` (refinement) |
| `JobsOfScripts` | `ScriptProofs` | `ScriptSpec =>` the four statements about jobs above |
| `RunIsTruthful` | `ScriptProofs` | `ScriptSpec => []RunTellsTheTruth` |
| `RunEachIsInOrder` | `ScriptProofs` | `ScriptSpec => []OneAfterTheOther` |
| `WorkersSucceedWithTheirJobs` | `ScriptProofs` | `ScriptSpec => []SuccessMeansAllJobs` |
| `StreamsHaveTheirJob` | `ScriptProofs` | `ScriptSpec => []WatchedJobsExist` |
| `AccountsTypes` | `AccountsProofs` | `Spec => []TypeOK` |
| `LockedUsersStayOut` | `AccountsProofs` | `Spec => []LockedOut` |
| `SessionsEndForGood` | `AccountsProofs` | `Spec => []LockEndsSessions` |
| `SessionsHaveTheirUsers` | `AccountsProofs` | `Spec => []AuthenticatedUsersExist` |
| `SomeoneIsAdministrator` | `AccountsProofs` | `Spec => []AdministratorExists` |
| `ProjectsTypeCorrect` | `ProjectsProofs` | `Spec => []TypeOK` |
| `ProjectsHaveNamespaces` | `ProjectsProofs` | `Spec => []ProjectHasNamespace` |
| `NamespacesAreAccounted` | `ProjectsProofs` | `Spec => []NamespacesAccounted` |
| `EventsKeepTheirProject` | `ProjectsProofs` | `Spec => []EventsHaveProject` |
| `WorkersStartByTheirSecret` | `ProjectsProofs` | `Spec => WorkersFindTheirSecret` (action property) |
| `NothingTwice` | `ClientReadsProofs` | `Spec => []NothingShownTwice` |
| `NothingForgotten` | `ClientReadsProofs` | `Spec => []NothingLeftOut` |
| `LinesInOrder` | `ClientReadsProofs` | `Spec => []PrintedInOrder` |
| `SnapshotsComplete` | `ClientReadsProofs` | `Spec => []SnapshotComplete` |

The assumptions are those the modules name, and no others. `EventLifecycle`:
`Workspace \subseteq Events`, `NoRequest \notin Requests`, `Selectors \subseteq SUBSET
WorkerPhases`; nothing about finiteness. `WorkerLoops`: projects are numbers
(their place in the list, of which the first page is read), every event has a
project, the page is not empty. `WorkerCapacity`: finitely many events, and a
capacity of at least one. `JobLifecycle`: `LowerCase` is defined on the names; it may
map them to anything, and identify any number of them. `Script`: the calls of run are
numbers, in the script's order. `Accounts`: the administrator's role is among those the
first user gets, and the root user and "nobody" are not users; nothing about
finiteness. `Projects`: project IDs are numbers, which stand for their order, and no
namespace is called "none"; nothing about finiteness. `Listings`: finitely many items,
which are numbers in their order, pages of at least one, and a clock that shows numbers
up to some bound. `LogStreams`: some bound on the lines.

*RecordIsTruthful* is not inductive. A report is written long after it was sent,
so the invariant also says that every report under way, and the state of every
pod, is something that occurred; then an update can only write what is true.

*ResidueExplained* says that what is left of a withdrawn event is still to be
deleted by some request, unless the event is in `raced` or `dropped`. The proof
needs to know why nothing can appear after the cleanup. Its invariant adds the
supports: an event not created has no objects; a PENDING event that is not in
`raced` was not withdrawn; a Start or Create under way for a withdrawn event puts
it in `raced`; no cancellation mark without a document. `Accounted` joins these
with cleanliness of the owed events, and one lemma per action shows it preserved.

*SingleExecution* counts the pods an event ever had (`runs`), so the invariant has to
know what a second one takes: a pod that ran can only be gone if the event is
withdrawn or marked, and each of a canceled document (`CanceledTaken`), a request
that cleans up after it (`CleansTaken`) and a pod that is terminating or gone
(`PodLostTaken`) is the work of a request that has withdrawn or marked it. So as long
as it is neither, the pod keeps its name and every later Start fails.

*NothingLost*: a message leaves the broker when a loop reads it and comes back when
its link is lost; what could lose one is the acceptance. The invariant says that a
loop that is about to accept holds a message whose event is settled (started,
refused or no longer wanted), and that every published event is in the queue, held,
or settled. A loop that no longer owns its message cannot take it
from the loop that does.

*LoopsMatchKnown*: a loop that was not told to stop belongs to a known project, also
while the process stops.

*CapacityRespected*: every call under way (a loop that starts, or an orphaned call)
has its slot in `granted` until its event has its pod. So a call that creates a pod has
a slot to use; a call that does not create one leaves the slot to another call for
its event, or gives it up; and a second call for an event that has its pod changes
nothing. That the process does not end more often than `MaxRestarts` allows comes from
`restarts = crashes`.

*SchedulerLosesNothing*: each step of `Scheduler` is one of the loops or leaves them alone,
so what `WorkerLoops` promises with an environment that always offers slots, it promises
with the one that does so rarely.

*OvershootBounded*: a pod holds its slot from the grant on. Slots whose holder the
count does not have yet are fresh, and those given since the last tick are new.
One period gives out two at most, one for a tick that waited in the channel and
one for the tick itself; with prompt starts nothing stays fresh for two ticks, so
there are at most three fresh ones, and at most two when the manager counts. What
it then offers exceeds the capacity by two at most.

*OwnEnvironment*: a Start call that has got past the creation of the secret owns it,
under the object's name, until the event is withdrawn; no other call can create
that secret, and so none reaches the pod. *JobRecordIsTruthful* follows from the
reports, as in `EventLifecycle`, since a report names the job by the pod's label.
*RunsRecordedSpec*: a Create that is past its check of a name that has a job since
overlapped another, and the name is in `raced`; so the specification of any other job
never changes once a Start call can have read it. `TypeOK` needs that everything that
mentions a job (queue, calls, pods, reports) mentions one that is recorded, for as
long as there is a document.

*ScriptsRunJobs*: each step of a script is a Create call of `JobLifecycle` that begins,
or leaves the jobs alone; so `JobRecordIsTruthful` and the other theorems about jobs hold
of a script's. *RunIsTruthful* needs just that: the status a tick sends is the record,
and the record is something a pod did. *RunEachIsInOrder* is not inductive, as a pod is
made long after its turn came: the invariant says that a specification found in the
document, in a Start call or in a pod is that of a Create call that began (`SpecsBegun`),
and that a Create call began when the earlier jobs had succeeded (`BegunInTurn`).
*WorkersSucceedWithTheirJobs*: when the process ends without a rejection, each call of
run is resolved, or was never made because an earlier one is not resolved; the first of
these, which exists because numbers are well-founded, had its turn. *StreamsHaveTheirJob*:
no job leaves the document before the document goes (`JobsStay`).

*LockedUsersStayOut*: a request whose user was locked when it began finds, as long as
nobody unlocks, the lock in its second read (`ShutIsLocked`); this needs that no
sign-in can replace the document of a locked user, which holds as a document that is
not there is not locked (`NothingBeforeCreation`) and one that is there is not created
again. *SessionsEndForGood*: between the two steps of Lock, each session that counts is
the user's still or gone already (`LocksInv`); a sign-in that authenticates it anew
takes it out of the count. *SessionsHaveTheirUsers* and *SomeoneIsAdministrator* follow
from what a sign-in has seen (`LoginsKnowUsers`): one about to authenticate has
its user, and one about to create a user without roles has seen another user.

*ActivePodsCounted* needs that the informer has nothing to tell of a pod before it is
created, and not its end while it is active (`NoticesInOrder`). *PlacesReleased*: of a pod
that ended, either the informer was not told, or the last thing it has to tell is the
end, or it has told it and the pod is not counted (`EndTold`); its next listing makes up
for an end that it was not told of, if the pod is still there.

*ProjectHasNamespace* and *NamespacesAccounted* share one invariant. No one knows the
namespace of a Create that has not stored its project, and whoever knows one knows the
project ID it was made for (`NamespacesKnown`); how far a Create is says what its
namespace can be (`NamespacesMade`); and the namespace that a Delete has read is no
project's any more as soon as it has removed a document, be it that of another
incarnation, since IDs of namespaces are not drawn twice (`NamespacesLeft`). So the
namespace a Delete takes down is never that of a project that exists.

*EventsHaveProject* is inductive: a Delete that removes a document is, in the same step,
about to remove the project's events; it lets go of that only by removing them, or with
a failure that `cut` records. For *WorkersFindTheirSecret* the invariant adds that
what is in a queue has its secret (`QueuedHaveSecrets`) and follows a Start from read to
read (`StartInv`): the event it has read is there still or was deleted under it, and once
it has read the project, it found it by `EventsHaveProject` in the event's own
namespace, but for the exceptions.

*NothingShownTwice* and *NothingLeftOut*: what is shown is not beyond the place where
the next page begins (`ShownIsBehind`), and what was there all the time and is not shown is
(`KeptIsAhead`), or shares the place of the last item of some page. Both hold as the order
of items does not change once a command has come across them (`Dated`: an event's time
is set once), and as the rest of a page comes after its last item (`FirstPage`). That a
page has a last item at all is `PageHasLast`, by a smallest counterexample, since the
provers do not know induction over finite sets.

*PrintedInOrder* and *SnapshotComplete*: what is printed is counted from the first line that
was there when the stream was opened, and the stream is where that count ends
(`PlaceInLog`); what was there then stays within what the source has (`StillThere`), so
that a stream in order ends beyond it, or one unfinished line before
(`EndsBeyond`).

Only model-checked: liveness (`WithdrawalCleansUp`, `EventuallyDispatched`, `EndIsNoticed`,
`FollowerCatchesUp`), which needs fairness and ENABLED and is out of
the prover's reach. That `OvershootBounded`, `ActivePodsCounted` and `PlacesReleased` hold
of `Scheduler` follows from `LoopsRespectCapacity` and the theorems about
`WorkerCapacity`, by substitution; it is not stated as a theorem of its own, as
`Scheduler` has `WorkerCapacity` by INSTANCE and tlapm does not let a proof cite the
theorems of an instance. (`Script` EXTENDS `JobLifecycle`, and `JobsOfScripts` is a theorem.)
No module uses a RECURSIVE operator; properties by induction over data could not be
proved with this prover either.

## 5. Not modelled

Reads that change nothing and are not paged; encoding, schema validation and HTTP;
configuration. Roles of projects and of service accounts, which are the same single updates
on other documents and which nothing reads, as long as authorization is a stub.
Selecting a log's container by names, of which "build" and "Build" name the same pod.
The watch of a worker's status, which repeats that of a job's. In the worker, fetching
and compiling the script; a script that handles a rejection itself. In the CLI, commands
that are one request.
The observer's set of pods to delete: `deletePod` (`observer/pod_sync.go`) waits
for a minute and returns without deleting anything, so pods that are over stay
until their event is withdrawn, and so they do in the models. The queue reader's reconnection and its end after ten attempts. The objects inside
a namespace one by one. Updates of a worker's specification. Job names
whose lower case equals another event's names cannot exist, since an object's
name carries the event's ID.

## 6. Plan

Done, in the order of importance: `EventLifecycle`, `WorkerLoops`,
`WorkerCapacity`, `Scheduler`, `JobLifecycle`, `Projects`, then `Script`, `Accounts`,
`Listings` and `LogStreams`, and the proofs above. Next:

1. An accounting of what the jobs of a withdrawn event leave behind, as
   `ResidueExplained` is for workers, and its proof.
2. The queue reader's reconnection, and the observer's timers.

A proof that is there lets a run be merged with another or dropped, which keeps
the whole suite a matter of minutes.
