------------------------------ MODULE Projects ------------------------------
(***************************************************************************)
(* Projects, as the API server's projects service creates, updates and     *)
(* deletes them across MongoDB and Kubernetes, and the events that are     *)
(* created for them: one for a project that the event names, or one for    *)
(* each subscribed project.                                                *)
(*                                                                         *)
(* A project ID may be used again.  What tells its incarnations apart is   *)
(* the Kubernetes namespace, named after a token that PreCreateProject     *)
(* draws for each Create call: here, the call itself.  Each store or       *)
(* Kubernetes call is one action, and requests interleave between them.    *)
(*                                                                         *)
(*   doc      per project ID, the document: its namespace, subscriptions   *)
(*   space    per Create call, the state of the namespace it named         *)
(*   roles    callers that were granted the roles of a project ID          *)
(*   events   event documents: the Post call they come from, the project,  *)
(*            and the namespace of the project as that call read it        *)
(*   secrets  events whose secret event-<id> was created, in that namespace*)
(*   queue    events whose ID is in the queue workers.<project>            *)
(*   pods     events whose worker pod was created, and its namespace       *)
(*   creator, updater, deleter, poster, starter   where each request is    *)
(*                                                                         *)
(* Auxiliary: late, the events stored for an incarnation that was gone;    *)
(* leaked, namespaces that fell out of every request's reach; cut, project *)
(* IDs a Delete of which ended between the document and the events;        *)
(* overtaken, events deleted while a Start that had read them was under    *)
(* way.                                                                    *)
(***************************************************************************)
EXTENDS FiniteSetsExt

CONSTANTS
  IDs,       \* project IDs, in the order in which ListSubscribers sorts them
  Creates, Updates, Deletes,   \* calls of the projects service
  Posts,                       \* calls of events.Create
  Starts,                      \* calls of workers.Start, made again and again
  Callers,   \* kinds of principals that create projects
  Specs,     \* project specifications: sets of subscriptions
  Messages,  \* what is posted: source, type and labels
  None       \* no namespace, no event

ASSUME IDsAssumption == IDs \subseteq Nat   \* there are finitely many
ASSUME CallersAssumption == Callers \subseteq {"user", "serviceAccount", "root"}
ASSUME NoneAssumption == None \notin Creates

VARIABLES doc, space, roles, events, secrets, queue, pods,
          creator, updater, deleter, poster, starter, late, leaked, cut, overtaken

requestVars == <<creator, updater, deleter, poster>>
workerVars == <<pods, starter>>
eventVars == <<events, secrets, queue, workerVars>>
auxVars == <<late, leaked, cut, overtaken>>
vars == <<doc, space, roles, eventVars, requestVars, auxVars>>

-----------------------------------------------------------------------------
NoDoc == [ns |-> None, spec |-> {}]
Docs == [ns : Creates, spec : Specs]

Exists(p) == doc[p] # NoDoc

Event == [post : Posts, project : IDs, ns : Creates]

NotStarting == [pc |-> "idle", event |-> None, ns |-> None]

(* Nothing can be created in a namespace that was deleted.                 *)
Alive == {"bare", "ready"}

(* Requests that will act on c's namespace, or on the events of project p. *)
Removing(c) == \E d \in Deletes : deleter[d].ns = c
                                  /\ deleter[d].pc \in {"events", "namespace"}
Cascading(p) == \E d \in Deletes : deleter[d].project = p
                                   /\ deleter[d].pc = "events"

-----------------------------------------------------------------------------
(* projectsStore.ListSubscribers.                                          *)

Matches(sub, msg) ==
  /\ sub.source = msg.source
  /\ sub.types \cap {msg.type, "*"} # {}
  /\ msg.labels \subseteq sub.labels

Subscribers(msg) ==
  {p \in IDs : \E sub \in doc[p].spec : Matches(sub, msg)}

-----------------------------------------------------------------------------
Init ==
  /\ doc = [p \in IDs |-> NoDoc]
  /\ space = [c \in Creates |-> "none"]
  /\ roles = {}
  /\ events = {} /\ secrets = {} /\ queue = {} /\ pods = {}
  /\ \E p \in IDs :
       /\ creator = [c \in Creates |-> [pc |-> "idle", project |-> p]]
       /\ updater = [u \in Updates |-> [pc |-> "idle", project |-> p, ns |-> None]]
       /\ deleter = [d \in Deletes |-> [pc |-> "idle", project |-> p, ns |-> None]]
  /\ poster = [q \in Posts |-> [pc |-> "idle", todo |-> {}, ns |-> None]]
  /\ starter = [s \in Starts |-> NotStarting]
  /\ late = {} /\ leaked = {} /\ cut = {} /\ overtaken = {}

-----------------------------------------------------------------------------
(* projects.Create: the document, the namespace, its objects, the roles.   *)
(* The specification and the caller appear in the steps that look at them. *)

CreatorAt(c, step) == creator' = [creator EXCEPT ![c].pc = step]

Create(c, p) ==
  /\ creator[c].pc = "idle"
  /\ creator' = [creator EXCEPT ![c] = [pc |-> "store", project |-> p]]
  /\ UNCHANGED <<doc, space, roles, eventVars, updater, deleter, poster, auxVars>>

(* An ID that is taken is a conflict.                                      *)
StoreProject(c, s) ==
  LET p == creator[c].project IN
  /\ creator[c].pc = "store"
  /\ IF Exists(p)
     THEN /\ CreatorAt(c, "failed")
          /\ UNCHANGED doc
     ELSE /\ CreatorAt(c, "namespace")
          /\ doc' = [doc EXCEPT ![p] = [ns |-> c, spec |-> s]]
  /\ UNCHANGED <<space, roles, eventVars, updater, deleter, poster, auxVars>>

(* The document may be gone by now, and its Delete over.                   *)
CreateNamespace(c) ==
  /\ creator[c].pc = "namespace"
  /\ CreatorAt(c, "objects")
  /\ space' = [space EXCEPT ![c] = "bare"]
  /\ leaked' = leaked \cup {n \in {c} : /\ doc[creator[c].project].ns # n
                                        /\ ~Removing(n)}
  /\ UNCHANGED <<doc, roles, eventVars, updater, deleter, poster, late, cut, overtaken>>

(* Accounts, roles and bindings, and the secret project-secrets, the last  *)
(* of seven objects and the one that matters to events.                    *)
CreateNamespaceObjects(c) ==
  /\ creator[c].pc = "objects"
  /\ IF space[c] = "bare"
     THEN /\ CreatorAt(c, "roles")
          /\ space' = [space EXCEPT ![c] = "ready"]
     ELSE /\ CreatorAt(c, "failed")
          /\ UNCHANGED space
  /\ UNCHANGED <<doc, roles, eventVars, updater, deleter, poster, auxVars>>

(* For a service account the handler panics on a user that is not there.   *)
AssignRoles(c, caller) ==
  /\ creator[c].pc = "roles"
  /\ CreatorAt(c, IF caller = "serviceAccount" THEN "failed" ELSE "done")
  /\ roles' = roles \cup {<<k, creator[c].project>> : k \in {caller} \cap {"user"}}
  /\ UNCHANGED <<doc, space, eventVars, updater, deleter, poster, auxVars>>

(* A call fails; what was done before it stays.                            *)
CreateFails(c) ==
  /\ creator[c].pc \in {"store", "namespace", "objects", "roles"}
  /\ CreatorAt(c, "failed")
  /\ UNCHANGED <<doc, space, roles, eventVars, updater, deleter, poster, auxVars>>

-----------------------------------------------------------------------------
(* projects.Update: the old document is read for its namespace, but the    *)
(* store only sets the specification.                                      *)

Update(u, p) ==
  /\ updater[u].pc = "idle" /\ Exists(p)
  /\ updater' = [updater EXCEPT ![u] = [pc |-> "store", project |-> p,
                                        ns |-> doc[p].ns]]
  /\ UNCHANGED <<doc, space, roles, eventVars, creator, deleter, poster, auxVars>>

(* Seeded fault: the store replaces the document by the one it is given.   *)
UpdateProject_Replaces(u, s) ==
  LET p == updater[u].project IN
  /\ updater[u].pc = "store"
  /\ updater' = [updater EXCEPT ![u].pc = "done"]
  /\ doc' = IF Exists(p)
            THEN [doc EXCEPT ![p] = [ns |-> updater[u].ns, spec |-> s]]
            ELSE doc
  /\ UNCHANGED <<space, roles, eventVars, creator, deleter, poster, auxVars>>

UpdateProject(u, s) ==
  LET p == updater[u].project IN
  /\ updater[u].pc = "store"
  /\ updater' = [updater EXCEPT ![u].pc = "done"]
  /\ doc' = IF Exists(p) THEN [doc EXCEPT ![p].spec = s] ELSE doc
  /\ UNCHANGED <<space, roles, eventVars, creator, deleter, poster, auxVars>>

-----------------------------------------------------------------------------
(* projects.Delete: the document, the events' documents, the namespace     *)
(* that the document named when it was read.                               *)

DeleterAt(d, step) == deleter' = [deleter EXCEPT ![d].pc = step]

Delete(d, p) ==
  /\ deleter[d].pc = "idle" /\ Exists(p)
  /\ deleter' = [deleter EXCEPT ![d] = [pc |-> "doc", project |-> p,
                                        ns |-> doc[p].ns]]
  /\ UNCHANGED <<doc, space, roles, eventVars, creator, updater, poster, auxVars>>

(* Whatever incarnation has the ID by now is removed.                      *)
DeleteDoc(d) ==
  LET p == deleter[d].project IN
  /\ deleter[d].pc = "doc"
  /\ DeleterAt(d, IF Exists(p) THEN "events" ELSE "failed")
  /\ doc' = [doc EXCEPT ![p] = NoDoc]
  /\ leaked' = leaked \cup {c \in Creates \ {deleter[d].ns} :
                              doc[p].ns = c /\ space[c] \in Alive}
  /\ UNCHANGED <<space, roles, eventVars, creator, updater, poster, late, cut, overtaken>>

(* Seeded fault: the project's events are left to themselves.              *)
DeleteEvents_None(d) ==
  /\ deleter[d].pc = "events"
  /\ DeleterAt(d, "namespace")
  /\ UNCHANGED <<doc, space, roles, eventVars, creator, updater, poster, auxVars>>

DeleteEvents(d) ==
  /\ deleter[d].pc = "events"
  /\ DeleterAt(d, "namespace")
  /\ events' = {e \in events : e.project # deleter[d].project}
  /\ overtaken' = overtaken \cup {e \in events \ events' :
                                    \E s \in Starts : starter[s].event = e}
  /\ UNCHANGED <<doc, space, roles, secrets, queue, workerVars, creator, updater,
                 poster, late, leaked, cut>>

(* Seeded fault: a namespace that is not complete is not looked for.       *)
DeleteNamespace_Ready(d) ==
  LET c == deleter[d].ns IN
  /\ deleter[d].pc = "namespace"
  /\ DeleterAt(d, IF space[c] = "ready" THEN "done" ELSE "failed")
  /\ space' = [space EXCEPT ![c] = IF @ = "ready" THEN "gone" ELSE @]
  /\ UNCHANGED <<doc, roles, eventVars, creator, updater, poster, auxVars>>

(* Fails if the namespace is not there yet, or no more.                    *)
DeleteNamespace(d) ==
  LET c == deleter[d].ns IN
  /\ deleter[d].pc = "namespace"
  /\ DeleterAt(d, IF space[c] \in Alive THEN "done" ELSE "failed")
  /\ space' = [space EXCEPT ![c] = IF @ \in Alive THEN "gone" ELSE @]
  /\ UNCHANGED <<doc, roles, eventVars, creator, updater, poster, auxVars>>

(* A call fails, or the API server dies: the rest does not happen.         *)
DeleteFails(d) ==
  LET c == deleter[d].ns IN
  /\ deleter[d].pc \in {"doc", "events", "namespace"}
  /\ DeleterAt(d, "failed")
  /\ cut' = cut \cup {p \in {deleter[d].project} : deleter[d].pc = "events"}
  /\ leaked' = leaked \cup {n \in {c} : /\ deleter[d].pc # "doc"
                                        /\ space[n] \in Alive}
  /\ UNCHANGED <<doc, space, roles, eventVars, creator, updater, poster, late,
                 overtaken>>

-----------------------------------------------------------------------------
(* events.Create, for one project or for all that subscribe.  The projects *)
(* are listed once and taken in turn; the first error ends the request.    *)

PosterAt(q, step) == poster' = [poster EXCEPT ![q].pc = step]

PostToProject(q, p) ==
  /\ poster[q].pc = "idle"
  /\ poster' = [poster EXCEPT ![q].pc = "project", ![q].todo = {p}]
  /\ UNCHANGED <<doc, space, roles, eventVars, creator, updater, deleter, auxVars>>

PostToSubscribers(q, msg) ==
  /\ poster[q].pc = "idle"
  /\ poster' = [poster EXCEPT ![q].pc = IF Subscribers(msg) = {} THEN "done"
                                                               ELSE "project",
                              ![q].todo = Subscribers(msg)]
  /\ UNCHANGED <<doc, space, roles, eventVars, creator, updater, deleter, auxVars>>

(* The project a request is at.                                            *)
Current(q) == Min(poster[q].todo)

EventOf(q) == [post |-> q, project |-> Current(q), ns |-> poster[q].ns]

(* Seeded fault: a project that is not found is not an error.              *)
GetProject_Unchecked(q) ==
  /\ poster[q].pc = "project"
  /\ poster' = [poster EXCEPT ![q].pc = "event", ![q].ns = doc[Current(q)].ns]
  /\ UNCHANGED <<doc, space, roles, eventVars, creator, updater, deleter, auxVars>>

GetProject(q) ==
  /\ poster[q].pc = "project"
  /\ poster' = [poster EXCEPT ![q].pc = IF Exists(Current(q)) THEN "event"
                                                             ELSE "failed",
                              ![q].ns = doc[Current(q)].ns]
  /\ UNCHANGED <<doc, space, roles, eventVars, creator, updater, deleter, auxVars>>

StoreEvent(q) ==
  /\ poster[q].pc = "event"
  /\ PosterAt(q, "secret")
  /\ events' = events \cup {EventOf(q)}
  /\ late' = late \cup {e \in {EventOf(q)} : doc[e.project].ns # e.ns}
  /\ UNCHANGED <<doc, space, roles, secrets, queue, workerVars, creator, updater,
                 deleter, leaked, cut, overtaken>>

(* The project's secrets are read and copied into the event's.             *)
CreateEventSecret(q) ==
  /\ poster[q].pc = "secret"
  /\ IF space[poster[q].ns] = "ready"
     THEN /\ PosterAt(q, "publish")
          /\ secrets' = secrets \cup {EventOf(q)}
     ELSE /\ PosterAt(q, "failed")
          /\ UNCHANGED secrets
  /\ UNCHANGED <<doc, space, roles, events, queue, workerVars, creator, updater,
                 deleter, auxVars>>

PublishEvent(q) ==
  LET rest == poster[q].todo \ {Current(q)} IN
  /\ poster[q].pc = "publish"
  /\ queue' = queue \cup {EventOf(q)}
  /\ poster' = [poster EXCEPT ![q].pc = IF rest = {} THEN "done" ELSE "project",
                              ![q].todo = rest]
  /\ UNCHANGED <<doc, space, roles, events, secrets, workerVars, creator, updater,
                 deleter, auxVars>>

PostFails(q) ==
  /\ poster[q].pc \in {"project", "event", "secret", "publish"}
  /\ PosterAt(q, "failed")
  /\ UNCHANGED <<doc, space, roles, eventVars, creator, updater, deleter, auxVars>>

-----------------------------------------------------------------------------
(* workers.Start, which the loop of a project calls for what is in its     *)
(* queue: the event is read, then the project, then the pod is created in  *)
(* the namespace that the project had.  The phase, which EventLifecycle has*)
(* and which makes some of the calls end early, is left out.               *)

(* Seeded fault: the queue alone is trusted, the event is not looked up.   *)
Start_NoEvent(s, e) ==
  /\ starter[s].pc = "idle"
  /\ e \in queue
  /\ starter' = [starter EXCEPT ![s] = [pc |-> "project", event |-> e,
                                        ns |-> None]]
  /\ UNCHANGED <<doc, space, roles, events, secrets, queue, pods, requestVars,
                 auxVars>>

Start(s, e) ==
  /\ starter[s].pc = "idle"
  /\ e \in queue /\ e \in events
  /\ starter' = [starter EXCEPT ![s] = [pc |-> "project", event |-> e,
                                        ns |-> None]]
  /\ UNCHANGED <<doc, space, roles, events, secrets, queue, pods, requestVars,
                 auxVars>>

GetProjectOfEvent(s) ==
  LET p == starter[s].event.project IN
  /\ starter[s].pc = "project"
  /\ starter' = [starter EXCEPT ![s] = IF Exists(p)
                                       THEN [@ EXCEPT !.pc = "pod", !.ns = doc[p].ns]
                                       ELSE NotStarting]
  /\ UNCHANGED <<doc, space, roles, events, secrets, queue, pods, requestVars,
                 auxVars>>

(* The pod is named after the event.                                       *)
CreateWorkerPod(s) ==
  /\ starter[s].pc = "pod"
  /\ starter' = [starter EXCEPT ![s] = NotStarting]
  /\ pods' = pods \cup {[event |-> starter[s].event, ns |-> c] :
                         c \in {n \in {starter[s].ns} : space[n] \in Alive}}
  /\ UNCHANGED <<doc, space, roles, events, secrets, queue, requestVars, auxVars>>

StartFails(s) ==
  /\ starter[s].pc # "idle"
  /\ starter' = [starter EXCEPT ![s] = NotStarting]
  /\ UNCHANGED <<doc, space, roles, events, secrets, queue, pods, requestVars,
                 auxVars>>

-----------------------------------------------------------------------------
Next ==
  \/ \E c \in Creates :
       \/ \E p \in IDs : Create(c, p)
       \/ \E s \in Specs : StoreProject(c, s)
       \/ CreateNamespace(c) \/ CreateNamespaceObjects(c) \/ CreateFails(c)
       \/ \E caller \in Callers : AssignRoles(c, caller)
  \/ \E u \in Updates : \/ \E p \in IDs : Update(u, p)
                        \/ \E s \in Specs : UpdateProject(u, s)
  \/ \E d \in Deletes :
       \/ \E p \in IDs : Delete(d, p)
       \/ DeleteDoc(d) \/ DeleteEvents(d) \/ DeleteNamespace(d) \/ DeleteFails(d)
  \/ \E q \in Posts :
       \/ \E p \in IDs : PostToProject(q, p)
       \/ \E msg \in Messages : PostToSubscribers(q, msg)
       \/ GetProject(q) \/ StoreEvent(q) \/ CreateEventSecret(q)
       \/ PublishEvent(q) \/ PostFails(q)
  \/ \E s \in Starts :
       \/ \E e \in queue : Start(s, e)
       \/ GetProjectOfEvent(s) \/ CreateWorkerPod(s) \/ StartFails(s)

Spec == Init /\ [][Next]_vars

-----------------------------------------------------------------------------
TypeOK ==
  /\ doc \in [IDs -> Docs \cup {NoDoc}]
  /\ space \in [Creates -> {"none", "bare", "ready", "gone"}]
  /\ roles \subseteq {"user"} \X IDs
  /\ events \subseteq Event /\ secrets \subseteq Event /\ queue \subseteq Event
  /\ pods \subseteq [event : Event, ns : Creates]
  /\ creator \in [Creates ->
       [pc : {"idle", "store", "namespace", "objects", "roles", "done", "failed"},
        project : IDs]]
  /\ updater \in [Updates -> [pc : {"idle", "store", "done"}, project : IDs,
                              ns : Creates \cup {None}]]
  /\ deleter \in [Deletes ->
       [pc : {"idle", "doc", "events", "namespace", "done", "failed"},
        project : IDs, ns : Creates \cup {None}]]
  /\ poster \in [Posts ->
       [pc : {"idle", "project", "event", "secret", "publish", "done", "failed"},
        todo : SUBSET IDs, ns : Creates \cup {None}]]
  /\ starter \in [Starts -> [pc : {"idle", "project", "pod"},
                              event : Event \cup {None}, ns : Creates \cup {None}]]
  /\ late \subseteq Event /\ leaked \subseteq Creates /\ cut \subseteq IDs
  /\ overtaken \subseteq Event

(* A project that exists has a live namespace of its own, whatever Updates *)
(* and Deletes of earlier incarnations were under way, and a complete one  *)
(* unless its Create is not over or failed.                                *)
ProjectHasNamespace ==
  \A p \in IDs : Exists(p) =>
    LET c == doc[p].ns IN
    /\ space[c] # "gone"
    /\ space[c] = "ready" \/ creator[c].pc \in {"namespace", "objects", "failed"}

(* A namespace that exists belongs to a project or is about to be deleted. *)
(* Exceptions: a Delete was cut short, it had read another incarnation     *)
(* than it removed, or it was over before Create made the namespace.       *)
NamespacesAccounted ==
  \A c \in Creates : space[c] \in Alive =>
    doc[creator[c].project].ns = c \/ Removing(c) \/ c \in leaked

(* An event belongs to a project that exists, or is about to be deleted    *)
(* with it: those of one incarnation never pass on to the next.  Exceptions*)
(* are the events stored after their project was gone, and those a failed  *)
(* Delete of the project left behind.                                      *)
EventsHaveProject ==
  \A e \in events :
    \/ doc[e.project].ns = e.ns
    \/ Cascading(e.project)
    \/ e \in late
    \/ e.project \in cut

(* A worker starts where its event's secret is.  Outside of the same       *)
(* exceptions, no queued message of a deleted project starts a worker of   *)
(* a new project with its ID; unless the event was deleted under a Start   *)
(* that had read it, and the project created again before it was read too. *)
WorkersFindTheirSecret ==
  [][\A w \in pods' \ pods :
       /\ w.event \in secrets
       /\ \/ w.ns = w.event.ns
          \/ Cascading(w.event.project)
          \/ w.event \in late
          \/ w.event.project \in cut
          \/ w.event \in overtaken]_vars

(* What the comment on the labels of a subscription says: an event must    *)
(* have all of them to match.                                              *)
SubscriptionsHonored ==
  \A msg \in Messages : \A p \in Subscribers(msg) :
    \E sub \in doc[p].spec : Matches(sub, msg) /\ sub.labels \subseteq msg.labels
=============================================================================
