----------------------------- MODULE ProjectsProofs -----------------------------
(***************************************************************************)
(* Theorems about Projects, for any project IDs, any number of requests,   *)
(* any specifications and any messages.                                    *)
(***************************************************************************)
EXTENDS Projects, WellFoundedInduction, TLAPS

-----------------------------------------------------------------------------
(* Types.  TypeOK needs to know that a request that acts on a namespace, or*)
(* goes through projects, has one.                                         *)

Posting(q) == poster[q].pc \in {"project", "event", "secret", "publish"}
HasProject(q) == poster[q].pc \in {"event", "secret", "publish"}

Located ==
  /\ \A d \in Deletes : deleter[d].pc # "idle" => deleter[d].ns \in Creates
  /\ \A q \in Posts : Posting(q) => poster[q].todo # {}
  /\ \A q \in Posts : HasProject(q) => poster[q].ns \in Creates
  /\ \A s \in Starts : /\ starter[s].pc # "idle" => starter[s].event \in Event
                       /\ starter[s].pc = "pod" => starter[s].ns \in Creates

TypeInv == TypeOK /\ Located

(* A request that is not over has a project to go on with: the first of    *)
(* those left, which exists because IDs are well-founded.                  *)
LEMMA MinIn ==
  ASSUME NEW S \in SUBSET IDs, S # {}
  PROVE  Min(S) \in S
<1> DEFINE R == OpToRel(<, Nat)
<1>1. S \subseteq Nat /\ IsWellFoundedOn(R, Nat)
  BY IDsAssumption, NatLessThanWellFounded
<1>2. \A x, y \in Nat : x < y => <<x, y>> \in R
  BY DEF OpToRel
<1> HIDE DEF R
<1>3. PICK x \in S : \A y \in S : <<y, x>> \notin R
  BY <1>1, WFMin
<1>4. ASSUME NEW y \in S PROVE x <= y
  <2>1. x \in Nat /\ y \in Nat
    BY <1>1
  <2>2. ~(y < x)
    BY <1>2, <1>3, <2>1
  <2> QED BY <2>1, <2>2
<1> QED BY <1>4 DEF Min

LEMMA CurrentIn ==
  ASSUME TypeInv, NEW q \in Posts, Posting(q)
  PROVE  Current(q) \in poster[q].todo /\ Current(q) \in IDs
<1>1. poster[q].todo \in SUBSET IDs /\ poster[q].todo # {}
  BY DEF TypeInv, TypeOK, Located
<1> QED BY <1>1, MinIn DEF Current

LEMMA EventOfType ==
  ASSUME TypeInv, NEW q \in Posts, HasProject(q)
  PROVE  EventOf(q) \in Event
BY CurrentIn DEF TypeInv, Located, Posting, HasProject, EventOf, Event

(* A project exists if and only if its document names a namespace.         *)
LEMMA ExistsNs ==
  ASSUME TypeOK, NEW p \in IDs
  PROVE  /\ Exists(p) <=> doc[p].ns \in Creates
         /\ ~Exists(p) <=> doc[p].ns = None
         /\ Exists(p) => doc[p] \in Docs
BY NoneAssumption DEF TypeOK, Exists, Docs, NoDoc

LEMMA InitTypes == Init => TypeInv
<1> SUFFICES ASSUME Init PROVE TypeInv
  OBVIOUS
<1>1. PICK p \in IDs :
        /\ creator = [c \in Creates |-> [pc |-> "idle", project |-> p]]
        /\ updater = [u \in Updates |-> [pc |-> "idle", project |-> p, ns |-> None]]
        /\ deleter = [d \in Deletes |-> [pc |-> "idle", project |-> p, ns |-> None]]
  BY DEF Init
<1>2. TypeOK
  BY <1>1 DEF Init, TypeOK, NotStarting
<1>3. Located
  BY <1>1 DEF Init, Located, Posting, HasProject, NotStarting
<1> QED BY <1>2, <1>3 DEF TypeInv

(* What moving a request does to it.                                       *)
CreatorSteps == {"idle", "store", "namespace", "objects", "roles", "done", "failed"}
PosterSteps == {"idle", "project", "event", "secret", "publish", "done", "failed"}

LEMMA CreatorMoves ==
  ASSUME TypeOK, NEW c \in Creates, NEW step \in CreatorSteps, CreatorAt(c, step)
  PROVE  /\ creator' \in [Creates -> [pc : CreatorSteps, project : IDs]]
         /\ creator'[c].pc = step /\ creator'[c].project = creator[c].project
         /\ \A b \in Creates \ {c} : creator'[b] = creator[b]
<1> DEFINE r == [pc |-> step, project |-> creator[c].project]
<1>1. creator \in [Creates -> [pc : CreatorSteps, project : IDs]]
  BY DEF TypeOK, CreatorSteps
<1>2. creator' = [creator EXCEPT ![c] = r]
  <2>1. creator[c] \in [pc : CreatorSteps, project : IDs]
    BY <1>1
  <2>2. [creator[c] EXCEPT !.pc = step] = r
    BY <2>1
  <2> QED BY <2>2 DEF CreatorAt
<1>3. r \in [pc : CreatorSteps, project : IDs]
  BY <1>1
<1> HIDE DEF r
<1>4. /\ creator' \in [Creates -> [pc : CreatorSteps, project : IDs]]
      /\ creator'[c] = r
      /\ \A b \in Creates \ {c} : creator'[b] = creator[b]
  BY <1>1, <1>2, <1>3
<1> QED BY <1>4 DEF r

LEMMA PosterMoves ==
  ASSUME TypeOK, NEW q \in Posts, NEW step \in PosterSteps,
         NEW todo \in SUBSET IDs, NEW ns \in Creates \cup {None},
         \/ poster' = [poster EXCEPT ![q].pc = step] /\ todo = poster[q].todo
              /\ ns = poster[q].ns
         \/ poster' = [poster EXCEPT ![q].pc = step, ![q].todo = todo]
              /\ ns = poster[q].ns
         \/ poster' = [poster EXCEPT ![q].pc = step, ![q].ns = ns]
              /\ todo = poster[q].todo
  PROVE  /\ poster' \in [Posts -> [pc : PosterSteps, todo : SUBSET IDs,
                                   ns : Creates \cup {None}]]
         /\ poster'[q].pc = step /\ poster'[q].todo = todo /\ poster'[q].ns = ns
         /\ \A o \in Posts \ {q} : poster'[o] = poster[o]
<1> DEFINE R == [pc : PosterSteps, todo : SUBSET IDs, ns : Creates \cup {None}]
           r == [pc |-> step, todo |-> todo, ns |-> ns]
<1>1. poster \in [Posts -> R]
  BY DEF TypeOK, PosterSteps
<1>2. poster' = [poster EXCEPT ![q] = r]
  BY <1>1
<1>3. r \in R
  OBVIOUS
<1> HIDE DEF r, R
<1>4. /\ poster' \in [Posts -> R] /\ poster'[q] = r
      /\ \A o \in Posts \ {q} : poster'[o] = poster[o]
  BY <1>1, <1>2, <1>3
<1> QED BY <1>4 DEF r, R

CreateStep(c) ==
  \/ \E p \in IDs : Create(c, p)
  \/ \E s \in Specs : StoreProject(c, s)
  \/ CreateNamespace(c) \/ CreateNamespaceObjects(c) \/ CreateFails(c)
  \/ \E caller \in Callers : AssignRoles(c, caller)

UpdateStep(u) ==
  (\E p \in IDs : Update(u, p)) \/ \E s \in Specs : UpdateProject(u, s)

DeleteStep(d) ==
  \/ \E p \in IDs : Delete(d, p)
  \/ DeleteDoc(d) \/ DeleteEvents(d) \/ DeleteNamespace(d) \/ DeleteFails(d)

PostStep(q) ==
  \/ \E p \in IDs : PostToProject(q, p)
  \/ \E msg \in Messages : PostToSubscribers(q, msg)
  \/ GetProject(q) \/ StoreEvent(q) \/ CreateEventSecret(q)
  \/ PublishEvent(q) \/ PostFails(q)

StartStep(s) ==
  \/ \E e \in queue : Start(s, e)
  \/ GetProjectOfEvent(s) \/ CreateWorkerPod(s) \/ StartFails(s)

LEMMA NextIs ==
  Next <=> \/ \E c \in Creates : CreateStep(c)
           \/ \E u \in Updates : UpdateStep(u)
           \/ \E d \in Deletes : DeleteStep(d)
           \/ \E q \in Posts : PostStep(q)
           \/ \E s \in Starts : StartStep(s)
BY DEF Next, CreateStep, UpdateStep, DeleteStep, PostStep, StartStep

LEMMA CreateTypes ==
  ASSUME TypeInv, NEW c \in Creates, CreateStep(c)
  PROVE  TypeInv'
<1> USE DEF eventVars, workerVars, auxVars
<1>0. Located'
  BY DEF TypeInv, Located, CreateStep, Create, StoreProject, CreateNamespace,
         CreateNamespaceObjects, AssignRoles, CreateFails, Posting, HasProject
<1>1. ASSUME NEW step \in CreatorSteps, CreatorAt(c, step)
      PROVE  creator' \in
               [Creates -> [pc : {"idle", "store", "namespace", "objects", "roles",
                                  "done", "failed"}, project : IDs]]
  BY <1>1, CreatorMoves DEF TypeInv, CreatorSteps
<1>2. ASSUME NEW p \in IDs, Create(c, p) PROVE TypeOK'
  BY <1>2 DEF Create, TypeInv, TypeOK
<1>3. ASSUME NEW s \in Specs, StoreProject(c, s) PROVE TypeOK'
  <2>1. [ns |-> c, spec |-> s] \in Docs
    BY DEF Docs
  <2> QED BY <1>1, <1>3, <2>1 DEF StoreProject, CreatorSteps, TypeInv, TypeOK
<1>4. ASSUME CreateNamespace(c) PROVE TypeOK'
  BY <1>1, <1>4 DEF CreateNamespace, CreatorSteps, TypeInv, TypeOK
<1>5. ASSUME CreateNamespaceObjects(c) PROVE TypeOK'
  BY <1>1, <1>5 DEF CreateNamespaceObjects, CreatorSteps, TypeInv, TypeOK
<1>6. ASSUME NEW caller \in Callers, AssignRoles(c, caller) PROVE TypeOK'
  BY <1>1, <1>6 DEF AssignRoles, CreatorSteps, TypeInv, TypeOK
<1>7. ASSUME CreateFails(c) PROVE TypeOK'
  BY <1>1, <1>7 DEF CreateFails, CreatorSteps, TypeInv, TypeOK
<1> QED BY <1>0, <1>2, <1>3, <1>4, <1>5, <1>6, <1>7 DEF CreateStep, TypeInv

LEMMA UpdateTypes ==
  ASSUME TypeInv, NEW u \in Updates, UpdateStep(u)
  PROVE  TypeInv'
<1> USE DEF TypeInv, TypeOK, eventVars, workerVars, auxVars
<1>0. Located' 
  BY DEF Located, UpdateStep, Update, UpdateProject, Posting, HasProject
<1>1. ASSUME NEW p \in IDs, Update(u, p) PROVE TypeOK'
  BY <1>1, ExistsNs DEF Update
<1>2. ASSUME NEW s \in Specs, UpdateProject(u, s) PROVE TypeOK'
  <2> DEFINE p == updater[u].project
  <2>1. p \in IDs /\ (Exists(p) => doc[p] \in Docs)
    BY ExistsNs
  <2>2. doc' \in [IDs -> Docs \cup {NoDoc}]
    BY <1>2, <2>1 DEF UpdateProject, Docs
  <2>3. updater' = [updater EXCEPT ![u] = [updater[u] EXCEPT !.pc = "done"]]
    BY <1>2 DEF UpdateProject
  <2>4. updater' \in [Updates -> [pc : {"idle", "store", "done"}, project : IDs,
                                  ns : Creates \cup {None}]]
    BY <2>3
  <2> QED BY <1>2, <2>2, <2>4 DEF UpdateProject
<1> QED BY <1>0, <1>1, <1>2 DEF UpdateStep

LEMMA DeleteTypes ==
  ASSUME TypeInv, NEW d \in Deletes, DeleteStep(d)
  PROVE  TypeInv'
<1> USE DEF TypeInv, TypeOK, eventVars, workerVars, auxVars
<1>0. deleter[d].pc # "idle" => deleter[d].ns \in Creates
  BY DEF Located
<1>1. ASSUME NEW p \in IDs, Delete(d, p) PROVE TypeInv'
  BY <1>1, ExistsNs DEF Delete, Located, Posting, HasProject
<1>2. CASE DeleteDoc(d)
  BY <1>2 DEF DeleteDoc, DeleterAt, Located, Posting, HasProject
<1>3. CASE DeleteEvents(d)
  BY <1>3 DEF DeleteEvents, DeleterAt, Located, Posting, HasProject
<1>4. CASE DeleteNamespace(d)
  BY <1>4 DEF DeleteNamespace, DeleterAt, Located, Posting, HasProject
<1>5. CASE DeleteFails(d)
  BY <1>0, <1>5 DEF DeleteFails, DeleterAt, Located, Posting, HasProject
<1> QED BY <1>1, <1>2, <1>3, <1>4, <1>5 DEF DeleteStep

LEMMA PostTypes ==
  ASSUME TypeInv, NEW q \in Posts, PostStep(q)
  PROVE  TypeInv'
<1>0. /\ poster[q].todo \in SUBSET IDs /\ poster[q].ns \in Creates \cup {None}
      /\ Posting(q) => poster[q].todo # {} /\ Current(q) \in IDs
      /\ HasProject(q) => poster[q].ns \in Creates /\ EventOf(q) \in Event
      /\ HasProject(q) => Posting(q)
  BY CurrentIn, EventOfType DEF TypeInv, TypeOK, Located, Posting, HasProject
<1>1. ASSUME NEW step \in PosterSteps, NEW todo \in SUBSET IDs,
             NEW ns \in Creates \cup {None},
             \/ poster' = [poster EXCEPT ![q].pc = step] /\ todo = poster[q].todo
                  /\ ns = poster[q].ns
             \/ poster' = [poster EXCEPT ![q].pc = step, ![q].todo = todo]
                  /\ ns = poster[q].ns
             \/ poster' = [poster EXCEPT ![q].pc = step, ![q].ns = ns]
                  /\ todo = poster[q].todo,
             step \in {"project", "event", "secret", "publish"} => todo # {},
             step \in {"event", "secret", "publish"} => ns \in Creates,
             UNCHANGED <<doc, space, roles, pods, starter, creator, updater, deleter,
                         leaked, cut, overtaken>>,
             \E E \in SUBSET Event :
               /\ events' = events \cup E \/ events' = events
               /\ secrets' = secrets \cup E \/ secrets' = secrets
               /\ queue' = queue \cup E \/ queue' = queue
               /\ late' = late \cup E \/ late' = late
      PROVE  TypeInv'
  <2>1. /\ poster' \in [Posts -> [pc : PosterSteps, todo : SUBSET IDs,
                                  ns : Creates \cup {None}]]
        /\ poster'[q].pc = step /\ poster'[q].todo = todo /\ poster'[q].ns = ns
        /\ \A o \in Posts \ {q} : poster'[o] = poster[o]
    BY <1>1, PosterMoves DEF TypeInv
  <2>2. TypeOK'
    BY <1>1, <2>1 DEF TypeInv, TypeOK, PosterSteps
  <2>3. Located'
    BY <1>1, <2>1 DEF TypeInv, Located, Posting, HasProject
  <2> QED BY <2>2, <2>3 DEF TypeInv
<1> USE DEF PosterSteps, Posting, HasProject, eventVars, workerVars, auxVars
<1>2. ASSUME NEW p \in IDs, PostToProject(q, p) PROVE TypeInv'
  <2>1. {p} \in SUBSET IDs /\ {p} # {}
    OBVIOUS
  <2> QED BY <1>0, <1>1, <1>2, <2>1 DEF PostToProject
<1>3. ASSUME NEW msg \in Messages, PostToSubscribers(q, msg) PROVE TypeInv'
  <2>1. Subscribers(msg) \subseteq IDs
    BY DEF Subscribers
  <2> QED BY <1>0, <1>1, <1>3, <2>1 DEF PostToSubscribers
<1>4. CASE GetProject(q)
  <2>1. /\ doc[Current(q)].ns \in Creates \cup {None}
        /\ Exists(Current(q)) => doc[Current(q)].ns \in Creates
    BY <1>0, <1>4, ExistsNs DEF GetProject, TypeInv
  <2> QED BY <1>0, <1>1, <1>4, <2>1 DEF GetProject
<1>5. CASE StoreEvent(q)
  <2>1. {EventOf(q)} \in SUBSET Event
    BY <1>0, <1>5 DEF StoreEvent
  <2>2. late' = late \cup {EventOf(q)} \/ late' = late
    BY <1>5 DEF StoreEvent
  <2> QED BY <1>0, <1>1, <1>5, <2>1, <2>2 DEF StoreEvent, PosterAt
<1>6. CASE CreateEventSecret(q)
  <2>1. {EventOf(q)} \in SUBSET Event
    BY <1>0, <1>6 DEF CreateEventSecret
  <2> QED BY <1>0, <1>1, <1>6, <2>1 DEF CreateEventSecret, PosterAt
<1>7. CASE PublishEvent(q)
  <2>1. {EventOf(q)} \in SUBSET Event
    BY <1>0, <1>7 DEF PublishEvent
  <2>2. poster[q].todo \ {Current(q)} \in SUBSET IDs
    BY <1>0
  <2> QED BY <1>0, <1>1, <1>7, <2>1, <2>2 DEF PublishEvent
<1>8. CASE PostFails(q)
  BY <1>0, <1>1, <1>8 DEF PostFails, PosterAt
<1> QED BY <1>2, <1>3, <1>4, <1>5, <1>6, <1>7, <1>8 DEF PostStep

(* What a Start that moves on leaves of the others.                        *)
LEMMA StarterMoves ==
  ASSUME TypeInv, NEW s \in Starts, NEW r, starter' = [starter EXCEPT ![s] = r]
  PROVE  starter'[s] = r /\ \A o \in Starts \ {s} : starter'[o] = starter[o]
BY DEF TypeInv, TypeOK

LEMMA StartTypes ==
  ASSUME TypeInv, NEW s \in Starts, StartStep(s)
  PROVE  TypeInv'
<1> USE DEF requestVars, auxVars
<1>0. UNCHANGED <<doc, space, roles, events, secrets, queue, requestVars, auxVars>>
  BY DEF StartStep, Start, GetProjectOfEvent, CreateWorkerPod, StartFails
<1>1. ASSUME NEW r \in [pc : {"idle", "project", "pod"}, event : Event \cup {None},
                        ns : Creates \cup {None}],
             starter' = [starter EXCEPT ![s] = r],
             r.pc # "idle" => r.event \in Event, r.pc = "pod" => r.ns \in Creates,
             pods' \subseteq [event : Event, ns : Creates]
      PROVE  TypeInv'
  <2>1. TypeOK'
    BY <1>0, <1>1 DEF TypeInv, TypeOK
  <2>2. \A o \in Starts : /\ starter'[o].pc # "idle" => starter'[o].event \in Event
                          /\ starter'[o].pc = "pod" => starter'[o].ns \in Creates
    BY <1>1, StarterMoves DEF TypeInv, Located
  <2>3. Located'
    BY <1>0, <2>2 DEF TypeInv, Located, Posting, HasProject
  <2> QED BY <2>1, <2>3 DEF TypeInv
<1>2. pods \subseteq [event : Event, ns : Creates]
  BY DEF TypeInv, TypeOK
<1>3. ASSUME NEW e \in queue, Start(s, e) PROVE TypeInv'
  <2>1. e \in Event
    BY DEF TypeInv, TypeOK
  <2> QED BY <1>1, <1>2, <1>3, <2>1 DEF Start
<1>4. CASE GetProjectOfEvent(s)
  <2> DEFINE p == starter[s].event.project
  <2>1. /\ starter[s] \in [pc : {"idle", "project", "pod"}, event : Event \cup {None},
                           ns : Creates \cup {None}]
        /\ starter[s].event \in Event /\ p \in IDs
    BY <1>4 DEF GetProjectOfEvent, TypeInv, TypeOK, Located, Event
  <2>2. Exists(p) => doc[p].ns \in Creates
    BY <2>1, ExistsNs DEF TypeInv
  <2>3. CASE Exists(p)
    BY <1>1, <1>2, <1>4, <2>1, <2>2, <2>3 DEF GetProjectOfEvent
  <2>4. CASE ~Exists(p)
    BY <1>1, <1>2, <1>4, <2>4 DEF GetProjectOfEvent, NotStarting
  <2> QED BY <2>3, <2>4
<1>5. CASE CreateWorkerPod(s)
  <2>1. starter[s].event \in Event /\ starter[s].ns \in Creates
    BY <1>5 DEF CreateWorkerPod, TypeInv, Located
  <2>2. pods' \subseteq [event : Event, ns : Creates]
    BY <1>2, <1>5, <2>1 DEF CreateWorkerPod
  <2>3. starter' = [starter EXCEPT ![s] = NotStarting]
    BY <1>5 DEF CreateWorkerPod
  <2> QED BY <1>1, <2>2, <2>3 DEF NotStarting
<1>6. CASE StartFails(s)
  BY <1>1, <1>2, <1>6 DEF StartFails, NotStarting
<1> QED BY <1>3, <1>4, <1>5, <1>6 DEF StartStep

LEMMA NextTypes == TypeInv /\ [Next]_vars => TypeInv'
<1>1. TypeInv /\ UNCHANGED vars => TypeInv'
  BY DEF vars, eventVars, workerVars, requestVars, auxVars, TypeInv, TypeOK, Located, Posting,
         HasProject
<1> QED BY <1>1, NextIs, CreateTypes, UpdateTypes, DeleteTypes, PostTypes, StartTypes

(* Every reachable state is well typed: no event is stored, secret copied  *)
(* or worker started without a project and a namespace, and no Delete takes*)
(* a namespace down that no Create named.                                  *)
THEOREM ProjectsTypeCorrect == Spec => []TypeOK
<1>1. TypeInv => TypeOK
  BY DEF TypeInv
<1> QED BY <1>1, InitTypes, NextTypes, PTL DEF Spec

-----------------------------------------------------------------------------
(* Namespaces.  No one knows the namespace of a Create that has not stored *)
(* its project; one that a project or a Delete knows belongs to the project*)
(* ID its Create was called for; and once a Delete has removed a document, *)
(* the namespace it read is that of no project again: an ID that is used   *)
(* anew comes with another namespace.                                      *)

Fresh(c) == creator[c].pc \in {"idle", "store"}

NamespacesKnown ==
  \A c \in Creates :
    /\ \A p \in IDs : doc[p].ns = c => creator[c].project = p /\ ~Fresh(c)
    /\ \A d \in Deletes :
         deleter[d].ns = c => creator[c].project = deleter[d].project /\ ~Fresh(c)

NamespacesMade ==
  \A c \in Creates :
    /\ Fresh(c) \/ creator[c].pc = "namespace" => space[c] = "none"
    /\ creator[c].pc \in {"roles", "done"} => space[c] \in {"ready", "gone"}

Abandons(d) == deleter[d].pc \in {"events", "namespace"}

NamespacesLeft ==
  \A p \in IDs :
    /\ \A d \in Deletes : Abandons(d) => doc[p].ns # deleter[d].ns
    /\ \A c \in Creates : space[c] = "gone" => doc[p].ns # c

SpaceInv ==
  NamespacesKnown /\ NamespacesMade /\ NamespacesLeft /\ NamespacesAccounted

(* Events.  What is in the queue has its secret.                           *)
QueuedHaveSecrets ==
  /\ queue \subseteq secrets
  /\ \A q \in Posts : poster[q].pc = "publish" => EventOf(q) \in secrets

EventInv == QueuedHaveSecrets /\ EventsHaveProject

LEMMA InitSpaceInv == Init => SpaceInv
<1> SUFFICES ASSUME Init PROVE SpaceInv
  OBVIOUS
<1>1. /\ \A p \in IDs : doc[p].ns = None
      /\ \A c \in Creates : space[c] = "none" /\ creator[c].pc = "idle"
      /\ \A d \in Deletes : deleter[d].ns = None /\ deleter[d].pc = "idle"
  BY DEF Init, NoDoc
<1> QED BY <1>1, NoneAssumption
        DEF SpaceInv, NamespacesKnown, NamespacesMade, NamespacesLeft, Abandons,
            NamespacesAccounted, Alive, Fresh

(* A Create moves on, past no step at which its namespace becomes known or *)
(* changes, or begins.                                                     *)
LEMMA SpaceCreate ==
  ASSUME TypeInv, SpaceInv, NEW c \in Creates, CreateStep(c)
  PROVE  SpaceInv'
<1> USE DEF SpaceInv
<1>0. /\ UNCHANGED deleter
      /\ \A b \in Creates : Removing(b)' <=> Removing(b)
  BY DEF CreateStep, Create, StoreProject, CreateNamespace, CreateNamespaceObjects,
         AssignRoles, CreateFails, Removing
<1>1. ASSUME NEW p \in IDs, Create(c, p) PROVE SpaceInv'
  <2>1. /\ creator[c].pc = "idle" /\ creator'[c].pc = "store"
        /\ \A b \in Creates \ {c} : creator'[b] = creator[b]
        /\ UNCHANGED <<doc, space, leaked>>
    BY <1>1 DEF Create, TypeInv, TypeOK, auxVars
  <2>2. NamespacesKnown' /\ NamespacesMade' /\ NamespacesLeft'
    BY <1>0, <2>1 DEF NamespacesKnown, NamespacesMade, NamespacesLeft, Abandons, Fresh
  <2>3. space[c] \notin Alive
    BY <2>1 DEF NamespacesMade, Fresh, Alive
  <2> QED BY <1>0, <2>1, <2>2, <2>3 DEF NamespacesAccounted
<1>2. ASSUME NEW step \in CreatorSteps \ {"idle", "store"}, CreatorAt(c, step)
      PROVE  /\ ~Fresh(c)' /\ creator'[c].pc = step
             /\ \A b \in Creates : creator'[b].project = creator[b].project
             /\ \A b \in Creates \ {c} : creator'[b] = creator[b]
  BY <1>2, CreatorMoves DEF TypeInv, Fresh
<1>3. ASSUME NEW s \in Specs, StoreProject(c, s), Exists(creator[c].project)
      PROVE  SpaceInv'
  <2>1. CreatorAt(c, "failed") /\ UNCHANGED <<doc, space, leaked>>
    BY <1>3 DEF StoreProject, auxVars
  <2>2. "failed" \in CreatorSteps \ {"idle", "store"}
    BY DEF CreatorSteps
  <2> QED BY <1>0, <1>2, <2>1, <2>2
          DEF NamespacesKnown, NamespacesMade, NamespacesLeft, Abandons, Fresh,
              NamespacesAccounted
<1>4. ASSUME NEW s \in Specs, StoreProject(c, s), ~Exists(creator[c].project)
      PROVE  SpaceInv'
  <2> DEFINE p == creator[c].project
  <2>1. /\ creator[c].pc = "store" /\ CreatorAt(c, "namespace")
        /\ UNCHANGED <<space, leaked>>
        /\ doc' = [doc EXCEPT ![p] = [ns |-> c, spec |-> s]]
    BY <1>4 DEF StoreProject, auxVars
  <2>2. /\ creator'[c].pc = "namespace"
        /\ \A b \in Creates : creator'[b].project = creator[b].project
        /\ \A b \in Creates \ {c} : creator'[b] = creator[b]
        /\ ~Fresh(c)'
    BY <1>2, <2>1 DEF CreatorSteps
  <2>3. p \in IDs /\ doc[p].ns = None
    BY <1>4, ExistsNs DEF TypeInv, TypeOK
  <2>4. doc'[p].ns = c /\ \A o \in IDs \ {p} : doc'[o] = doc[o]
    BY <2>1, <2>3 DEF TypeInv, TypeOK
  <2>5. Fresh(c) /\ space[c] = "none" /\ \A d \in Deletes : deleter[d].ns # c
    BY <2>1 DEF Fresh, NamespacesMade, NamespacesKnown
  <2>6. NamespacesKnown'
    BY <1>0, <2>2, <2>4, <2>5 DEF NamespacesKnown, Fresh
  <2>7. NamespacesMade'
    BY <2>1, <2>2, <2>5 DEF NamespacesMade, Fresh
  <2>8. NamespacesLeft'
    BY <1>0, <2>1, <2>4, <2>5 DEF NamespacesLeft, Abandons
  <2>9. NamespacesAccounted'
    <3> SUFFICES ASSUME NEW b \in Creates, space[b] \in Alive
                 PROVE  doc'[creator[b].project].ns = b \/ Removing(b) \/ b \in leaked
      BY <1>0, <2>1, <2>2 DEF NamespacesAccounted
    <3>1. doc[creator[b].project].ns = b \/ Removing(b) \/ b \in leaked
      BY DEF NamespacesAccounted
    <3>2. creator[b].project \in IDs /\ b # None
      BY NoneAssumption DEF TypeInv, TypeOK
    <3> QED BY <2>3, <2>4, <3>1, <3>2
  <2> QED BY <2>6, <2>7, <2>8, <2>9
<1>5. CASE CreateNamespace(c)
  <2>1. /\ creator[c].pc = "namespace" /\ CreatorAt(c, "objects") /\ UNCHANGED doc
        /\ space' = [space EXCEPT ![c] = "bare"] /\ leaked \subseteq leaked'
        /\ doc[creator[c].project].ns = c \/ Removing(c) \/ c \in leaked'
    BY <1>5 DEF CreateNamespace
  <2>2. /\ creator'[c].pc = "objects" /\ ~Fresh(c)'
        /\ \A b \in Creates : creator'[b].project = creator[b].project
        /\ \A b \in Creates \ {c} : creator'[b] = creator[b]
    BY <1>2, <2>1 DEF CreatorSteps
  <2>3. space'[c] = "bare" /\ \A b \in Creates \ {c} : space'[b] = space[b]
    BY <2>1 DEF TypeInv, TypeOK
  <2>4. NamespacesKnown'
    BY <1>0, <2>1, <2>2 DEF NamespacesKnown, Fresh
  <2>5. NamespacesMade' /\ NamespacesLeft'
    BY <1>0, <2>1, <2>2, <2>3 DEF NamespacesMade, NamespacesLeft, Abandons, Fresh
  <2>6. NamespacesAccounted'
    BY <1>0, <2>1, <2>2, <2>3 DEF NamespacesAccounted
  <2> QED BY <2>4, <2>5, <2>6
<1>6. CASE \/ CreateNamespaceObjects(c) \/ CreateFails(c)
           \/ \E caller \in Callers : AssignRoles(c, caller)
  <2>1. UNCHANGED <<doc, leaked>>
    BY <1>6 DEF CreateNamespaceObjects, CreateFails, AssignRoles, auxVars
  <2>2. PICK step \in {"roles", "done", "failed"} : CreatorAt(c, step)
    BY <1>6 DEF CreateNamespaceObjects, CreateFails, AssignRoles
  <2>3. /\ creator'[c].pc = step /\ ~Fresh(c)'
        /\ \A b \in Creates : creator'[b].project = creator[b].project
        /\ \A b \in Creates \ {c} : creator'[b] = creator[b]
    BY <1>2, <2>2 DEF CreatorSteps
  <2>4. /\ step \in {"roles", "done"} => space'[c] \in {"ready", "gone"}
        /\ \A b \in Creates : \/ space'[b] = space[b]
                              \/ b = c /\ space[b] = "bare" /\ space'[b] = "ready"
    <3>1. CASE CreateNamespaceObjects(c) /\ space[c] = "bare"
      BY <1>6, <3>1 DEF CreateNamespaceObjects, TypeInv, TypeOK
    <3>2. CASE CreateNamespaceObjects(c) /\ space[c] # "bare"
      <4>1. CreatorAt(c, "failed") /\ UNCHANGED space
        BY <3>2 DEF CreateNamespaceObjects
      <4>2. creator'[c].pc = "failed"
        BY <1>2, <4>1 DEF CreatorSteps
      <4> QED BY <2>3, <4>1, <4>2
    <3>3. CASE CreateFails(c)
      <4>1. CreatorAt(c, "failed") /\ UNCHANGED space
        BY <3>3 DEF CreateFails
      <4>2. creator'[c].pc = "failed"
        BY <1>2, <4>1 DEF CreatorSteps
      <4> QED BY <2>3, <4>1, <4>2
    <3>4. ASSUME NEW caller \in Callers, AssignRoles(c, caller)
          PROVE  space' = space /\ space[c] \in {"ready", "gone"}
      BY <3>4 DEF AssignRoles, NamespacesMade
    <3> QED BY <1>6, <3>1, <3>2, <3>3, <3>4
  <2>5. NamespacesKnown'
    BY <1>0, <2>1, <2>3 DEF NamespacesKnown, Fresh
  <2>6. NamespacesMade'
    BY <2>2, <2>3, <2>4 DEF NamespacesMade, Fresh
  <2>7. NamespacesLeft'
    BY <1>0, <2>1, <2>4 DEF NamespacesLeft, Abandons
  <2>8. NamespacesAccounted'
    BY <1>0, <2>1, <2>3, <2>4 DEF NamespacesAccounted, Alive
  <2> QED BY <2>5, <2>6, <2>7, <2>8
<1> QED BY <1>1, <1>3, <1>4, <1>5, <1>6 DEF CreateStep

(* An Update never changes the namespace of a document.                    *)
LEMMA UpdateKeepsNs ==
  ASSUME TypeInv, NEW u \in Updates, UpdateStep(u)
  PROVE  \A p \in IDs : doc'[p].ns = doc[p].ns
<1>1. ASSUME NEW s \in Specs, UpdateProject(u, s), NEW p \in IDs
      PROVE  doc'[p].ns = doc[p].ns
  <2>1. Exists(updater[u].project) => doc[updater[u].project] \in Docs
    BY ExistsNs DEF TypeInv, TypeOK
  <2> QED BY <1>1, <2>1 DEF UpdateProject, TypeInv, TypeOK, Docs
<1> QED BY <1>1 DEF UpdateStep, Update

LEMMA SpaceUpdate ==
  ASSUME TypeInv, SpaceInv, NEW u \in Updates, UpdateStep(u)
  PROVE  SpaceInv'
<1>1. UNCHANGED <<space, creator, deleter, leaked>>
  BY DEF UpdateStep, Update, UpdateProject, auxVars
<1>2. \A p \in IDs : doc'[p].ns = doc[p].ns
  BY UpdateKeepsNs
<1>3. \A c \in Creates : creator[c].project \in IDs
  BY DEF TypeInv, TypeOK
<1> QED BY <1>1, <1>2, <1>3
        DEF SpaceInv, NamespacesKnown, NamespacesMade, NamespacesLeft, Abandons,
            NamespacesAccounted, Fresh, Removing

-----------------------------------------------------------------------------
(* A Delete moves on: it keeps what it read.                               *)
LEMMA DeleterMoves ==
  ASSUME TypeOK, NEW d \in Deletes, NEW step, DeleterAt(d, step)
  PROVE  /\ deleter'[d].pc = step /\ deleter'[d].ns = deleter[d].ns
         /\ deleter'[d].project = deleter[d].project
         /\ \A o \in Deletes \ {d} : deleter'[o] = deleter[o]
BY DEF DeleterAt, TypeOK

LEMMA SpaceDelete ==
  ASSUME TypeInv, SpaceInv, NEW d \in Deletes, DeleteStep(d)
  PROVE  SpaceInv'
<1> USE DEF SpaceInv
<1>0. /\ UNCHANGED creator /\ deleter[d].project \in IDs
      /\ \A c \in Creates : creator[c].project \in IDs
  BY DEF DeleteStep, Delete, DeleteDoc, DeleteEvents, DeleteNamespace, DeleteFails,
         TypeInv, TypeOK
<1>1. ASSUME NEW p \in IDs, Delete(d, p) PROVE SpaceInv'
  <2>1. /\ deleter'[d].pc = "doc" /\ deleter'[d].project = p
        /\ deleter'[d].ns = doc[p].ns
        /\ \A o \in Deletes \ {d} : deleter'[o] = deleter[o]
        /\ deleter[d].pc = "idle" /\ UNCHANGED <<doc, space, leaked>>
    BY <1>1 DEF Delete, TypeInv, TypeOK, auxVars
  <2>2. NamespacesKnown'
    BY <1>0, <2>1 DEF NamespacesKnown, Fresh
  <2>3. NamespacesMade' /\ NamespacesLeft'
    BY <1>0, <2>1 DEF NamespacesMade, NamespacesLeft, Abandons, Fresh
  <2>4. \A c \in Creates : Removing(c) => Removing(c)'
    BY <2>1 DEF Removing
  <2> QED BY <1>0, <2>1, <2>2, <2>3, <2>4 DEF NamespacesAccounted
<1>2. CASE DeleteDoc(d)
  <2> DEFINE p == deleter[d].project
  <2>1. /\ deleter'[d].ns = deleter[d].ns /\ deleter'[d].project = p
        /\ deleter'[d].pc = IF Exists(p) THEN "events" ELSE "failed"
        /\ \A o \in Deletes \ {d} : deleter'[o] = deleter[o]
        /\ deleter[d].pc = "doc" /\ UNCHANGED space
    BY <1>2, DeleterMoves DEF DeleteDoc, TypeInv
  <2>2. doc'[p].ns = None /\ \A o \in IDs \ {p} : doc'[o] = doc[o]
    BY <1>0, <1>2 DEF DeleteDoc, NoDoc, TypeInv, TypeOK
  <2>3. deleter[d].ns \in Creates
    BY <2>1 DEF TypeInv, Located
  <2>4. NamespacesKnown'
    BY <1>0, <2>1, <2>2, NoneAssumption DEF NamespacesKnown, Fresh
  <2>5. NamespacesMade'
    BY <1>0, <2>1 DEF NamespacesMade, Fresh
  <2>6. NamespacesLeft'
    <3>1. \A o \in IDs \ {p} : doc[o].ns # deleter[d].ns
      BY <2>3 DEF NamespacesKnown
    <3> QED BY <2>1, <2>2, <2>3, <3>1, NoneAssumption
            DEF NamespacesLeft, Abandons, TypeInv, Located
  <2>7. NamespacesAccounted'
    <3> SUFFICES ASSUME NEW c \in Creates, space[c] \in Alive
                 PROVE  \/ doc'[creator[c].project].ns = c
                        \/ Removing(c)' \/ c \in leaked'
      BY <1>0, <2>1 DEF NamespacesAccounted
    <3>1. Removing(c) => Removing(c)'
      BY <2>1 DEF Removing
    <3>2. leaked' = leaked \cup {b \in Creates \ {deleter[d].ns} :
                                  doc[p].ns = b /\ space[b] \in Alive}
      BY <1>2 DEF DeleteDoc
    <3>3. CASE doc[creator[c].project].ns = c /\ creator[c].project = p
      <4>1. Exists(p)
        BY <1>0, <3>3, ExistsNs DEF TypeInv
      <4>2. c = deleter[d].ns => Removing(c)'
        BY <2>1, <4>1 DEF Removing
      <4> QED BY <3>2, <3>3, <4>2
    <3> QED BY <1>0, <2>2, <3>1, <3>2, <3>3 DEF NamespacesAccounted
  <2> QED BY <2>4, <2>5, <2>6, <2>7
<1>3. CASE DeleteEvents(d)
  <2>1. /\ deleter'[d].pc = "namespace" /\ deleter'[d].ns = deleter[d].ns
        /\ deleter'[d].project = deleter[d].project
        /\ \A o \in Deletes \ {d} : deleter'[o] = deleter[o]
        /\ deleter[d].pc = "events" /\ UNCHANGED <<doc, space, leaked>>
    BY <1>3, DeleterMoves DEF DeleteEvents, TypeInv, auxVars
  <2>2. \A c \in Creates : Removing(c) => Removing(c)'
    BY <2>1 DEF Removing
  <2> QED BY <1>0, <2>1, <2>2
          DEF NamespacesKnown, NamespacesMade, NamespacesLeft, Abandons, Fresh,
              NamespacesAccounted
<1>4. CASE DeleteNamespace(d)
  <2> DEFINE b == deleter[d].ns
  <2>1. /\ deleter'[d].pc \in {"done", "failed"} /\ deleter'[d].ns = b
        /\ deleter'[d].project = deleter[d].project
        /\ \A o \in Deletes \ {d} : deleter'[o] = deleter[o]
        /\ deleter[d].pc = "namespace" /\ UNCHANGED <<doc, leaked>>
    BY <1>4, DeleterMoves DEF DeleteNamespace, TypeInv, auxVars
  <2>2. b \in Creates /\ \A p \in IDs : doc[p].ns # b
    BY <2>1 DEF TypeInv, Located, NamespacesLeft, Abandons
  <2>3. /\ \A c \in Creates \ {b} : space'[c] = space[c]
        /\ space'[b] = IF space[b] \in Alive THEN "gone" ELSE space[b]
    BY <1>4, <2>2 DEF DeleteNamespace, TypeInv, TypeOK
  <2>4. NamespacesKnown'
    BY <1>0, <2>1 DEF NamespacesKnown, Fresh
  <2>5. NamespacesMade'
    BY <1>0, <2>2, <2>3 DEF NamespacesMade, Fresh, Alive
  <2>6. NamespacesLeft'
    BY <1>0, <2>1, <2>2, <2>3 DEF NamespacesLeft, Abandons
  <2>7. NamespacesAccounted'
    <3>1. space'[b] \notin Alive
      BY <2>3 DEF Alive
    <3>2. \A c \in Creates \ {b} : Removing(c) => Removing(c)'
      BY <2>1 DEF Removing
    <3> QED BY <1>0, <2>1, <2>3, <3>1, <3>2 DEF NamespacesAccounted
  <2> QED BY <2>4, <2>5, <2>6, <2>7
<1>5. CASE DeleteFails(d)
  <2> DEFINE b == deleter[d].ns
  <2>1. /\ deleter'[d].pc = "failed" /\ deleter'[d].ns = b
        /\ deleter'[d].project = deleter[d].project
        /\ \A o \in Deletes \ {d} : deleter'[o] = deleter[o]
        /\ UNCHANGED <<doc, space>> /\ leaked \subseteq leaked'
    BY <1>5, DeleterMoves DEF DeleteFails, TypeInv
  <2>2. deleter[d].pc # "doc" /\ space[b] \in Alive => b \in leaked'
    BY <1>5 DEF DeleteFails
  <2>3. NamespacesKnown' /\ NamespacesMade' /\ NamespacesLeft'
    BY <1>0, <2>1 DEF NamespacesKnown, NamespacesMade, NamespacesLeft, Abandons, Fresh
  <2>4. \A c \in Creates :
          Removing(c) => Removing(c)' \/ (c = b /\ deleter[d].pc # "doc")
    BY <2>1 DEF Removing
  <2>5. NamespacesAccounted'
    BY <1>0, <2>1, <2>2, <2>4 DEF NamespacesAccounted
  <2> QED BY <2>3, <2>5
<1> QED BY <1>1, <1>2, <1>3, <1>4, <1>5 DEF DeleteStep

LEMMA NextSpaceInv == TypeInv /\ SpaceInv /\ [Next]_vars => SpaceInv'
<1> SUFFICES ASSUME TypeInv, SpaceInv, [Next]_vars PROVE SpaceInv'
  OBVIOUS
<1>1. ASSUME UNCHANGED <<doc, space, creator, deleter, leaked>> PROVE SpaceInv'
  BY <1>1 DEF SpaceInv, NamespacesKnown, NamespacesMade, NamespacesLeft, Abandons,
              NamespacesAccounted, Fresh, Removing
<1>2. ASSUME NEW q \in Posts, PostStep(q) PROVE SpaceInv'
  BY <1>1, <1>2 DEF PostStep, PostToProject, PostToSubscribers, GetProject,
                    StoreEvent, CreateEventSecret, PublishEvent, PostFails, auxVars
<1>3. ASSUME NEW s \in Starts, StartStep(s) PROVE SpaceInv'
  BY <1>1, <1>3 DEF StartStep, Start, GetProjectOfEvent, CreateWorkerPod, StartFails,
                    requestVars, auxVars
<1>4. CASE UNCHANGED vars
  BY <1>1, <1>4 DEF vars, requestVars, auxVars
<1> QED BY <1>2, <1>3, <1>4, NextIs, SpaceCreate, SpaceUpdate, SpaceDelete

(* A project that exists has a live namespace, complete unless its Create  *)
(* is not over or failed, whatever Deletes of earlier incarnations do.     *)
THEOREM ProjectsHaveNamespaces == Spec => []ProjectHasNamespace
<1>1. TypeInv /\ SpaceInv => ProjectHasNamespace
  <2> SUFFICES ASSUME TypeInv, SpaceInv, NEW p \in IDs, Exists(p)
               PROVE  LET c == doc[p].ns IN
                      /\ space[c] # "gone"
                      /\ \/ space[c] = "ready"
                         \/ creator[c].pc \in {"namespace", "objects", "failed"}
    BY DEF ProjectHasNamespace
  <2>1. doc[p].ns \in Creates
    BY ExistsNs DEF TypeInv
  <2>2. space[doc[p].ns] # "gone" /\ ~Fresh(doc[p].ns)
    BY <2>1 DEF SpaceInv, NamespacesLeft, NamespacesKnown
  <2> QED BY <2>1, <2>2 DEF SpaceInv, NamespacesMade, Fresh, TypeInv, TypeOK
<1> QED BY <1>1, InitTypes, NextTypes, InitSpaceInv, NextSpaceInv, PTL DEF Spec

(* Every namespace there is belongs to a project, is about to be deleted,  *)
(* or is one of those that leaked.                                         *)
THEOREM NamespacesAreAccounted == Spec => []NamespacesAccounted
<1>1. SpaceInv => NamespacesAccounted
  BY DEF SpaceInv
<1> QED BY <1>1, InitTypes, NextTypes, InitSpaceInv, NextSpaceInv, PTL DEF Spec
-----------------------------------------------------------------------------
(* Events.  One that is stored keeps its project: a Delete of the project  *)
(* passes it on to itself before the document is gone, and only lets go of *)
(* it when the event is gone too, or with a failure.                       *)

Homed(e) ==
  \/ doc[e.project].ns = e.ns \/ Cascading(e.project)
  \/ e \in late \/ e.project \in cut

LEMMA InitEventInv == Init => EventInv
BY DEF Init, EventInv, QueuedHaveSecrets, EventsHaveProject

LEMMA EventsCreate ==
  ASSUME TypeInv, EventInv, NEW c \in Creates, CreateStep(c)
  PROVE  EventInv'
<1>1. UNCHANGED <<events, secrets, queue, poster, deleter, late, cut>>
  BY DEF CreateStep, Create, StoreProject, CreateNamespace, CreateNamespaceObjects,
         AssignRoles, CreateFails, eventVars, workerVars, auxVars
<1>2. ASSUME NEW p \in IDs, Exists(p) PROVE doc'[p] = doc[p]
  <2>1. ASSUME NEW s \in Specs, StoreProject(c, s) PROVE doc'[p] = doc[p]
    BY <1>2, <2>1 DEF StoreProject, TypeInv, TypeOK
  <2> QED BY <2>1 DEF CreateStep, Create, CreateNamespace, CreateNamespaceObjects,
                      AssignRoles, CreateFails
<1>3. ASSUME NEW e \in events, Homed(e) PROVE Homed(e)'
  <2>1. e.project \in IDs /\ e.ns \in Creates
    BY DEF TypeInv, TypeOK, Event
  <2>2. doc[e.project].ns = e.ns => doc'[e.project] = doc[e.project]
    BY <1>2, <2>1, ExistsNs DEF TypeInv
  <2> QED BY <1>1, <1>3, <2>2 DEF Homed, Cascading
<1>4. QueuedHaveSecrets'
  BY <1>1 DEF EventInv, QueuedHaveSecrets, EventOf, Current
<1>5. EventsHaveProject'
  BY <1>1, <1>3 DEF EventInv, EventsHaveProject, Homed
<1> QED BY <1>4, <1>5 DEF EventInv

LEMMA EventsUpdate ==
  ASSUME TypeInv, EventInv, NEW u \in Updates, UpdateStep(u)
  PROVE  EventInv'
<1>1. UNCHANGED <<events, secrets, queue, poster, deleter, late, cut>>
  BY DEF UpdateStep, Update, UpdateProject, eventVars, workerVars, auxVars
<1>2. \A p \in IDs : doc'[p].ns = doc[p].ns
  BY UpdateKeepsNs
<1>3. \A e \in events : e.project \in IDs
  BY DEF TypeInv, TypeOK, Event
<1>4. QueuedHaveSecrets'
  BY <1>1 DEF EventInv, QueuedHaveSecrets, EventOf, Current
<1>5. EventsHaveProject'
  BY <1>1, <1>2, <1>3 DEF EventInv, EventsHaveProject, Cascading
<1> QED BY <1>4, <1>5 DEF EventInv

LEMMA EventsDelete ==
  ASSUME TypeInv, EventInv, NEW d \in Deletes, DeleteStep(d)
  PROVE  EventInv'
<1> DEFINE p == deleter[d].project
<1>0. p \in IDs /\ \A e \in events : e.project \in IDs /\ e.ns \in Creates
  BY DEF TypeInv, TypeOK, Event
<1>1. UNCHANGED <<secrets, queue, poster, late>> /\ cut \subseteq cut'
  BY DEF DeleteStep, Delete, DeleteDoc, DeleteEvents, DeleteNamespace, DeleteFails,
         eventVars, workerVars, auxVars
<1>2. events' \subseteq events
  BY DEF DeleteStep, Delete, DeleteDoc, DeleteEvents, DeleteNamespace,
         DeleteFails, eventVars, workerVars
<1>3. QueuedHaveSecrets'
  BY <1>1 DEF EventInv, QueuedHaveSecrets, EventOf, Current
<1> SUFFICES ASSUME NEW e \in events, e \in events', Homed(e) PROVE Homed(e)'
  BY <1>2, <1>3 DEF EventInv, EventsHaveProject, Homed
<1>4. ASSUME NEW o \in IDs, Delete(d, o) PROVE Homed(e)'
  <2>1. /\ UNCHANGED doc /\ deleter[d].pc = "idle"
        /\ \A x \in Deletes \ {d} : deleter'[x] = deleter[x]
    BY <1>4 DEF Delete, TypeInv, TypeOK
  <2> QED BY <1>1, <2>1 DEF Homed, Cascading
<1>5. CASE DeleteDoc(d)
  <2>1. /\ deleter'[d].project = p
        /\ deleter'[d].pc = IF Exists(p) THEN "events" ELSE "failed"
        /\ \A o \in Deletes \ {d} : deleter'[o] = deleter[o]
        /\ deleter[d].pc = "doc"
    BY <1>5, DeleterMoves DEF DeleteDoc, TypeInv
  <2>2. \A o \in IDs \ {p} : doc'[o] = doc[o]
    BY <1>5 DEF DeleteDoc, TypeInv, TypeOK
  <2>3. e.project = p /\ Exists(p) => Cascading(e.project)'
    BY <2>1 DEF Cascading
  <2>4. doc[e.project].ns = e.ns => Exists(e.project)
    BY <1>0, ExistsNs DEF TypeInv
  <2>5. Cascading(e.project) => Cascading(e.project)'
    BY <2>1 DEF Cascading
  <2> QED BY <1>0, <1>1, <2>2, <2>3, <2>4, <2>5 DEF Homed
<1>6. CASE DeleteEvents(d)
  <2>1. /\ deleter'[d].project = p
        /\ \A o \in Deletes \ {d} : deleter'[o] = deleter[o]
        /\ e.project # p /\ UNCHANGED doc
    BY <1>6, DeleterMoves DEF DeleteEvents, TypeInv
  <2>2. Cascading(e.project) => Cascading(e.project)'
    BY <2>1 DEF Cascading
  <2> QED BY <1>1, <2>1, <2>2 DEF Homed
<1>7. CASE DeleteNamespace(d)
  <2>1. /\ \A o \in Deletes \ {d} : deleter'[o] = deleter[o]
        /\ deleter[d].pc = "namespace" /\ UNCHANGED doc
    BY <1>7, DeleterMoves DEF DeleteNamespace, TypeInv
  <2>2. Cascading(e.project) => Cascading(e.project)'
    BY <2>1 DEF Cascading
  <2> QED BY <1>1, <2>1, <2>2 DEF Homed
<1>8. CASE DeleteFails(d)
  <2>1. /\ \A o \in Deletes \ {d} : deleter'[o] = deleter[o]
        /\ UNCHANGED doc /\ (deleter[d].pc = "events" => p \in cut')
    BY <1>8, DeleterMoves DEF DeleteFails, TypeInv
  <2>2. Cascading(e.project) => Cascading(e.project)' \/ e.project \in cut'
    BY <2>1 DEF Cascading
  <2> QED BY <1>1, <2>1, <2>2 DEF Homed
<1> QED BY <1>4, <1>5, <1>6, <1>7, <1>8 DEF DeleteStep

(* What a request works on stays the same while it works on one project.   *)
LEMMA SameEvent ==
  ASSUME NEW q \in Posts, poster'[q].todo = poster[q].todo,
         poster'[q].ns = poster[q].ns
  PROVE  EventOf(q)' = EventOf(q)
BY DEF EventOf, Current

LEMMA EventsPost ==
  ASSUME TypeInv, EventInv, NEW q \in Posts, PostStep(q)
  PROVE  EventInv'
<1>0. /\ UNCHANGED <<doc, deleter, cut>>
      /\ poster[q].todo \in SUBSET IDs /\ poster[q].ns \in Creates \cup {None}
      /\ EventsHaveProject /\ QueuedHaveSecrets
  BY DEF PostStep, PostToProject, PostToSubscribers, GetProject, StoreEvent,
         CreateEventSecret, PublishEvent, PostFails, auxVars, EventInv,
         TypeInv, TypeOK
<1>1. ASSUME NEW step \in PosterSteps, PosterAt(q, step)
      PROVE  /\ poster'[q].pc = step /\ EventOf(q)' = EventOf(q)
             /\ \A o \in Posts \ {q} : poster'[o] = poster[o]
  <2>1. /\ poster'[q].todo = poster[q].todo /\ poster'[q].ns = poster[q].ns
        /\ poster'[q].pc = step /\ \A o \in Posts \ {q} : poster'[o] = poster[o]
    BY <1>1 DEF PosterAt, TypeInv, TypeOK
  <2> QED BY <2>1, SameEvent
<1>2. ASSUME events' = events, late' = late PROVE EventsHaveProject'
  BY <1>0, <1>2 DEF EventsHaveProject, Cascading
<1>3. ASSUME NEW o \in Posts, poster'[o] = poster[o]
      PROVE  EventOf(o)' = EventOf(o)
  BY <1>3, SameEvent
<1>4. ASSUME UNCHANGED <<queue, secrets>>, poster'[q].pc # "publish",
             \A o \in Posts \ {q} : poster'[o] = poster[o]
      PROVE  QueuedHaveSecrets'
  BY <1>0, <1>3, <1>4 DEF QueuedHaveSecrets
<1> USE DEF PosterSteps
<1>5. ASSUME NEW p \in IDs, PostToProject(q, p) PROVE EventInv'
  <2>1. poster'[q].pc = "project" /\ \A o \in Posts \ {q} : poster'[o] = poster[o]
    BY <1>5 DEF PostToProject, TypeInv, TypeOK
  <2> QED BY <1>2, <1>4, <1>5, <2>1 DEF PostToProject, EventInv, eventVars, workerVars, auxVars
<1>6. ASSUME NEW msg \in Messages, PostToSubscribers(q, msg) PROVE EventInv'
  <2>1. /\ poster'[q].pc \in {"done", "project"}
        /\ \A o \in Posts \ {q} : poster'[o] = poster[o]
    BY <1>6 DEF PostToSubscribers, TypeInv, TypeOK
  <2> QED BY <1>2, <1>4, <1>6, <2>1
          DEF PostToSubscribers, EventInv, eventVars, workerVars, auxVars
<1>7. CASE GetProject(q)
  <2>1. /\ poster'[q].pc \in {"event", "failed"}
        /\ \A o \in Posts \ {q} : poster'[o] = poster[o]
    BY <1>7 DEF GetProject, TypeInv, TypeOK
  <2> QED BY <1>2, <1>4, <1>7, <2>1 DEF GetProject, EventInv, eventVars, workerVars, auxVars
<1>8. CASE StoreEvent(q)
  <2>1. poster'[q].pc = "secret" /\ \A o \in Posts \ {q} : poster'[o] = poster[o]
    BY <1>1, <1>8 DEF StoreEvent
  <2>2. /\ events' = events \cup {EventOf(q)} /\ late \subseteq late'
        /\ doc[EventOf(q).project].ns = EventOf(q).ns \/ EventOf(q) \in late'
    BY <1>8 DEF StoreEvent
  <2>3. EventsHaveProject'
    BY <1>0, <2>2 DEF EventsHaveProject, Cascading
  <2> QED BY <1>4, <1>8, <2>1, <2>3 DEF StoreEvent, EventInv
<1>9. CASE CreateEventSecret(q)
  <2>1. CASE space[poster[q].ns] = "ready"
    <3>1. /\ EventOf(q)' = EventOf(q) /\ UNCHANGED queue
          /\ \A o \in Posts \ {q} : poster'[o] = poster[o]
          /\ secrets' = secrets \cup {EventOf(q)}
      BY <1>1, <1>9, <2>1 DEF CreateEventSecret
    <3>2. QueuedHaveSecrets'
      BY <1>0, <1>3, <3>1 DEF QueuedHaveSecrets
    <3> QED BY <1>2, <1>9, <3>2 DEF CreateEventSecret, EventInv, auxVars
  <2>2. CASE space[poster[q].ns] # "ready"
    <3>1. poster'[q].pc = "failed" /\ \A o \in Posts \ {q} : poster'[o] = poster[o]
      BY <1>1, <1>9, <2>2 DEF CreateEventSecret
    <3> QED BY <1>2, <1>4, <1>9, <2>2, <3>1 DEF CreateEventSecret, EventInv, auxVars
  <2> QED BY <2>1, <2>2
<1>10. CASE PublishEvent(q)
  <2>2. /\ poster'[q].pc \in {"done", "project"}
        /\ \A o \in Posts \ {q} : poster'[o] = poster[o]
    BY <1>10 DEF PublishEvent, TypeInv, TypeOK
  <2>3. EventOf(q) \in secrets
    BY <1>0, <1>10 DEF PublishEvent, QueuedHaveSecrets
  <2>4. queue' = queue \cup {EventOf(q)} /\ UNCHANGED secrets
    BY <1>10 DEF PublishEvent
  <2>5. QueuedHaveSecrets'
    BY <1>0, <1>3, <2>2, <2>3, <2>4 DEF QueuedHaveSecrets
  <2> QED BY <1>2, <1>10, <2>5 DEF PublishEvent, EventInv, auxVars
<1>11. CASE PostFails(q)
  <2>1. poster'[q].pc = "failed" /\ \A o \in Posts \ {q} : poster'[o] = poster[o]
    BY <1>1, <1>11 DEF PostFails
  <2> QED BY <1>2, <1>4, <1>11, <2>1 DEF PostFails, EventInv, eventVars, workerVars, auxVars
<1> QED BY <1>5, <1>6, <1>7, <1>8, <1>9, <1>10, <1>11 DEF PostStep

LEMMA NextEventInv == TypeInv /\ EventInv /\ [Next]_vars => EventInv'
<1> SUFFICES ASSUME TypeInv, EventInv, [Next]_vars PROVE EventInv'
  OBVIOUS
<1>1. ASSUME UNCHANGED <<doc, events, secrets, queue, deleter, poster, late, cut>>
      PROVE  EventInv'
  BY <1>1 DEF EventInv, QueuedHaveSecrets, EventOf, Current, EventsHaveProject,
              Cascading
<1>2. ASSUME NEW s \in Starts, StartStep(s) PROVE EventInv'
  BY <1>1, <1>2 DEF StartStep, Start, GetProjectOfEvent, CreateWorkerPod, StartFails,
                    requestVars, auxVars
<1>3. CASE UNCHANGED vars
  BY <1>1, <1>3 DEF vars, eventVars, workerVars, requestVars, auxVars
<1> QED BY <1>2, <1>3, NextIs, EventsCreate, EventsUpdate, EventsDelete, EventsPost

(* Events of one incarnation of a project never pass on to the next, but   *)
(* for those stored late and those a Delete that failed left behind.       *)
THEOREM EventsKeepTheirProject == Spec => []EventsHaveProject
<1>1. EventInv => EventsHaveProject
  BY DEF EventInv
<1> QED BY <1>1, InitTypes, NextTypes, InitEventInv, NextEventInv, PTL DEF Spec

-----------------------------------------------------------------------------
(* Starts.  One that is under way has read an event whose secret is there, *)
(* and which is there itself unless it was deleted in the meantime; once it*)
(* has read the project it holds the event's namespace, but for the        *)
(* exceptions, and a Delete that is yet to come to this very event.        *)

Housed(e, n) ==
  \/ n = e.ns \/ Cascading(e.project)
  \/ e \in late \/ e.project \in cut \/ e \in overtaken

Informed(s) ==
  /\ starter[s].event \in queue \cap (events \cup overtaken)
  /\ starter[s].pc = "pod" => Housed(starter[s].event, starter[s].ns)

StartInv == \A s \in Starts : starter[s].pc # "idle" => Informed(s)

LEMMA InitStartInv == Init => StartInv
BY DEF Init, StartInv, NotStarting

(* Other requests never take what a Start has read without a trace.        *)
LEMMA StartsUnmoved ==
  ASSUME StartInv, UNCHANGED starter, queue \subseteq queue', late \subseteq late',
         cut \subseteq cut', overtaken \subseteq overtaken',
         \A s \in Starts : starter[s].pc # "idle" =>
           LET e == starter[s].event IN
           /\ e \in events => e \in events' \cup overtaken'
           /\ Cascading(e.project) =>
                \/ Cascading(e.project)' \/ e.project \in cut' \/ e \in overtaken'
  PROVE  StartInv'
<1> SUFFICES ASSUME NEW s \in Starts, starter[s].pc # "idle" PROVE Informed(s)'
  BY DEF StartInv
<1> DEFINE e == starter[s].event
<1>1. e \in queue \cap (events \cup overtaken)
      /\ (starter[s].pc = "pod" => Housed(e, starter[s].ns))
  BY DEF StartInv, Informed
<1>2. /\ e \in events => e \in events' \cup overtaken'
      /\ Cascading(e.project) =>
           \/ Cascading(e.project)' \/ e.project \in cut' \/ e \in overtaken'
  OBVIOUS
<1>3. Housed(e, starter[s].ns) => Housed(e, starter[s].ns)'
  BY <1>2 DEF Housed
<1> QED BY <1>1, <1>2, <1>3 DEF Informed

LEMMA StartsAmongOthers ==
  ASSUME StartInv,
         \/ \E c \in Creates : CreateStep(c)
         \/ \E u \in Updates : UpdateStep(u)
         \/ \E q \in Posts : PostStep(q)
  PROVE  StartInv'
<1>1. /\ UNCHANGED <<starter, deleter, cut, overtaken>>
      /\ events \subseteq events' /\ queue \subseteq queue' /\ late \subseteq late'
  BY DEF CreateStep, Create, StoreProject, CreateNamespace, CreateNamespaceObjects,
         AssignRoles, CreateFails, UpdateStep, Update, UpdateProject, PostStep,
         PostToProject, PostToSubscribers, GetProject, StoreEvent,
         CreateEventSecret, PublishEvent, PostFails, eventVars, workerVars, auxVars
<1> QED BY <1>1, StartsUnmoved DEF Cascading

LEMMA StartsUnderDelete ==
  ASSUME TypeInv, StartInv, NEW d \in Deletes, DeleteStep(d)
  PROVE  StartInv'
<1> DEFINE p == deleter[d].project
<1> USE DEF eventVars, workerVars, auxVars
<1>1. /\ UNCHANGED <<starter, queue, late>>
      /\ cut \subseteq cut' /\ overtaken \subseteq overtaken'
  BY DEF DeleteStep, Delete, DeleteDoc, DeleteEvents, DeleteNamespace, DeleteFails
<1>2. ASSUME deleter[d].pc # "events", events' = events,
             \A o \in Deletes \ {d} : deleter'[o] = deleter[o]
      PROVE  StartInv'
  <2>1. ASSUME NEW e, Cascading(e.project) PROVE Cascading(e.project)'
    BY <1>2, <2>1 DEF Cascading
  <2> QED BY <1>1, <1>2, <2>1, StartsUnmoved
<1>3. ASSUME NEW o \in IDs, Delete(d, o) PROVE StartInv'
  BY <1>2, <1>3 DEF Delete, TypeInv, TypeOK
<1>4. CASE DeleteDoc(d)
  BY <1>2, <1>4, DeleterMoves DEF DeleteDoc, TypeInv
<1>5. CASE DeleteNamespace(d)
  BY <1>2, <1>5, DeleterMoves DEF DeleteNamespace, TypeInv
<1>6. CASE DeleteEvents(d)
  <2>1. ASSUME NEW s \in Starts, starter[s].pc # "idle",
               starter[s].event \in events,
               \/ starter[s].event \notin events'
               \/ starter[s].event.project = p
        PROVE  starter[s].event \in overtaken'
    BY <1>6, <2>1 DEF DeleteEvents
  <2>2. ASSUME NEW e, Cascading(e.project), e.project # p
        PROVE  Cascading(e.project)'
    <3>1. \A o \in Deletes \ {d} : deleter'[o] = deleter[o]
      BY <1>6, DeleterMoves DEF DeleteEvents, TypeInv
    <3> QED BY <2>2, <3>1 DEF Cascading
  <2>3. \A s \in Starts : starter[s].pc # "idle" =>
          starter[s].event \in events \cup overtaken
    BY DEF StartInv, Informed
  <2> QED BY <1>1, <2>1, <2>2, <2>3, StartsUnmoved
<1>7. CASE DeleteFails(d)
  <2>1. /\ \A o \in Deletes \ {d} : deleter'[o] = deleter[o]
        /\ events' = events /\ (deleter[d].pc = "events" => p \in cut')
    BY <1>7, DeleterMoves DEF DeleteFails, TypeInv
  <2>2. ASSUME NEW e, Cascading(e.project)
        PROVE  Cascading(e.project)' \/ e.project \in cut'
    BY <2>1, <2>2 DEF Cascading
  <2> QED BY <1>1, <2>1, <2>2, StartsUnmoved
<1> QED BY <1>3, <1>4, <1>5, <1>6, <1>7 DEF DeleteStep

LEMMA StartsMoveOn ==
  ASSUME TypeInv, EventInv, StartInv, NEW s \in Starts, StartStep(s)
  PROVE  StartInv'
<1> USE DEF requestVars, auxVars
<1>0. UNCHANGED <<doc, events, queue, deleter, late, cut, overtaken>>
  BY DEF StartStep, Start, GetProjectOfEvent, CreateWorkerPod, StartFails
<1>1. ASSUME NEW r, starter' = [starter EXCEPT ![s] = r],
             r.pc # "idle" => r.event \in queue \cap (events \cup overtaken),
             r.pc = "pod" => Housed(r.event, r.ns)
      PROVE  StartInv'
  <2>1. starter'[s] = r /\ \A o \in Starts \ {s} : starter'[o] = starter[o]
    BY <1>1, StarterMoves
  <2>2. ASSUME NEW e, NEW n PROVE Housed(e, n)' <=> Housed(e, n)
    BY <1>0 DEF Housed, Cascading
  <2>3. starter'[s].pc # "idle" => Informed(s)'
    BY <1>0, <1>1, <2>1, <2>2 DEF Informed
  <2>4. ASSUME NEW o \in Starts \ {s}, starter'[o].pc # "idle"
        PROVE  Informed(o)'
    <3>1. Informed(o)
      BY <2>1, <2>4 DEF StartInv
    <3> QED BY <1>0, <2>1, <2>2, <3>1 DEF Informed
  <2> QED BY <2>3, <2>4 DEF StartInv
<1>2. ASSUME NEW e \in queue, Start(s, e) PROVE StartInv'
  BY <1>1, <1>2 DEF Start
<1>3. CASE GetProjectOfEvent(s)
  <2> DEFINE e == starter[s].event
  <2>1. /\ e \in queue \cap (events \cup overtaken)
        /\ starter[s] \in [pc : {"idle", "project", "pod"}, event : Event \cup {None},
                           ns : Creates \cup {None}]
    BY <1>3 DEF GetProjectOfEvent, StartInv, Informed, TypeInv, TypeOK
  <2>2. Housed(e, doc[e.project].ns)
    BY <2>1 DEF EventInv, EventsHaveProject, Housed
  <2>3. CASE Exists(e.project)
    BY <1>1, <1>3, <2>1, <2>2, <2>3 DEF GetProjectOfEvent
  <2>4. CASE ~Exists(e.project)
    BY <1>1, <1>3, <2>4 DEF GetProjectOfEvent, NotStarting
  <2> QED BY <2>3, <2>4
<1>4. CASE CreateWorkerPod(s) \/ StartFails(s)
  BY <1>1, <1>4 DEF CreateWorkerPod, StartFails, NotStarting
<1> QED BY <1>2, <1>3, <1>4 DEF StartStep

LEMMA NextStartInv == TypeInv /\ EventInv /\ StartInv /\ [Next]_vars => StartInv'
<1>1. StartInv /\ UNCHANGED vars => StartInv'
  BY StartsUnmoved DEF vars, eventVars, workerVars, requestVars, auxVars, Cascading
<1> QED BY <1>1, NextIs, StartsAmongOthers, StartsUnderDelete, StartsMoveOn

(* A worker starts for a message whose event has its secret, and in the    *)
(* namespace where that secret is, but for the same events and those that  *)
(* were deleted while a Start had read them.                               *)
THEOREM WorkersStartByTheirSecret == Spec => WorkersFindTheirSecret
<1> DEFINE Found == \A w \in pods' \ pods :
                      /\ w.event \in secrets
                      /\ \/ w.ns = w.event.ns
                         \/ Cascading(w.event.project)
                         \/ w.event \in late
                         \/ w.event.project \in cut
                         \/ w.event \in overtaken
<1>1. EventInv /\ StartInv /\ [Next]_vars => [Found]_vars
  <2> SUFFICES ASSUME EventInv, StartInv, Next PROVE Found
    OBVIOUS
  <2>1. ASSUME NEW s \in Starts, CreateWorkerPod(s) PROVE Found
    <3>1. Informed(s) /\ starter[s].pc = "pod"
      BY <2>1 DEF CreateWorkerPod, StartInv
    <3>2. starter[s].event \in secrets
      BY <3>1 DEF Informed, EventInv, QueuedHaveSecrets
    <3>3. \A w \in pods' \ pods : w.event = starter[s].event /\ w.ns = starter[s].ns
      BY <2>1 DEF CreateWorkerPod
    <3> QED BY <3>1, <3>2, <3>3 DEF Informed, Housed
  <2>2. (\A s \in Starts : ~CreateWorkerPod(s)) => UNCHANGED pods
    BY DEF Next, Create, StoreProject, CreateNamespace, CreateNamespaceObjects,
           AssignRoles, CreateFails, Update, UpdateProject, Delete, DeleteDoc,
           DeleteEvents, DeleteNamespace, DeleteFails, PostToProject,
           PostToSubscribers, GetProject, StoreEvent, CreateEventSecret,
           PublishEvent, PostFails, Start, GetProjectOfEvent, StartFails,
           eventVars, workerVars
  <2> QED BY <2>1, <2>2
<1>2. Spec => [][Found]_vars
  BY <1>1, InitTypes, NextTypes, InitEventInv, NextEventInv, InitStartInv,
     NextStartInv, PTL DEF Spec
<1> QED BY <1>2 DEF WorkersFindTheirSecret
=============================================================================
