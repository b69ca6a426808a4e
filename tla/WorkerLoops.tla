----------------------------- MODULE WorkerLoops -----------------------------
(***************************************************************************)
(* The scheduler's worker loops: one loop per project takes event IDs off  *)
(* the project's workers queue, waits for a slot from the capacity manager *)
(* and calls Start; a manager starts and stops the loops as projects come  *)
(* and go.  The job loop is the same code with jobs for workers.           *)
(*                                                                         *)
(* The broker delivers at least once: what was not accepted when a link or *)
(* the process is lost is delivered again.  Every API call may fail, also  *)
(* after the API server has taken it.                                      *)
(*                                                                         *)
(*   projects  projects that exist                                         *)
(*   known     projects in loopCancelFns                                   *)
(*   loop      per project: where the worker loop is, the message it holds,*)
(*             whether the broker still counts that delivery as the loop's *)
(*             own, and whether the loop's context is live                 *)
(*   ready     messages the broker may deliver                             *)
(*   process   the scheduler process                                       *)
(*   pending   events recorded as PENDING                                  *)
(*   orphans   Start calls whose caller has gone, and that the API server  *)
(*             may still carry out                                         *)
(*   started   events whose worker pod was created                         *)
(*                                                                         *)
(* Auxiliary: published, the events ever queued; refused, those an API call*)
(* of a loop returned an error for; crashes, how often the process ended.  *)
(***************************************************************************)
EXTENDS Integers, FiniteSets

CONSTANTS
  Projects,    \* project IDs, in the order in which List returns them
  Events,
  ProjectOf,   \* the project of each event
  NoEvent,
  PageSize,    \* projects on the one page of List that is read
  MaxCrashes   \* bound on ends of the process

ASSUME ProjectsAssumption == Projects \subseteq Nat /\ IsFiniteSet(Projects)
ASSUME ProjectOfAssumption == ProjectOf \in [Events -> Projects]
ASSUME NoEventAssumption == NoEvent \notin Events
ASSUME PageSizeAssumption == PageSize \in Nat \ {0} /\ MaxCrashes \in Nat

VARIABLES projects, known, loop, ready, process, pending, orphans, started,
          published, refused, crashes

apiVars == <<projects, pending, orphans, started, published>>
loopVars == <<apiVars, known, loop, ready, process, refused, crashes>>

-----------------------------------------------------------------------------
Loop == [pc : {"off", "reading", "checking", "waiting", "starting", "acking"},
         msg : Events \cup {NoEvent}, own : BOOLEAN, live : BOOLEAN]

Off == [pc |-> "off", msg |-> NoEvent, own |-> FALSE, live |-> FALSE]
Reading == [pc |-> "reading", msg |-> NoEvent, own |-> FALSE, live |-> TRUE]

Goto(p, step) == loop' = [loop EXCEPT ![p].pc = step]

(* The message is accepted, or left to a broker that has taken it back.    *)
Ack(p) == loop' = [loop EXCEPT ![p].pc = "reading", ![p].msg = NoEvent,
                               ![p].own = FALSE]

(* What the broker takes back when the loops in P lose their links.        *)
Unaccepted(P) == {loop[p].msg : p \in {q \in P : loop[q].own}}

InitLoops ==
  /\ projects = Projects /\ known = {}
  /\ loop = [p \in Projects |-> Off]
  /\ ready = {} /\ process = "up" /\ crashes = 0
  /\ pending = {} /\ orphans = {} /\ started = {}
  /\ published = {} /\ refused = {}

-----------------------------------------------------------------------------
(* manageProjectLoops: every 30 s, the first page of projects is compared  *)
(* with the loops there are.  A loop that was told to stop has ended by the*)
(* time its project's next one is due.                                     *)

FirstPage ==
  {p \in projects : Cardinality({q \in projects : q <= p}) <= PageSize}

(* Seeded fault: a project that is gone is forgotten, its loop is not told.*)
ManageProjectLoops_NoCancel ==
  /\ process = "up"
  /\ known # FirstPage
  /\ known' = FirstPage
  /\ \A p \in FirstPage \ known : loop[p].pc = "off"
  /\ loop' = [p \in Projects |-> IF p \in FirstPage \ known THEN Reading
                                                            ELSE loop[p]]
  /\ UNCHANGED <<apiVars, ready, process, refused, crashes>>

ManageProjectLoops ==
  /\ process = "up"
  /\ known # FirstPage
  /\ known' = FirstPage
  /\ \A p \in FirstPage \ known : loop[p].pc = "off"
  /\ loop' = [p \in Projects |->
                IF p \in FirstPage \ known THEN Reading
                ELSE IF p \in known \ FirstPage
                     THEN [loop[p] EXCEPT !.live = FALSE]
                     ELSE loop[p]]
  /\ UNCHANGED <<apiVars, ready, process, refused, crashes>>

-----------------------------------------------------------------------------
(* runWorkerLoop.                                                          *)

ReadMessage(p, e) ==
  /\ loop[p].pc = "reading"
  /\ e \in ready /\ ProjectOf[e] = p
  /\ ready' = ready \ {e}
  /\ loop' = [loop EXCEPT ![p].pc = "checking", ![p].msg = e, ![p].own = TRUE]
  /\ UNCHANGED <<apiVars, known, process, refused, crashes>>

StopReading(p) ==
  /\ loop[p].pc = "reading" /\ ~loop[p].live
  /\ loop' = [loop EXCEPT ![p] = Off]
  /\ UNCHANGED <<apiVars, known, ready, process, refused, crashes>>

(* A worker that is not PENDING needs no start.                            *)
CheckPhase(p) ==
  /\ loop[p].pc = "checking"
  /\ IF loop[p].msg \in pending THEN Goto(p, "waiting") ELSE Ack(p)
  /\ UNCHANGED <<apiVars, known, ready, process, refused, crashes>>

(* Events().Get fails, for instance because the loop's context is done:    *)
(* the message is accepted nevertheless.                                   *)
CheckFails(p) ==
  /\ loop[p].pc = "checking"
  /\ Ack(p)
  /\ refused' = refused \cup {loop[p].msg}
  /\ UNCHANGED <<apiVars, known, ready, process, crashes>>

TakeSlot(p) ==
  /\ loop[p].pc = "waiting"
  /\ Goto(p, "starting")
  /\ UNCHANGED <<apiVars, known, ready, process, refused, crashes>>

(* The context is done before a slot comes: the message is not accepted.   *)
StopWaiting(p) ==
  /\ loop[p].pc = "waiting" /\ ~loop[p].live
  /\ ready' = ready \cup Unaccepted({p})
  /\ loop' = [loop EXCEPT ![p] = Off]
  /\ UNCHANGED <<apiVars, known, process, refused, crashes>>

(* The API server starts a PENDING worker that has no pod.                 *)
Startable(e) == e \in pending \ started

(* Seeded fault: the message is accepted before Start is called.           *)
StartWorker_AfterAck(p) ==
  /\ loop[p].pc = "starting"
  /\ IF loop[p].own
     THEN /\ loop' = [loop EXCEPT ![p].own = FALSE]
          /\ UNCHANGED started
     ELSE /\ Goto(p, "acking")
          /\ started' = started \cup {e \in {loop[p].msg} : Startable(e)}
  /\ UNCHANGED <<projects, pending, orphans, published, known, ready, process,
                 refused, crashes>>

StartWorker(p) ==
  /\ loop[p].pc = "starting"
  /\ Goto(p, "acking")
  /\ started' = started \cup {e \in {loop[p].msg} : Startable(e)}
  /\ UNCHANGED <<projects, pending, orphans, published, known, ready, process,
                 refused, crashes>>

(* The call fails or is given up, which is logged.  The API server may yet *)
(* carry it out.                                                           *)
StartFails(p) ==
  /\ loop[p].pc = "starting"
  /\ Goto(p, "acking")
  /\ refused' = refused \cup {loop[p].msg}
  /\ orphans' \in {orphans, orphans \cup {loop[p].msg}}
  /\ UNCHANGED <<projects, pending, started, published, known, ready, process,
                 crashes>>

AckMessage(p) ==
  /\ loop[p].pc = "acking"
  /\ Ack(p)
  /\ UNCHANGED <<apiVars, known, ready, process, refused, crashes>>

-----------------------------------------------------------------------------
(* The queue connection is lost, or closed by another loop that reconnects *)
(* the client they share.                                                  *)
LinkLost(p) ==
  /\ loop[p].own
  /\ ready' = ready \cup Unaccepted({p})
  /\ loop' = [loop EXCEPT ![p].own = FALSE]
  /\ UNCHANGED <<apiVars, known, process, refused, crashes>>

(* SIGTERM, or a fatal error on errCh: every context is done.              *)
Shutdown ==
  /\ process = "up" /\ crashes < MaxCrashes
  /\ process' = "stopping"
  /\ loop' = [p \in Projects |-> [loop[p] EXCEPT !.live = FALSE]]
  /\ UNCHANGED <<apiVars, known, ready, refused, crashes>>

(* Run returns after one second at most, the process may crash any time:   *)
(* the loops end in the middle of whatever they do.                        *)
ProcessEnds ==
  /\ process = "stopping" \/ (process = "up" /\ crashes < MaxCrashes)
  /\ process' = "down" /\ crashes' = crashes + 1
  /\ ready' = ready \cup Unaccepted(Projects)
  /\ orphans' = orphans \cup
       {loop[p].msg : p \in {q \in Projects : loop[q].pc = "starting"}}
  /\ loop' = [p \in Projects |-> Off]
  /\ known' = {}
  /\ UNCHANGED <<projects, pending, started, published, refused>>

ProcessStarts ==
  /\ process = "down"
  /\ process' = "up"
  /\ UNCHANGED <<apiVars, known, loop, ready, refused, crashes>>

-----------------------------------------------------------------------------
(* The API server: projects and events come and go.                        *)

Publish(e) ==
  /\ e \notin published /\ ProjectOf[e] \in projects
  /\ published' = published \cup {e}
  /\ pending' = pending \cup {e}
  /\ ready' = ready \cup {e}
  /\ UNCHANGED <<projects, orphans, started, known, loop, process, refused,
                 crashes>>

(* The worker is canceled, or reported by the observer.                    *)
NoLongerPending(e) ==
  /\ e \in pending
  /\ pending' = pending \ {e}
  /\ UNCHANGED <<projects, orphans, started, published, known, loop, ready,
                 process, refused, crashes>>

OrphanedStart(e) ==
  /\ e \in orphans
  /\ orphans' = orphans \ {e}
  /\ started' \in {started, started \cup {d \in {e} : Startable(d)}}
  /\ UNCHANGED <<projects, pending, published, known, loop, ready, process,
                 refused, crashes>>

(* A project is deleted together with its events, or created.              *)
ProjectChanges(p) ==
  /\ projects' = IF p \in projects THEN projects \ {p} ELSE projects \cup {p}
  /\ pending' = {e \in pending : ProjectOf[e] \in projects'}
  /\ UNCHANGED <<orphans, started, published, known, loop, ready, process,
                 refused, crashes>>

-----------------------------------------------------------------------------
LoopStep(p) ==
  \/ \E e \in Events : ReadMessage(p, e)
  \/ StopReading(p) \/ CheckPhase(p) \/ StopWaiting(p) \/ StartWorker(p)
  \/ AckMessage(p)

LoopFault(p) == CheckFails(p) \/ StartFails(p) \/ LinkLost(p)

NextLoops ==
  \/ ManageProjectLoops \/ Shutdown \/ ProcessEnds \/ ProcessStarts
  \/ \E p \in Projects : LoopStep(p) \/ TakeSlot(p) \/ LoopFault(p)
                        \/ ProjectChanges(p)
  \/ \E e \in Events : Publish(e) \/ NoLongerPending(e) \/ OrphanedStart(e)

LoopsSpec == InitLoops /\ [][NextLoops]_loopVars

-----------------------------------------------------------------------------
LoopsTypeOK ==
  /\ projects \subseteq Projects /\ known \subseteq Projects
  /\ loop \in [Projects -> Loop]
  /\ ready \subseteq Events /\ pending \subseteq Events
  /\ orphans \subseteq Events /\ started \subseteq Events
  /\ published \subseteq Events /\ refused \subseteq Events
  /\ process \in {"up", "stopping", "down"} /\ crashes \in Nat

(* No event is dropped in silence: an event whose message is gone from the *)
(* broker and held by no loop was started, is no longer PENDING, or had an *)
(* API call about it fail.  Crashes, redeliveries and stopped loops lose   *)
(* nothing by themselves.                                                  *)
NothingLost ==
  \A e \in published :
    \/ e \in ready
    \/ \E p \in Projects : loop[p].msg = e /\ loop[p].own
    \/ e \in started \cup refused
    \/ e \notin pending

(* A loop never stays behind: one that runs while its project is no longer *)
(* known has been told to stop, and a project has a loop as soon as it is  *)
(* known and until the process ends.                                       *)
LoopsMatchKnown ==
  process = "up" =>
    \A p \in Projects : IF p \in known THEN loop[p].live ELSE ~loop[p].live
=============================================================================
