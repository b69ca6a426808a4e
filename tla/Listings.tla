------------------------------ MODULE Listings --------------------------------
(***************************************************************************)
(* A list command of the CLI, page by page, while what it lists changes.   *)
(*                                                                         *)
(* The API keeps nothing between two pages; the "continue" value says      *)
(* where the last one ended.  Users, service accounts and projects are     *)
(* listed by ID, events by creation time, latest first, secrets by key.    *)
(* For all but secrets the store reads a page and then counts what is left.*)
(*                                                                         *)
(*   collection  what the command lists                                    *)
(*   present     the items its query selects                               *)
(*   created     events' creation times; 0 for one that is not created     *)
(*   now         the clock, in milliseconds, as the documents have it      *)
(*   list        the command: what it waits for, the page in hand, and the *)
(*               last item of the page before, its continue value          *)
(*   pages       pages shown, a bound for secrets only                     *)
(*   shown       whether an item was shown once, or more often (2)         *)
(*                                                                         *)
(* Auxiliary: kept, items selected ever since the command began; ends, the *)
(* last items of pages; restarted, a page of secrets began anew.           *)
(***************************************************************************)
EXTENDS Naturals, FiniteSets

CONSTANTS
  Items,     \* IDs and keys, in their order
  Limit,     \* items on a page, 20 if the client does not say
  MaxTime,   \* bound on the clock
  MaxPages,  \* bound on pages of secrets
  Nowhere    \* no continue value

ASSUME ItemsAssumption ==
  Items \subseteq Nat /\ IsFiniteSet(Items) /\ Nowhere \notin Items
ASSUME LimitAssumption == Limit \in Nat \ {0}
ASSUME TimeAssumption == MaxTime \in Nat

VARIABLES collection, present, created, now, list, pages, shown, kept, ends,
          restarted

storeVars == <<collection, present, created, now, kept>>
clientVars == <<list, pages, shown, ends, restarted>>
listVars == <<storeVars, clientVars>>

-----------------------------------------------------------------------------
ById == {"users", "service accounts", "projects"}
Collections == ById \cup {"events", "secrets"}

(* i comes before j.                                                       *)
Precedes(i, j) ==
  IF collection = "events" THEN created[i] > created[j] ELSE i < j

(* Seeded fault: $gte and $lte.                                            *)
Following_OrSame(c) ==
  IF c = Nowhere THEN present ELSE {i \in present : ~Precedes(i, c)}

(* What is still to be listed after c: strictly beyond it in the order.    *)
Following(c) ==
  IF c = Nowhere THEN present ELSE {i \in present : Precedes(c, i)}

(* The pages that S may begin with: items of one time have no order.       *)
FirstOf(S) ==
  {P \in SUBSET S :
     /\ \/ Cardinality(P) = Limit
        \/ Cardinality(P) < Limit /\ P = S
     /\ \A p \in P, q \in S \ P : ~Precedes(q, p)}

LastOf(P) == CHOOSE p \in P : \A q \in P : ~Precedes(p, q)

-----------------------------------------------------------------------------
ListInit ==
  /\ collection \in Collections
  /\ now \in IF collection = "events" THEN 1..MaxTime ELSE {1}
  /\ created \in IF collection = "events" THEN [Items -> 0..now]
                                          ELSE {[i \in Items |-> 0]}
  /\ present \in SUBSET Items
  /\ collection = "events" => \A i \in present : created[i] # 0
  /\ list = [pc |-> "find", continue |-> Nowhere, page |-> {}]
  /\ pages = 0 /\ shown = [i \in Items |-> 0]
  /\ kept = present /\ ends = {} /\ restarted = FALSE

-----------------------------------------------------------------------------
(* The answer: the page, and how much remains.  The command shows the page *)
(* and asks whether to go on if something does.                            *)
Answer(page, remaining) ==
  /\ list' = [list EXCEPT !.pc = IF page = {} \/ remaining = 0 THEN "over"
                                 ELSE "ask",
                          !.page = page]
  /\ pages' = IF pages < MaxPages THEN pages + 1 ELSE pages
  /\ shown' = [i \in Items |-> IF i \in page /\ shown[i] < 2
                               THEN shown[i] + 1 ELSE shown[i]]
  /\ ends' = IF page = {} THEN ends ELSE ends \cup {LastOf(page)}
  /\ UNCHANGED storeVars

(* The store's first query.                                                *)
Find(c) ==
  /\ collection = c /\ list.pc = "find"
  /\ \E P \in FirstOf(Following(list.continue)) :
       IF Cardinality(P) = Limit
       THEN /\ list' = [list EXCEPT !.pc = "count", !.page = P]
            /\ UNCHANGED <<storeVars, pages, shown, ends>>
       ELSE Answer(P, 0)
  /\ UNCHANGED restarted

(* Seeded fault: the last item of the page is among those that are counted.*)
CountRemaining_Short ==
  /\ list.pc = "count"
  /\ LET n == Cardinality(Following(LastOf(list.page))) IN
       Answer(list.page, IF n = 0 THEN 0 ELSE n - 1)
  /\ UNCHANGED restarted

(* Its second, if the page is full.                                        *)
CountRemaining ==
  /\ list.pc = "count"
  /\ Answer(list.page, Cardinality(Following(LastOf(list.page))))
  /\ UNCHANGED restarted

FindUsers == Find("users")
FindServiceAccounts == Find("service accounts")
FindProjects == Find("projects")
FindEvents == Find("events")

(* Secrets are read as one object, and the continue key is looked for among*)
(* the keys: if it is not there, nothing is skipped.                       *)
ListSecrets ==
  LET c == list.continue
      rest == IF c \in present THEN Following(c) ELSE present
  IN /\ collection = "secrets" /\ list.pc = "find"
     /\ \E P \in FirstOf(rest) :
          Answer(P, Cardinality(rest) - Cardinality(P))
     /\ restarted' = (restarted \/ (c # Nowhere /\ c \notin present))

(* The user wants more.                                                    *)
Continue(c) ==
  /\ collection = c /\ list.pc = "ask"
  /\ c = "secrets" => pages < MaxPages
  /\ list' = [pc |-> "find", continue |-> LastOf(list.page), page |-> {}]
  /\ UNCHANGED <<storeVars, pages, shown, ends, restarted>>

userList == Continue("users")
serviceAccountList == Continue("service accounts")
projectList == Continue("projects")
eventList == Continue("events")
secretsList == Continue("secrets")

(* A call fails, the user has seen enough, or the output is no terminal.   *)
Stop ==
  /\ list.pc \in {"find", "count", "ask"}
  /\ list' = [list EXCEPT !.pc = "stopped"]
  /\ UNCHANGED <<storeVars, pages, shown, ends, restarted>>

-----------------------------------------------------------------------------
(* Meanwhile.                                                              *)

Appears(i) ==
  /\ i \notin present
  /\ present' = present \cup {i}
  /\ UNCHANGED <<collection, now, kept, clientVars>>

Disappears(i) ==
  /\ i \in present
  /\ present' = present \ {i}
  /\ kept' = kept \ {i}
  /\ UNCHANGED <<collection, created, now, clientVars>>

CreateUser(i) == collection = "users" /\ Appears(i) /\ UNCHANGED created

CreateServiceAccount(i) ==
  collection = "service accounts" /\ Appears(i) /\ UNCHANGED created

CreateProject(i) == collection = "projects" /\ Appears(i) /\ UNCHANGED created

DeleteProject(i) == collection = "projects" /\ Disappears(i)

(* The time of creation is taken some time before the event is stored.     *)
CreateEvent(i) ==
  /\ collection = "events" /\ created[i] = 0
  /\ \E t \in 1..now : created' = [created EXCEPT ![i] = t]
  /\ Appears(i)

(* An event is deleted, or its worker's phase is no longer one asked for;  *)
(* another one's is by now.                                                *)
EventLeaves(i) == collection = "events" /\ Disappears(i)

EventEnters(i) ==
  collection = "events" /\ created[i] # 0 /\ Appears(i) /\ UNCHANGED created

(* Set of a key that is there changes nothing here; Unset looks first.     *)
SetSecret(i) == collection = "secrets" /\ Appears(i) /\ UNCHANGED created

UnsetSecret(i) == collection = "secrets" /\ Disappears(i)

TimePasses ==
  /\ collection = "events" /\ now < MaxTime
  /\ now' = now + 1
  /\ UNCHANGED <<collection, present, created, kept, clientVars>>

-----------------------------------------------------------------------------
(* The steps of the command and of the API server that serves it.          *)
Fetch == \/ FindUsers \/ FindServiceAccounts \/ FindProjects \/ FindEvents
         \/ CountRemaining \/ ListSecrets

GoOn == userList \/ serviceAccountList \/ projectList \/ eventList \/ secretsList

Others ==
  \/ \E i \in Items :
       \/ CreateUser(i) \/ CreateServiceAccount(i)
       \/ CreateProject(i) \/ DeleteProject(i)
       \/ CreateEvent(i) \/ EventLeaves(i) \/ EventEnters(i)
       \/ SetSecret(i) \/ UnsetSecret(i)
  \/ TimePasses

ListNext == Fetch \/ GoOn \/ Stop \/ Others

-----------------------------------------------------------------------------
(* Nothing is listed twice, however the collection changes between two     *)
(* pages, unless a secret that a page ended with was unset: then the list  *)
(* of secrets begins again.                                                *)
NothingShownTwice == restarted \/ \A i \in Items : shown[i] <= 1

(* Nothing is left out: a list that ran to its end has shown what was there*)
(* all the time, except for events that have the very creation time of the *)
(* last event of a page.                                                   *)
NothingLeftOut ==
  list.pc = "over" =>
    \A i \in kept : \/ shown[i] > 0
                    \/ /\ collection = "events"
                       /\ \E e \in ends : created[e] = created[i]
=============================================================================
