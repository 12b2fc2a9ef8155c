------------------------------- MODULE Locator -------------------------------
(***************************************************************************)
(* service.Locator: Update builds one consistent hash ring per group and   *)
(* then replaces three fields inside the write lock; Find, FindString and  *)
(* Groups read these fields inside the read lock.                          *)
(*                                                                         *)
(* A Groups is a sequence of [name, members] records; a ring, which medley *)
(* builds from the endpoints of one group, is represented by the set of    *)
(* these endpoints.  Where on the ring an object falls is the constant     *)
(* Nearest.                                                                *)
(*                                                                         *)
(* The sync.RWMutex is modelled by what the code relies on: a Lock first   *)
(* excludes other Locks and holds up new RLocks, then waits for the        *)
(* readers that are inside; Unlock lets in all the readers held up.        *)
(***************************************************************************)
EXTENDS Naturals, Sequences

CONSTANTS
  Updaters,        \* goroutines that call Update
  Readers,         \* goroutines that call Find, FindString or Groups
  GroupNames,
  Endpoints,
  Objects,         \* what is hashed
  GroupsValues,    \* the Groups an Update may be given
  NoGroups,        \* the nil Groups
  Finds,           \* arguments of Find: [object, groups] records
  GroupsRequest,   \* stands for a call of Groups
  Nearest(_, _),   \* Nearest(ring, object): the endpoint medley chooses
  NoRing,          \* a requested group does not exist
  NoUpdater        \* nobody holds the write lock

ASSUME LocatorAssumption ==
  /\ NoUpdater \notin Updaters
  /\ NoGroups \notin GroupsValues
  /\ GroupsRequest \notin Finds
  /\ Finds \subseteq [object : Objects, groups : Seq(GroupNames)]
  /\ \A g \in GroupsValues :
       /\ g \in Seq([name : GroupNames, members : SUBSET Endpoints])
       /\ \A i, j \in DOMAIN g : g[i].name = g[j].name => i = j

VARIABLES
  groups,       \* l.groups
  ringsByName,  \* l.ringsByName
  allRings,     \* l.allRings
  writer,       \* the updater inside Lock, from its announcement to Unlock
  inside,       \* the readers that hold the read lock
  heldUp,       \* the readers that RLock holds up
  update,       \* update[u]: where u is in Update
  given,        \* given[u]: the Groups that u was given
  request,      \* request[r]: where r is in its request
  query,        \* query[r]: what r asks for
  found         \* found[r]: what the iteration over rings came upon so far

fields == <<groups, ringsByName, allRings>>
rwmutex == <<writer, inside, heldUp>>
updaterVars == <<update, given>>
readerVars == <<request, query, found>>
locatorVars == <<fields, rwmutex, updaterVars, readerVars>>

Requests == Finds \union {GroupsRequest}

(***************************************************************************)
(* Rings and answers.                                                      *)
(***************************************************************************)

\* Mutant: the slice of rings is made with its length, then appended to.
\* The nil rings it begins with are represented by {NoRing}.
RingsAfterNils(gps) ==
  [i \in DOMAIN gps |-> {NoRing}] \o [i \in DOMAIN gps |-> gps[i].members]

\* The maps that Update builds from a Groups.
Names(gps) == {gps[i].name : i \in DOMAIN gps}
RingsByName(gps) ==
  [n \in Names(gps) |-> gps[CHOOSE i \in DOMAIN gps : gps[i].name = n].members]
AllRings(gps) == [i \in DOMAIN gps |-> gps[i].members]

\* rings(names) visits the rings of these groups, or all rings.
Visits(names, rings) == IF names # <<>> THEN Len(names) ELSE Len(rings)

\* What the i-th visit of Find comes upon.
Visit(q, i, byName, rings) ==
  IF q.groups = <<>> THEN Nearest(rings[i], q.object)
  ELSE IF q.groups[i] \in DOMAIN byName
         THEN Nearest(byName[q.groups[i]], q.object)
         ELSE NoRing

\* The result of Find: no ring is visited for a group that does not exist.
Results(visited) == SelectSeq(visited, LAMBDA e : e # NoRing)

\* The reply to q from a Groups that is not touched meanwhile.
Answer(gps, q) ==
  IF q = GroupsRequest THEN gps
  ELSE LET byName == IF gps = NoGroups THEN <<>> ELSE RingsByName(gps)
           rings == IF gps = NoGroups THEN <<>> ELSE AllRings(gps)
       IN Results([i \in 1 .. Visits(q.groups, rings) |->
                     Visit(q, i, byName, rings)])

Init ==
  /\ groups = NoGroups
  /\ ringsByName = <<>>
  /\ allRings = <<>>
  /\ writer = NoUpdater
  /\ inside = {}
  /\ heldUp = {}
  /\ update = [u \in Updaters |-> "idle"]
  /\ given = [u \in Updaters |-> NoGroups]
  /\ request = [r \in Readers |-> "idle"]
  /\ query = [r \in Readers |-> GroupsRequest]
  /\ found = [r \in Readers |-> <<>>]

(***************************************************************************)
(* Update.                                                                 *)
(***************************************************************************)

GotoU(u, label) == update' = [update EXCEPT ![u] = label]

\* Update is called with gps and builds its rings, which nobody else sees.
BuildRings(u, gps) ==
  /\ update[u] = "idle"
  /\ given' = [given EXCEPT ![u] = gps]
  /\ GotoU(u, "built")
  /\ UNCHANGED <<fields, rwmutex, readerVars>>

\* lock.Lock() excludes other updaters and announces itself to readers.
Lock(u) ==
  /\ update[u] = "built"
  /\ writer = NoUpdater
  /\ writer' = u
  /\ GotoU(u, "waiting")
  /\ UNCHANGED <<fields, inside, heldUp, given, readerVars>>

\* Mutant: Update does not wait for the readers that are inside.
LockedAtOnce(u) ==
  /\ update[u] = "waiting"
  /\ GotoU(u, "groups")
  /\ UNCHANGED <<fields, rwmutex, given, readerVars>>

\* The readers that were inside are gone: Lock returns.
Locked(u) ==
  /\ update[u] = "waiting"
  /\ inside = {}
  /\ GotoU(u, "groups")
  /\ UNCHANGED <<fields, rwmutex, given, readerVars>>

\* l.groups = gps
AssignGroups(u) ==
  /\ update[u] = "groups"
  /\ groups' = given[u]
  /\ GotoU(u, "ringsByName")
  /\ UNCHANGED <<ringsByName, allRings, rwmutex, given, readerVars>>

\* Mutant: rings of groups that are gone stay in the map.
MergeRingsByName(u) ==
  /\ update[u] = "ringsByName"
  /\ ringsByName' = [n \in Names(given[u]) \union DOMAIN ringsByName |->
                       IF n \in Names(given[u]) THEN RingsByName(given[u])[n]
                                                ELSE ringsByName[n]]
  /\ GotoU(u, "allRings")
  /\ UNCHANGED <<groups, allRings, rwmutex, given, readerVars>>

\* l.ringsByName = ringsByName
AssignRingsByName(u) ==
  /\ update[u] = "ringsByName"
  /\ ringsByName' = RingsByName(given[u])
  /\ GotoU(u, "allRings")
  /\ UNCHANGED <<groups, allRings, rwmutex, given, readerVars>>

\* l.allRings = rings
AssignAllRings(u) ==
  /\ update[u] = "allRings"
  /\ allRings' = AllRings(given[u])
  /\ GotoU(u, "unlock")
  /\ UNCHANGED <<groups, ringsByName, rwmutex, given, readerVars>>

\* lock.Unlock() lets in the readers held up, and Update returns.
Unlock(u) ==
  /\ update[u] = "unlock"
  /\ writer' = NoUpdater
  /\ inside' = inside \union heldUp
  /\ heldUp' = {}
  /\ given' = [given EXCEPT ![u] = NoGroups]
  /\ GotoU(u, "idle")
  /\ UNCHANGED <<fields, readerVars>>

(***************************************************************************)
(* Find, FindString and Groups.                                            *)
(***************************************************************************)

GotoR(r, label) == request' = [request EXCEPT ![r] = label]

\* A reader calls Find, FindString or Groups.
Call(r, q) ==
  /\ request[r] = "idle"
  /\ query' = [query EXCEPT ![r] = q]
  /\ GotoR(r, "called")
  /\ UNCHANGED <<fields, rwmutex, updaterVars, found>>

\* lock.RLock() lets the reader in, or holds it up while there is a writer.
RLock(r) ==
  /\ request[r] = "called"
  /\ IF writer = NoUpdater
       THEN inside' = inside \union {r} /\ UNCHANGED heldUp
       ELSE heldUp' = heldUp \union {r} /\ UNCHANGED inside
  /\ GotoR(r, "rlock")
  /\ UNCHANGED <<fields, writer, updaterVars, query, found>>

Reading(r) == request[r] = "rlock" /\ r \in inside

\* Groups copies the pointer l.groups.
ReadGroups(r) ==
  /\ Reading(r)
  /\ query[r] = GroupsRequest
  /\ found' = [found EXCEPT ![r] = groups]
  /\ GotoR(r, "done")
  /\ UNCHANGED <<fields, rwmutex, updaterVars, query>>

\* Find visits the next ring and appends the endpoint nearest to the object.
VisitRing(r) ==
  /\ Reading(r)
  /\ query[r] # GroupsRequest
  /\ Len(found[r]) < Visits(query[r].groups, allRings)
  /\ found' = [found EXCEPT ![r] =
                 Append(@, Visit(query[r], Len(@) + 1, ringsByName, allRings))]
  /\ UNCHANGED <<fields, rwmutex, updaterVars, request, query>>

\* There are no more rings to visit.
FindDone(r) ==
  /\ Reading(r)
  /\ query[r] # GroupsRequest
  /\ Len(found[r]) = Visits(query[r].groups, allRings)
  /\ GotoR(r, "done")
  /\ UNCHANGED <<fields, rwmutex, updaterVars, query, found>>

\* Mutant: the reader returns without RUnlock.
RUnlockForgotten(r) ==
  /\ request[r] = "done"
  /\ query' = [query EXCEPT ![r] = GroupsRequest]
  /\ found' = [found EXCEPT ![r] = <<>>]
  /\ GotoR(r, "idle")
  /\ UNCHANGED <<fields, rwmutex, updaterVars>>

\* lock.RUnlock(), deferred in Find, and the reader returns.
RUnlock(r) ==
  /\ request[r] = "done"
  /\ inside' = inside \ {r}
  /\ query' = [query EXCEPT ![r] = GroupsRequest]
  /\ found' = [found EXCEPT ![r] = <<>>]
  /\ GotoR(r, "idle")
  /\ UNCHANGED <<fields, writer, heldUp, updaterVars>>

(***************************************************************************)
(* Specification.                                                          *)
(***************************************************************************)

\* The steps of an Update after Lock was called.
UpdateStep(u) ==
  \/ Locked(u)
  \/ AssignGroups(u) \/ AssignRingsByName(u) \/ AssignAllRings(u)
  \/ Unlock(u)

RequestStep(r) ==
  \/ RLock(r)
  \/ ReadGroups(r) \/ VisitRing(r) \/ FindDone(r)
  \/ RUnlock(r)

Next ==
  \/ \E u \in Updaters :
       \/ \E g \in GroupsValues : BuildRings(u, g)
       \/ Lock(u)
       \/ UpdateStep(u)
  \/ \E r \in Readers :
       \/ \E q \in Requests : Call(r, q)
       \/ RequestStep(r)

Spec == Init /\ [][Next]_locatorVars

\* Goroutines are scheduled.  The mutex of an RWMutex that orders writers has
\* a starvation mode, so an updater that waits for it gets it: strong
\* fairness for Lock.
FairSpec ==
  /\ Spec
  /\ \A u \in Updaters :
       SF_locatorVars(Lock(u)) /\ WF_locatorVars(UpdateStep(u))
  /\ \A r \in Readers : WF_locatorVars(RequestStep(r))

(***************************************************************************)
(* Properties.                                                             *)
(***************************************************************************)

Ring == SUBSET Endpoints

\* The values the state of the locator can have.
TypeOK ==
  /\ groups \in GroupsValues \union {NoGroups}
  /\ DOMAIN ringsByName \subseteq GroupNames
  /\ \A n \in DOMAIN ringsByName : ringsByName[n] \in Ring
  /\ allRings \in Seq(Ring)
  /\ writer \in Updaters \union {NoUpdater}
  /\ inside \subseteq Readers /\ heldUp \subseteq Readers
  /\ update \in [Updaters -> {"idle", "built", "waiting", "groups",
                               "ringsByName", "allRings", "unlock"}]
  /\ given \in [Updaters -> GroupsValues \union {NoGroups}]
  /\ request \in [Readers -> {"idle", "called", "rlock", "done"}]
  /\ query \in [Readers -> Requests]
  /\ DOMAIN found = Readers

\* ringsByName and allRings are those of the groups gps.
RingsOf(gps) ==
  IF gps = NoGroups
    THEN ringsByName = <<>> /\ allRings = <<>>
    ELSE ringsByName = RingsByName(gps) /\ allRings = AllRings(gps)

\* As long as any reader is inside, the three fields are those of a single
\* Update: the requests of a client find no group in one of them that is
\* missing from another, however Updates and requests overlap.
ReadersSeeOneUpdate == inside # {} => RingsOf(groups)

\* A stream of requests does not keep an Update from being published, and a
\* stream of Updates keeps neither another Update nor a request waiting.
NobodyStarves ==
  /\ \A u \in Updaters : update[u] = "built" ~> update[u] = "idle"
  /\ \A r \in Readers : request[r] = "called" ~> request[r] = "idle"

(***************************************************************************)
(* The promise of LocatorService.  Update takes effect when it assigns     *)
(* l.groups, as no reader is inside before it has assigned the rest.       *)
(***************************************************************************)

ServiceUpdater ==
  [u \in Updaters |->
     CASE update[u] = "idle" -> [at |-> "idle"]
       [] update[u] \in {"built", "waiting", "groups"} ->
            [at |-> "pending", groups |-> given[u]]
       [] OTHER -> [at |-> "published", groups |-> given[u]]]

\* What a reader returns.
Reply(r) == IF query[r] = GroupsRequest THEN found[r] ELSE Results(found[r])

ServiceClient ==
  [r \in Readers |->
     CASE request[r] = "idle" -> [at |-> "idle"]
       [] request[r] = "done" ->
            [at |-> "answered", request |-> query[r], reply |-> Reply(r)]
       [] OTHER -> [at |-> "asked", request |-> query[r]]]

Service == INSTANCE LocatorService WITH
  current <- groups, updater <- ServiceUpdater, client <- ServiceClient

\* Every request is answered from the Groups of one Update that was current
\* between its call and its return, and an Update that has returned is seen by
\* every later request.
Linearizable == Service!Spec

=============================================================================
