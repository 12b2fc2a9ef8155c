---------------------------- MODULE LocatorProofs ----------------------------
(***************************************************************************)
(* Theorems about Locator, for any number of updaters and readers and any  *)
(* Groups.                                                                 *)
(*                                                                         *)
(* ReadersSeeOneUpdate is not inductive.  Inv adds that the read-write     *)
(* lock excludes (OneWriter, WriterAlone, ReaderInside), what an Update    *)
(* that is half done has assigned (Assigned), and that the visits a Find   *)
(* has made are those of the current fields (Visited), which is what makes *)
(* its reply the answer of LocatorService.                                 *)
(***************************************************************************)
EXTENDS Locator, SequenceTheorems, TLAPS

Assigning == {"groups", "ringsByName", "allRings", "unlock"}

\* The lock belongs to the updater that is past Lock's announcement.
OneWriter ==
  \A u \in Updaters : update[u] \in Assigning \union {"waiting"} <=> writer = u

\* No reader is inside while an updater assigns.
WriterAlone == \A u \in Updaters : update[u] \in Assigning => inside = {}

\* Who is inside or held up is past RLock, and only who is inside finishes.
ReaderInside ==
  /\ inside \intersect heldUp = {}
  /\ \A r \in inside \union heldUp : request[r] \in {"rlock", "done"}
  /\ \A r \in Readers : request[r] = "done" => r \in inside

\* What the updater that holds the lock has assigned so far.
Assigned ==
  /\ (\A u \in Updaters : update[u] \notin {"ringsByName", "allRings"}) =>
       RingsOf(groups)
  /\ \A u \in Updaters :
       /\ update[u] # "idle" => given[u] \in GroupsValues
       /\ update[u] \in {"ringsByName", "allRings", "unlock"} => groups = given[u]
       /\ update[u] = "allRings" => ringsByName = RingsByName(given[u])

\* The first n visits of Find for q.
FirstVisits(q, n) == [i \in 1 .. n |-> Visit(q, i, ringsByName, allRings)]

\* The visits a reader has made so far, and what it returns.
Visited ==
  \A r \in Readers :
    /\ request[r] = "rlock" =>
         \/ found[r] = <<>>
         \/ /\ r \in inside
            /\ query[r] # GroupsRequest
            /\ \E n \in 0 .. Visits(query[r].groups, allRings) :
                 found[r] = FirstVisits(query[r], n)
    /\ request[r] \in {"idle", "called"} => found[r] = <<>>

Inv ==
  /\ TypeOK
  /\ OneWriter
  /\ WriterAlone
  /\ ReaderInside
  /\ Assigned
  /\ Visited

(***************************************************************************)
(* Lemmas about rings and visits.                                          *)
(***************************************************************************)

\* Update's loop yields one ring per group, under the group's name.
LEMMA RingsTyped ==
  ASSUME NEW gps \in GroupsValues
  PROVE  /\ DOMAIN RingsByName(gps) \subseteq GroupNames
         /\ \A n \in DOMAIN RingsByName(gps) : RingsByName(gps)[n] \in Ring
         /\ AllRings(gps) \in Seq(Ring)
<1>1. gps \in Seq([name : GroupNames, members : SUBSET Endpoints])
  BY LocatorAssumption
<1>2. \A i \in DOMAIN gps : gps[i].name \in GroupNames /\ gps[i].members \in Ring
  <2>1. DOMAIN gps = 1 .. Len(gps)
    BY <1>1
  <2>2. \A i \in DOMAIN gps : gps[i] \in [name : GroupNames, members : SUBSET Endpoints]
    BY <1>1, <2>1, ElementOfSeq
  <2> QED
    BY <2>2 DEF Ring
<1>3. DOMAIN RingsByName(gps) \subseteq GroupNames
  BY <1>2 DEF RingsByName, Names
<1>4. ASSUME NEW n \in DOMAIN RingsByName(gps)
      PROVE  RingsByName(gps)[n] \in Ring
  <2>1. \E i \in DOMAIN gps : gps[i].name = n
    BY DEF RingsByName, Names
  <2>2. (CHOOSE i \in DOMAIN gps : gps[i].name = n) \in DOMAIN gps
    BY <2>1
  <2> QED
    BY <1>2, <2>2 DEF RingsByName
<1>5. AllRings(gps) \in Seq(Ring)
  BY <1>1, <1>2 DEF AllRings
<1> QED
  BY <1>3, <1>4, <1>5

\* One more visit extends the first visits by one.
LEMMA OneMoreVisit ==
  ASSUME NEW q, NEW n \in Nat
  PROVE  /\ Len(FirstVisits(q, n)) = n
         /\ Append(FirstVisits(q, n), Visit(q, n + 1, ringsByName, allRings))
              = FirstVisits(q, n + 1)
<1> DEFINE V(i) == Visit(q, i, ringsByName, allRings)
           S == {V(i) : i \in Nat}
<1>1. FirstVisits(q, n) \in [1 .. n -> S]
  BY DEF FirstVisits
<1>2. FirstVisits(q, n) \in Seq(S) /\ Len(FirstVisits(q, n)) = n
  BY <1>1
<1>3. V(n + 1) \in S
  OBVIOUS
<1> HIDE DEF S
<1>4. Append(FirstVisits(q, n), V(n + 1)) \in Seq(S)
  BY <1>2, <1>3, AppendProperties
<1>5. DOMAIN Append(FirstVisits(q, n), V(n + 1)) = 1 .. n + 1
  BY <1>2, <1>3, <1>4, AppendProperties
<1>6. \A i \in 1 .. n : Append(FirstVisits(q, n), V(n + 1))[i] = V(i)
  BY <1>2, <1>3, AppendProperties DEF FirstVisits
<1>7. Append(FirstVisits(q, n), V(n + 1))[n + 1] = V(n + 1)
  BY <1>2, <1>3, AppendProperties
<1>8. Append(FirstVisits(q, n), V(n + 1)) = [i \in 1 .. n + 1 |-> V(i)]
  <2> DEFINE f == Append(FirstVisits(q, n), V(n + 1))
  <2>1. ASSUME NEW i \in 1 .. n + 1
        PROVE  f[i] = V(i)
    <3>1. i \in 1 .. n \/ i = n + 1
      OBVIOUS
    <3> QED
      BY <3>1, <1>6, <1>7
  <2>2. f = [i \in DOMAIN f |-> f[i]]
    BY <1>4
  <2> QED
    BY <1>5, <2>1, <2>2
<1> QED
  BY <1>2, <1>8 DEF FirstVisits

\* Before the first visit there are none.
LEMMA NoVisit == ASSUME NEW q PROVE FirstVisits(q, 0) = <<>>
BY DEF FirstVisits

\* The number of visits is a natural number.
LEMMA VisitsNat ==
  ASSUME TypeOK, NEW q \in Finds
  PROVE  Visits(q.groups, allRings) \in Nat
BY LocatorAssumption DEF TypeOK, Visits

(***************************************************************************)
(* The invariant.                                                          *)
(***************************************************************************)

LEMMA InitInv == Init => Inv
<1> SUFFICES ASSUME Init PROVE Inv
  OBVIOUS
<1>1. TypeOK
  BY LocatorAssumption DEF Init, TypeOK, Requests, Ring
<1>2. OneWriter /\ WriterAlone /\ ReaderInside /\ Visited
  BY LocatorAssumption DEF Init, OneWriter, WriterAlone, ReaderInside, Visited, Assigning
<1>3. Assigned
  BY DEF Init, Assigned, RingsOf
<1> QED
  BY <1>1, <1>2, <1>3 DEF Inv

\* The lock: who is inside, and what Unlock does for those held up.
LEMMA UpdaterInv ==
  ASSUME Inv, NEW u \in Updaters,
         Lock(u) \/ Locked(u) \/ Unlock(u)
  PROVE  Inv'
<1>1. CASE Lock(u)
  <2>1. TypeOK' /\ OneWriter' /\ WriterAlone' /\ ReaderInside' /\ Assigned'
    BY <1>1, LocatorAssumption
    DEF Lock, GotoU, Inv, TypeOK, OneWriter, WriterAlone, ReaderInside, Assigned,
        Assigning, RingsOf, fields, readerVars
  <2>2. Visited'
    BY <1>1 DEF Lock, Inv, Visited, FirstVisits, fields, readerVars
  <2> QED
    BY <2>1, <2>2 DEF Inv
<1>2. CASE Locked(u)
  <2>1. TypeOK' /\ OneWriter' /\ WriterAlone' /\ ReaderInside' /\ Assigned'
    BY <1>2, LocatorAssumption
    DEF Locked, GotoU, Inv, TypeOK, OneWriter, WriterAlone, ReaderInside, Assigned,
        Assigning, RingsOf, fields, rwmutex, readerVars
  <2>2. Visited'
    BY <1>2 DEF Locked, Inv, Visited, FirstVisits, fields, rwmutex, readerVars
  <2> QED
    BY <2>1, <2>2 DEF Inv
<1>3. CASE Unlock(u)
  <2>1. TypeOK' /\ OneWriter' /\ WriterAlone' /\ ReaderInside' /\ Assigned'
    BY <1>3, LocatorAssumption
    DEF Unlock, GotoU, Inv, TypeOK, OneWriter, WriterAlone, ReaderInside, Assigned,
        Assigning, RingsOf, fields, readerVars
  <2>2. Visited'
    BY <1>3 DEF Unlock, Inv, Visited, FirstVisits, fields, readerVars
  <2> QED
    BY <2>1, <2>2 DEF Inv
<1> QED
  BY <1>1, <1>2, <1>3

\* Before Lock an Update is nobody's business.
LEMMA BuildInv ==
  ASSUME Inv, NEW u \in Updaters, NEW gps \in GroupsValues, BuildRings(u, gps)
  PROVE  Inv'
<1>1. TypeOK' /\ OneWriter' /\ WriterAlone' /\ ReaderInside' /\ Assigned'
  BY LocatorAssumption
  DEF BuildRings, GotoU, Inv, TypeOK, OneWriter, WriterAlone, ReaderInside, Assigned,
      Assigning, RingsOf, fields, rwmutex, readerVars
<1>2. Visited'
  BY DEF BuildRings, Inv, Visited, FirstVisits, fields, rwmutex, readerVars
<1> QED
  BY <1>1, <1>2 DEF Inv

\* The three assignments: nobody is inside, so no visit is disturbed.
LEMMA AssignInv ==
  ASSUME Inv, NEW u \in Updaters,
         AssignGroups(u) \/ AssignRingsByName(u) \/ AssignAllRings(u)
  PROVE  Inv'
<1>1. given[u] \in GroupsValues /\ writer = u /\ inside = {}
  BY DEF Inv, TypeOK, OneWriter, WriterAlone, Assigned, Assigning,
         AssignGroups, AssignRingsByName, AssignAllRings
<1>2. \A v \in Updaters \ {u} : update[v] \in {"idle", "built"}
  BY <1>1 DEF Inv, TypeOK, OneWriter, Assigning
<1>3. Visited'
  BY <1>1 DEF AssignGroups, AssignRingsByName, AssignAllRings, rwmutex, readerVars,
              Inv, Visited
<1>4. CASE AssignGroups(u)
  <2>1. TypeOK' /\ OneWriter' /\ WriterAlone' /\ ReaderInside'
    BY <1>1, <1>4 DEF AssignGroups, GotoU, rwmutex, readerVars, Inv, TypeOK, OneWriter,
                      WriterAlone, ReaderInside, Assigning
  <2>2. Assigned'
    BY <1>1, <1>2, <1>4 DEF AssignGroups, GotoU, Inv, TypeOK, Assigned
  <2> QED
    BY <1>3, <2>1, <2>2 DEF Inv
<1>5. CASE AssignRingsByName(u)
  <2>1. TypeOK'
    BY <1>1, <1>5, RingsTyped
    DEF AssignRingsByName, GotoU, rwmutex, readerVars, Inv, TypeOK
  <2>2. OneWriter' /\ WriterAlone' /\ ReaderInside'
    BY <1>1, <1>5 DEF AssignRingsByName, GotoU, rwmutex, readerVars, Inv, TypeOK,
                      OneWriter, WriterAlone, ReaderInside, Assigning
  <2>3. Assigned'
    BY <1>1, <1>2, <1>5 DEF AssignRingsByName, GotoU, Inv, TypeOK, Assigned
  <2> QED
    BY <1>3, <2>1, <2>2, <2>3 DEF Inv
<1>6. CASE AssignAllRings(u)
  <2>1. TypeOK'
    BY <1>1, <1>6, RingsTyped
    DEF AssignAllRings, GotoU, rwmutex, readerVars, Inv, TypeOK
  <2>2. OneWriter' /\ WriterAlone' /\ ReaderInside'
    BY <1>1, <1>6 DEF AssignAllRings, GotoU, rwmutex, readerVars, Inv, TypeOK,
                      OneWriter, WriterAlone, ReaderInside, Assigning
  <2>3. Assigned'
    BY <1>1, <1>2, <1>6, LocatorAssumption
    DEF AssignAllRings, GotoU, Inv, TypeOK, Assigned, RingsOf
  <2> QED
    BY <1>3, <2>1, <2>2, <2>3 DEF Inv
<1> QED
  BY <1>4, <1>5, <1>6

\* Readers come, visit rings and go; they change no field.
LEMMA ReaderInv ==
  ASSUME Inv, NEW r \in Readers,
         RequestStep(r) \/ \E q \in Requests : Call(r, q)
  PROVE  Inv'
<1>1. /\ UNCHANGED <<fields, writer, updaterVars>>
  BY DEF RequestStep, Call, RLock, ReadGroups, VisitRing, FindDone, RUnlock, rwmutex
<1>2. OneWriter' /\ Assigned'
  BY <1>1 DEF Inv, OneWriter, Assigned, RingsOf, fields, updaterVars
<1>3. CASE \E q \in Requests : Call(r, q)
  BY <1>1, <1>2, <1>3 DEF Call, GotoR, Inv, TypeOK, WriterAlone, ReaderInside, Visited,
     FirstVisits, fields, rwmutex, updaterVars
<1>4. CASE RLock(r)
  <2>1. TypeOK' /\ WriterAlone' /\ ReaderInside'
    BY <1>1, <1>4, LocatorAssumption DEF RLock, GotoR, Inv, TypeOK, OneWriter,
       WriterAlone, ReaderInside, Assigning, fields, updaterVars
  <2>2. Visited'
    BY <1>1, <1>4 DEF RLock, GotoR, Inv, TypeOK, Visited, FirstVisits, fields
  <2> QED
    BY <1>2, <2>1, <2>2 DEF Inv
<1>5. CASE ReadGroups(r)
  <2>1. TypeOK' /\ WriterAlone' /\ ReaderInside'
    BY <1>1, <1>5 DEF ReadGroups, Reading, GotoR, Inv, TypeOK, WriterAlone, ReaderInside,
       fields, rwmutex, updaterVars
  <2>2. Visited'
    BY <1>1, <1>5 DEF ReadGroups, Reading, GotoR, Inv, TypeOK, Visited, FirstVisits, fields, rwmutex
  <2> QED
    BY <1>2, <2>1, <2>2 DEF Inv
<1>6. CASE VisitRing(r)
  <2>1. TypeOK' /\ WriterAlone' /\ ReaderInside'
    BY <1>1, <1>6 DEF VisitRing, Inv, TypeOK, WriterAlone, ReaderInside,
       fields, rwmutex, updaterVars
  <2>2. query[r] \in Finds /\ Visits(query[r].groups, allRings) \in Nat
    BY <1>6, VisitsNat DEF VisitRing, Inv, TypeOK, Requests
  <2>3. PICK n \in 0 .. Visits(query[r].groups, allRings) :
          found[r] = FirstVisits(query[r], n)
    BY <1>6, <2>2, NoVisit DEF VisitRing, Reading, Inv, Visited
  <2>4. n \in Nat /\ Len(found[r]) = n /\ n < Visits(query[r].groups, allRings)
    BY <1>6, <2>2, <2>3, OneMoreVisit DEF VisitRing
  <2>5. Append(found[r], Visit(query[r], n + 1, ringsByName, allRings))
          = FirstVisits(query[r], n + 1)
    BY <2>3, <2>4, OneMoreVisit
  <2>6. found' = [found EXCEPT ![r] = FirstVisits(query[r], n + 1)]
    BY <1>6, <2>4, <2>5 DEF VisitRing
  <2>7. Visited'
    <3>1. \A q, m : FirstVisits(q, m)' = FirstVisits(q, m)
      BY <1>1 DEF FirstVisits, fields
    <3>2. UNCHANGED <<request, query, inside, allRings>>
      BY <1>1, <1>6 DEF VisitRing, fields, rwmutex
    <3>3. request[r] = "rlock" /\ r \in inside /\ query[r] # GroupsRequest
      BY <1>6 DEF VisitRing, Reading
    <3>4. found'[r] = FirstVisits(query[r], n + 1)
      BY <2>6 DEF Inv, TypeOK
    <3>5. n + 1 \in 0 .. Visits(query[r].groups, allRings)
      BY <2>2, <2>4
    <3>6. ASSUME NEW s \in Readers, s # r
          PROVE  found'[s] = found[s]
      BY <2>6, <3>6 DEF Inv, TypeOK
    <3> QED
      BY <3>1, <3>2, <3>3, <3>4, <3>5, <3>6 DEF Inv, Visited
  <2> QED
    BY <1>2, <2>1, <2>7 DEF Inv
<1>7. CASE FindDone(r)
  <2>1. TypeOK' /\ WriterAlone' /\ ReaderInside'
    BY <1>1, <1>7 DEF FindDone, Reading, GotoR, Inv, TypeOK, WriterAlone, ReaderInside,
       fields, rwmutex, updaterVars
  <2>2. Visited'
    BY <1>1, <1>7 DEF FindDone, Reading, GotoR, Inv, TypeOK, Visited, FirstVisits, fields, rwmutex
  <2> QED
    BY <1>2, <2>1, <2>2 DEF Inv
<1>8. CASE RUnlock(r)
  <2>1. TypeOK' /\ WriterAlone' /\ ReaderInside'
    BY <1>1, <1>8 DEF RUnlock, GotoR, Inv, TypeOK, WriterAlone, ReaderInside, Requests,
       fields, updaterVars
  <2>2. Visited'
    BY <1>1, <1>8 DEF RUnlock, GotoR, Inv, TypeOK, Visited, FirstVisits, fields
  <2> QED
    BY <1>2, <2>1, <2>2 DEF Inv
<1> QED
  BY <1>3, <1>4, <1>5, <1>6, <1>7, <1>8 DEF RequestStep

\* Inv holds in every state the locator reaches.
THEOREM Invariance == Spec => []Inv
<1>1. Init => Inv
  BY InitInv
<1>2. Inv /\ [Next]_locatorVars => Inv'
  <2>1. ASSUME Inv, Next
        PROVE  Inv'
    BY <2>1, UpdaterInv, BuildInv, AssignInv, ReaderInv DEF Next, UpdateStep
  <2>2. ASSUME Inv, UNCHANGED locatorVars
        PROVE  Inv'
    BY <2>2 DEF locatorVars, fields, rwmutex, updaterVars, readerVars, Inv, TypeOK,
       OneWriter, WriterAlone, ReaderInside, Assigned, RingsOf, Visited, FirstVisits
  <2> QED
    BY <2>1, <2>2
<1> QED
  BY <1>1, <1>2, PTL DEF Spec

\* The state of the locator always has its type.
THEOREM TypeCorrect == Spec => []TypeOK
<1>1. Inv => TypeOK
  BY DEF Inv
<1> QED
  BY <1>1, Invariance, PTL

\* No reader ever sees the fields of two Updates mixed.
THEOREM NoTornRead == Spec => []ReadersSeeOneUpdate
<1>1. Inv => ReadersSeeOneUpdate
  BY DEF Inv, WriterAlone, Assigned, Assigning, ReadersSeeOneUpdate
<1> QED
  BY <1>1, Invariance, PTL

(***************************************************************************)
(* The refinement of LocatorService.                                       *)
(***************************************************************************)

LEMMA InitRefines == Init => Service!Init
BY DEF Init, Service!Init, ServiceUpdater, ServiceClient, Service!Idle

\* Only AssignGroups changes what the service answers from.
LEMMA UpdaterRefines ==
  ASSUME Inv, NEW u \in Updaters,
         (\E gps \in GroupsValues : BuildRings(u, gps)) \/ Lock(u) \/ UpdateStep(u)
  PROVE  Service!Next \/ UNCHANGED Service!serviceVars
<1>1. UNCHANGED ServiceClient
  BY DEF BuildRings, Lock, UpdateStep, Locked, AssignGroups, AssignRingsByName,
         AssignAllRings, Unlock, readerVars, ServiceClient, Reply
<1>2. ASSUME NEW gps \in GroupsValues, BuildRings(u, gps)
      PROVE  Service!BeginUpdate(u, gps)
  BY <1>1, <1>2 DEF BuildRings, GotoU, fields, Inv, TypeOK, ServiceUpdater,
     Service!BeginUpdate, Service!Idle, Service!Pending
<1>3. CASE Lock(u) \/ Locked(u)
  BY <1>1, <1>3 DEF Lock, Locked, GotoU, fields, Inv, TypeOK, ServiceUpdater,
     Service!serviceVars
<1>4. CASE AssignGroups(u)
  <2>1. given[u] \in GroupsValues
    BY <1>4 DEF AssignGroups, Inv, TypeOK, Assigned
  <2>2. Service!Publish(u, given[u])
    BY <1>1, <1>4 DEF AssignGroups, GotoU, Inv, TypeOK, ServiceUpdater,
       Service!Publish, Service!Pending, Service!Published
  <2> QED
    BY <2>1, <2>2 DEF Service!Next
<1>5. CASE AssignRingsByName(u) \/ AssignAllRings(u)
  BY <1>1, <1>5 DEF AssignRingsByName, AssignAllRings, GotoU, Inv, TypeOK,
     ServiceUpdater, Service!serviceVars
<1>6. CASE Unlock(u)
  <2>1. given[u] \in GroupsValues
    BY <1>6 DEF Unlock, Inv, TypeOK, Assigned
  <2>2. Service!EndUpdate(u, given[u])
    BY <1>1, <1>6 DEF Unlock, GotoU, fields, Inv, TypeOK, ServiceUpdater,
       Service!EndUpdate, Service!Published, Service!Idle
  <2> QED
    BY <2>1, <2>2 DEF Service!Next
<1> QED
  BY <1>2, <1>3, <1>4, <1>5, <1>6 DEF Service!Next, UpdateStep

\* When a Find has made its last visit, its result is the service's answer.
LEMMA FindAnswers ==
  ASSUME Inv, NEW r \in Readers, FindDone(r)
  PROVE  Results(found[r]) = Answer(groups, query[r])
<1> DEFINE q == query[r]
           n == Visits(q.groups, allRings)
<1>1. q \in Finds /\ n \in Nat
  BY VisitsNat DEF FindDone, Inv, TypeOK, Requests
<1>2. found[r] = FirstVisits(q, n)
  <2>1. PICK m \in 0 .. n : found[r] = FirstVisits(q, m)
    BY <1>1, NoVisit DEF FindDone, Reading, Inv, Visited
  <2>2. m = n
    BY <1>1, <2>1, OneMoreVisit DEF FindDone
  <2> QED
    BY <2>1, <2>2
<1>3. RingsOf(groups)
  BY DEF FindDone, Reading, Inv, WriterAlone, Assigned, Assigning
<1>4. q # GroupsRequest
  BY DEF FindDone
<1> QED
  BY <1>2, <1>3, <1>4 DEF FirstVisits, RingsOf, Answer

\* A request takes effect at its last visit, or when Groups reads the field.
LEMMA ReaderRefines ==
  ASSUME Inv, NEW r \in Readers,
         (\E q \in Requests : Call(r, q)) \/ RequestStep(r)
  PROVE  Service!Next \/ UNCHANGED Service!serviceVars
<1>1. UNCHANGED <<groups, ServiceUpdater>>
  BY DEF Call, RequestStep, RLock, ReadGroups, VisitRing, FindDone, RUnlock,
         fields, updaterVars, ServiceUpdater
<1>2. ASSUME NEW q \in Requests, Call(r, q)
      PROVE  Service!Ask(r, q)
  BY <1>1, <1>2 DEF Call, GotoR, Inv, TypeOK, ServiceClient, Reply,
     Service!Ask, Service!Idle, Service!Asked
<1>3. CASE RLock(r) \/ VisitRing(r)
  BY <1>1, <1>3 DEF RLock, VisitRing, Reading, GotoR, Inv, TypeOK, ServiceClient,
     Reply, Service!serviceVars
<1>4. CASE ReadGroups(r) \/ FindDone(r)
  <2>1. query[r] \in Requests
    BY DEF Inv, TypeOK
  <2>2. Reply(r)' = Answer(groups, query[r])
    BY <1>4, FindAnswers DEF ReadGroups, FindDone, Inv, TypeOK, Reply, Answer
  <2>3. Service!Reply(r, query[r])
    <3>1. request[r] = "rlock" /\ request' = [request EXCEPT ![r] = "done"]
      BY <1>4 DEF ReadGroups, FindDone, Reading, GotoR
    <3>2. query' = query /\ \A s \in Readers \ {r} : Reply(s)' = Reply(s)
      BY <1>4 DEF ReadGroups, FindDone, Inv, TypeOK, Reply
    <3>3. ServiceClient[r] = Service!Asked(query[r])
      BY <3>1 DEF ServiceClient, Service!Asked
    <3>4. ServiceClient' = [ServiceClient EXCEPT ![r] =
                              Service!Answered(query[r], Answer(groups, query[r]))]
      BY <2>2, <3>1, <3>2 DEF Inv, TypeOK, ServiceClient, Service!Answered
    <3> QED
      BY <1>1, <3>3, <3>4 DEF Service!Reply
  <2> QED
    BY <2>1, <2>3 DEF Service!Next
<1>5. CASE RUnlock(r)
  <2>1. Service!Return(r)
    BY <1>1, <1>5 DEF RUnlock, GotoR, Inv, TypeOK, ServiceClient, Reply,
       Service!Return, Service!Idle
  <2> QED
    BY <2>1 DEF Service!Next
<1> QED
  BY <1>2, <1>3, <1>4, <1>5 DEF Service!Next, RequestStep

\* Update, Find, FindString and Groups are linearizable: the locator
\* implements LocatorService.
THEOREM Refinement == Spec => Linearizable
<1>1. Init => Service!Init
  BY InitRefines
<1>2. Inv /\ [Next]_locatorVars => [Service!Next]_(Service!serviceVars)
  <2>1. ASSUME Inv, Next
        PROVE  Service!Next \/ UNCHANGED Service!serviceVars
    BY <2>1, UpdaterRefines, ReaderRefines DEF Next
  <2>2. ASSUME UNCHANGED locatorVars
        PROVE  UNCHANGED Service!serviceVars
    BY <2>2 DEF locatorVars, fields, updaterVars, readerVars, ServiceUpdater,
       ServiceClient, Reply, Service!serviceVars
  <2> QED
    BY <2>1, <2>2
<1> QED
  BY <1>1, <1>2, Invariance, PTL DEF Spec, Linearizable, Service!Spec

=============================================================================
