--------------------------- MODULE LocatorService ---------------------------
(***************************************************************************)
(* What service.Locator promises its users: each Update and each request   *)
(* (Find, FindString or Groups) takes effect at one instant between its    *)
(* call and its return.  A request is answered from the Groups that are    *)
(* current at its instant, never from a mixture of two.                    *)
(***************************************************************************)
CONSTANTS
  Updaters,      \* goroutines that call Update
  Readers,       \* goroutines that serve requests
  GroupsValues,  \* the Groups an Update may be given
  NoGroups,      \* the nil Groups, before the first Update
  Requests,      \* the requests
  Answer(_, _)   \* Answer(gps, q): the reply to q when gps is current

VARIABLES
  current,  \* the Groups requests are answered from
  updater,  \* updater[u]: the state of u's call of Update
  client    \* client[r]: the state of r's request

serviceVars == <<current, updater, client>>

Idle == [at |-> "idle"]
Pending(g) == [at |-> "pending", groups |-> g]
Published(g) == [at |-> "published", groups |-> g]
Asked(q) == [at |-> "asked", request |-> q]
Answered(q, a) == [at |-> "answered", request |-> q, reply |-> a]

Init ==
  /\ current = NoGroups
  /\ updater = [u \in Updaters |-> Idle]
  /\ client = [r \in Readers |-> Idle]

BeginUpdate(u, g) ==
  /\ updater[u] = Idle
  /\ updater' = [updater EXCEPT ![u] = Pending(g)]
  /\ UNCHANGED <<current, client>>

Publish(u, g) ==
  /\ updater[u] = Pending(g)
  /\ current' = g
  /\ updater' = [updater EXCEPT ![u] = Published(g)]
  /\ UNCHANGED client

EndUpdate(u, g) ==
  /\ updater[u] = Published(g)
  /\ updater' = [updater EXCEPT ![u] = Idle]
  /\ UNCHANGED <<current, client>>

Ask(r, q) ==
  /\ client[r] = Idle
  /\ client' = [client EXCEPT ![r] = Asked(q)]
  /\ UNCHANGED <<current, updater>>

Reply(r, q) ==
  /\ client[r] = Asked(q)
  /\ client' = [client EXCEPT ![r] = Answered(q, Answer(current, q))]
  /\ UNCHANGED <<current, updater>>

Return(r) ==
  /\ client[r].at = "answered"
  /\ client' = [client EXCEPT ![r] = Idle]
  /\ UNCHANGED <<current, updater>>

Next ==
  \/ \E u \in Updaters, g \in GroupsValues :
       BeginUpdate(u, g) \/ Publish(u, g) \/ EndUpdate(u, g)
  \/ \E r \in Readers, q \in Requests : Ask(r, q) \/ Reply(r, q)
  \/ \E r \in Readers : Return(r)

Spec == Init /\ [][Next]_serviceVars

=============================================================================
