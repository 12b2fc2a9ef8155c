------------------------------- MODULE Handler -------------------------------
(***************************************************************************)
(* server.Handler and the two handlers it routes to: each DNS request is   *)
(* served by a goroutine of its own, which asks the Locator once and makes *)
(* the answer from what it was given, while Ingest goes on to update the   *)
(* Locator.  The Locator is the service of LocatorService, which it        *)
(* implements (Locator.tla).                                               *)
(*                                                                         *)
(* A request is a record: the number of its questions, and the class, the  *)
(* type and the name of the first.  A name is the domain it is below and   *)
(* the labels before that domain; a label is the sequence of its parts     *)
(* between hyphens.  A record of an answer is its type and its data: the   *)
(* name, TTL and class of its header are left out, and the class is that   *)
(* of all records.                                                         *)
(***************************************************************************)
EXTENDS Naturals, FiniteSets, Slices

CONSTANTS
  Workers,        \* goroutines of the DNS servers, a request each at a time
  Updaters,       \* goroutines that call Locator.OnIngest
  Messages,       \* the requests that may come
  NoMessage,      \* a worker without a request
  GroupsValues,   \* the Groups an Update may be given
  NoGroups,       \* the nil Groups, before the first Update
  GroupsRequest,  \* stands for a call of Locator.Groups
  NilEndpoint,    \* what medley returns from a ring without endpoints
  Nearest(_, _)   \* Nearest(endpoints, object): the endpoint medley chooses

Blank == <<"">>
AddressTypes == {"A", "AAAA"}

\* The Groups are slices of slices.
ASSUME HandlerAssumption ==
  /\ NoGroups \notin GroupsValues
  /\ \A gps \in GroupsValues :
       /\ Sequence(gps)
       /\ \A g \in ToSet(gps) :
            /\ Sequence(g.services) /\ Sequence(g.endpoints)
            /\ \A e \in ToSet(g.endpoints) : Sequence(e.ip4) /\ Sequence(e.ip6)
  /\ \A m \in Messages :
       /\ m.questions \in Nat
       /\ m.domain \in {"endpoint", "group", "elsewhere"}
       /\ Sequence(m.labels)
       /\ \A i \in DOMAIN m.labels : m.labels[i] # <<>>
  /\ NoMessage \notin Messages

VARIABLES
  current,   \* the Groups of the Locator
  updater,   \* the calls of Locator.Update
  call,      \* call[w]: w's call of Locator.FindString or Groups
  pc,        \* pc[w]: where w is in ServeDNS
  message,   \* message[w]: op.original
  result,    \* result[w]: what the Locator returned
  response,  \* response[w]: op.response, its Rcode and Answer
  alive,     \* the process has not been ended by a panic
  ready      \* ready[w]: w's request came after an Update (history)

locatorState == <<current, updater, call>>
workerState == <<pc, message, result, response, ready>>
handlerVars == <<locatorState, workerState, alive>>

(***************************************************************************)
(* The Locator.                                                            *)
(***************************************************************************)

Of(gps) == IF gps = NoGroups THEN <<>> ELSE gps

\* The groups of a name.
Named(groups, name) == Keep(groups, {g \in ToSet(groups) : g.name = name})

\* The groups whose rings FindString visits: those of these names that there
\* are, or all.
Filtered(gps, names) ==
  IF names = <<>> THEN Of(gps)
  ELSE FlattenSeq([i \in DOMAIN names |-> Named(Of(gps), names[i])])

LocatorAnswer(gps, q) ==
  IF q = GroupsRequest THEN gps
  ELSE LET visited == Filtered(gps, q.groups)
       IN [i \in DOMAIN visited |-> Nearest(visited[i].endpoints, q.object)]

(***************************************************************************)
(* Requests and the records of an answer.                                  *)
(***************************************************************************)

\* strings.Split of what dnsutil.Trim leaves: at least one label.
Labels(m) == IF m.labels = <<>> THEN <<Blank>> ELSE m.labels

\* ParseEndpointRequest: the object is the second part of the first label,
\* or its only part, and the other labels are names of groups.
ParseEndpointRequest(m) ==
  LET parts == Head(Labels(m))
  IN [object |-> IF Len(parts) > 1 THEN parts[2] ELSE parts[1],
      groups |-> Tail(Labels(m))]

\* ParseGroupRequest: the first label is the name of a group.
ParseGroupRequest(m) == Head(Labels(m))

LocatorRequest(m) ==
  IF m.domain = "endpoint" THEN ParseEndpointRequest(m) ELSE GroupsRequest

LocatorRequests == {LocatorRequest(m) : m \in Messages}

\* medley finds one of the endpoints of a ring, unless there is none.
ASSUME RingAssumption ==
  \A m \in Messages :
    LET object == ParseEndpointRequest(m).object
    IN /\ ParseEndpointRequest(m) # GroupsRequest
       /\ \A gps \in GroupsValues : \A i \in DOMAIN gps :
            LET endpoints == gps[i].endpoints
            IN IF endpoints = <<>>
               THEN Nearest(endpoints, object) = NilEndpoint
               ELSE Nearest(endpoints, object) \in ToSet(endpoints) \ {NilEndpoint}

Locating == INSTANCE LocatorService WITH
  Readers <- Workers, Requests <- LocatorRequests, Answer <- LocatorAnswer,
  client <- call

\* Mutant: AAAA records are made of the IPv4 addresses.
OnlyIP4(endpoints, type) ==
  IF type \notin AddressTypes THEN <<>>
  ELSE FlattenSeq([i \in DOMAIN endpoints |->
         [k \in DOMAIN endpoints[i].ip4 |->
            [type |-> "A", data |-> endpoints[i].ip4[k]]]])

\* LocatedEndpoints.RRs
LocatedRRs(endpoints, type) ==
  LET addresses(e) == IF type = "A" THEN e.ip4 ELSE e.ip6
  IN IF type \notin AddressTypes THEN <<>>
     ELSE FlattenSeq([i \in DOMAIN endpoints |->
            [k \in DOMAIN addresses(endpoints[i]) |->
               [type |-> type, data |-> addresses(endpoints[i])[k]]]])

\* Group.RRs for TXT: the group's services, then its endpoints.
GroupRRs(g) ==
  LET members == g.services \o [i \in DOMAIN g.endpoints |-> g.endpoints[i].originalName]
  IN [i \in DOMAIN members |-> [type |-> "TXT", data |-> <<g.name, members[i]>>]]

\* The records for one group if it exists, or, without a name, for all.
GroupsRRs(gps, name) ==
  LET chosen == IF name = Blank THEN gps ELSE Named(gps, name)
  IN FlattenSeq([i \in DOMAIN chosen |-> GroupRRs(chosen[i])])

\* The nil pointer that ServeRequest comes upon: an endpoint in LenRRs of an
\* address type, or the Groups in Get or LenRRs.
FindsNil(m, located) ==
  IF m.domain = "endpoint"
    THEN m.type \in AddressTypes /\ NilEndpoint \in ToSet(located)
    ELSE located = NoGroups

\* The Answer of ServeRequest, before it is shuffled.
Records(m, located) ==
  IF m.domain = "endpoint" THEN LocatedRRs(located, m.type)
                           ELSE GroupsRRs(located, ParseGroupRequest(m))

\* The orders Shuffle may give the records s.
Shuffled(s) ==
  {[i \in DOMAIN s |-> s[f[i]]] : f \in Bijection(DOMAIN s, DOMAIN s)}

\* The orders of the records of an answer to m: those for endpoints are shuffled.
Orders(m, s) == IF m.domain = "endpoint" THEN Shuffled(s) ELSE {s}

Success == [rcode |-> "NOERROR", answer |-> <<>>]
Refused == [rcode |-> "REFUSED", answer |-> <<>>]

Init ==
  /\ Locating!Init
  /\ pc = [w \in Workers |-> "idle"]
  /\ message = [w \in Workers |-> NoMessage]
  /\ result = [w \in Workers |-> <<>>]
  /\ response = [w \in Workers |-> Success]
  /\ alive = TRUE
  /\ ready = [w \in Workers |-> FALSE]

(***************************************************************************)
(* ServeDNS, with w for the goroutine that serves the request.             *)
(***************************************************************************)

Goto(w, label) == pc' = [pc EXCEPT ![w] = label]

\* startOperation: a request comes in, its response is a success so far.
StartOperation(w, m) ==
  /\ pc[w] = "idle"
  /\ message' = [message EXCEPT ![w] = m]
  /\ response' = [response EXCEPT ![w] = Success]
  /\ ready' = [ready EXCEPT ![w] = current # NoGroups]
  /\ Goto(w, "started")
  /\ UNCHANGED <<locatorState, result>>

Answerable(m) == m.questions = 1 /\ m.class = "INET"

Refuse(w) ==
  /\ response' = [response EXCEPT ![w] = Refused]
  /\ Goto(w, "finish")
  /\ UNCHANGED <<locatorState, message, result, ready>>

\* Mutant: only requests with more than one question are refused.
RefuseSeveral(w) ==
  /\ pc[w] = "started"
  /\ message[w].questions > 1 \/ (message[w].questions = 1 /\ message[w].class # "INET")
  /\ Refuse(w)

\* getQuestion refuses the request: not one question, or another class.
RefuseQuestion(w) ==
  /\ pc[w] = "started"
  /\ ~Answerable(message[w])
  /\ Refuse(w)

\* The name is below neither domain.
Unhandled(w) ==
  /\ pc[w] = "started"
  /\ Answerable(message[w])
  /\ message[w].domain = "elsewhere"
  /\ Refuse(w)

\* GroupHandler.ServeRequest only has TXT records.
RefuseType(w) ==
  /\ pc[w] = "started"
  /\ Answerable(message[w])
  /\ message[w].domain = "group" /\ message[w].type # "TXT"
  /\ Refuse(w)

\* EndpointHandler.ServeRequest calls FindString, GroupHandler.ServeRequest
\* calls Groups.
AskLocator(w) ==
  /\ pc[w] = "started"
  /\ Answerable(message[w])
  /\ \/ message[w].domain = "endpoint"
     \/ message[w].domain = "group" /\ message[w].type = "TXT"
  /\ Locating!Ask(w, LocatorRequest(message[w]))
  /\ Goto(w, "asking")
  /\ UNCHANGED <<message, result, response, ready>>

\* The instant at which the call of the Locator takes effect.
LocatorReplies(w) ==
  /\ pc[w] = "asking"
  /\ Locating!Reply(w, LocatorRequest(message[w]))
  /\ UNCHANGED workerState

\* Mutant: the Groups are assigned to a variable of an inner scope.
GroupsShadowed(w) ==
  /\ pc[w] = "asking"
  /\ Locating!Return(w)
  /\ result' = [result EXCEPT ![w] =
                  IF message[w].domain = "group" THEN NoGroups ELSE call[w].reply]
  /\ Goto(w, "asked")
  /\ UNCHANGED <<message, response, ready>>

\* That call returns.
LocatorReturns(w) ==
  /\ pc[w] = "asking"
  /\ Locating!Return(w)
  /\ result' = [result EXCEPT ![w] = call[w].reply]
  /\ Goto(w, "asked")
  /\ UNCHANGED <<message, response, ready>>

\* Mutant: the handler asks the Locator for its Groups again.
AnswerFromCurrent(w) ==
  /\ pc[w] = "asked"
  /\ ~FindsNil(message[w], result[w])
  /\ LET records == Records(message[w],
           IF message[w].domain = "group" THEN current ELSE result[w])
     IN \E answer \in Orders(message[w], records) :
          response' = [response EXCEPT ![w].answer = answer]
  /\ Goto(w, "finish")
  /\ UNCHANGED <<locatorState, message, result, ready>>

\* ServeRequest appends the records to the answer, in one of their orders.
Answer(w) ==
  /\ pc[w] = "asked"
  /\ ~FindsNil(message[w], result[w])
  /\ LET records == Records(message[w], result[w])
     IN \E answer \in Orders(message[w], records) :
          response' = [response EXCEPT ![w].answer = answer]
  /\ Goto(w, "finish")
  /\ UNCHANGED <<locatorState, message, result, ready>>

\* ServeRequest dereferences a nil pointer before it has appended anything.
Panic(w) ==
  /\ pc[w] = "asked"
  /\ FindsNil(message[w], result[w])
  /\ Goto(w, "panicking")
  /\ UNCHANGED <<locatorState, message, result, response, ready>>

\* finish, which is deferred, packs and writes the response; an error of
\* either is only logged.  A panic then ends the process, unless the DNS
\* library recovers it.
Finish(w) ==
  /\ pc[w] \in {"finish", "panicking"}
  /\ Goto(w, "idle")
  /\ message' = [message EXCEPT ![w] = NoMessage]
  /\ result' = [result EXCEPT ![w] = <<>>]
  /\ response' = [response EXCEPT ![w] = Success]
  /\ ready' = [ready EXCEPT ![w] = FALSE]
  /\ alive' \in IF pc[w] = "panicking" THEN BOOLEAN ELSE {TRUE}
  /\ UNCHANGED locatorState

(***************************************************************************)
(* OnIngest with groups; with an error it changes nothing.                 *)
(***************************************************************************)

BeginUpdate(u, gps) == Locating!BeginUpdate(u, gps) /\ UNCHANGED workerState

Publish(u) ==
  \/ \E gps \in GroupsValues : Locating!Publish(u, gps) /\ UNCHANGED workerState
  \/ \E gps \in GroupsValues : Locating!EndUpdate(u, gps) /\ UNCHANGED workerState

(***************************************************************************)
(* Specification.                                                          *)
(***************************************************************************)

\* The steps of a request that has come in, all but the last.
Serve(w) ==
  \/ RefuseQuestion(w) \/ Unhandled(w) \/ RefuseType(w)
  \/ AskLocator(w) \/ LocatorReplies(w) \/ LocatorReturns(w)
  \/ Answer(w) \/ Panic(w)

Alive(step) == alive /\ step /\ UNCHANGED alive

Next ==
  \/ \E w \in Workers :
       \/ \E m \in Messages : Alive(StartOperation(w, m))
       \/ Alive(Serve(w))
       \/ alive /\ Finish(w)
  \/ \E u \in Updaters :
       \/ \E gps \in GroupsValues : Alive(BeginUpdate(u, gps))
       \/ Alive(Publish(u))

Spec == Init /\ [][Next]_handlerVars

\* Goroutines are scheduled, and a call of the Locator returns, as NobodyStarves
\* of Locator says.
FairSpec ==
  /\ Spec
  /\ \A w \in Workers :
       WF_handlerVars(Alive(Serve(w))) /\ WF_handlerVars(alive /\ Finish(w))
  /\ \A u \in Updaters : WF_handlerVars(Alive(Publish(u)))

(***************************************************************************)
(* What a response should be.                                              *)
(***************************************************************************)

\* The response r to m, and what it could have been as well.
Unordered(m, r) == [rcode |-> r.rcode, answers |-> Orders(m, r.answer)]

\* The response to m from what the Locator returns for it.  Before a panic
\* the empty success is written.
ResponseFrom(m, located) ==
  IF FindsNil(m, located) THEN Unordered(m, Success)
  ELSE Unordered(m, [rcode |-> "NOERROR", answer |-> Records(m, located)])

\* The response to m when gps is the Groups of the Locator.
Respond(gps, m) ==
  IF \/ ~Answerable(m)
     \/ m.domain = "elsewhere"
     \/ m.domain = "group" /\ m.type # "TXT"
  THEN Unordered(m, Refused)
  ELSE ResponseFrom(m, LocatorAnswer(gps, LocatorRequest(m)))

\* The requests as LocatorService sees them: a response is settled when the
\* Locator replies, or when the request is refused.
Request ==
  [w \in Workers |->
     LET m == message[w]
         answered(r) == [at |-> "answered", request |-> m, reply |-> r]
     IN CASE pc[w] = "idle" -> [at |-> "idle"]
          [] pc[w] = "asking" /\ call[w].at = "answered" ->
               answered(ResponseFrom(m, call[w].reply))
          [] pc[w] = "asked" -> answered(ResponseFrom(m, result[w]))
          [] pc[w] \in {"finish", "panicking"} -> answered(Unordered(m, response[w]))
          [] OTHER -> [at |-> "asked", request |-> m]]

Serving == INSTANCE LocatorService WITH
  Readers <- Workers, Requests <- Messages, Answer <- Respond, client <- Request

(***************************************************************************)
(* Properties.                                                             *)
(***************************************************************************)

\* The values the state of the handler can have; every record of an answer is
\* of the type that was asked for.
TypeOK ==
  /\ current \in GroupsValues \union {NoGroups}
  /\ pc \in [Workers -> {"idle", "started", "asking", "asked", "finish", "panicking"}]
  /\ message \in [Workers -> Messages \union {NoMessage}]
  /\ \A w \in Workers :
       /\ pc[w] = "idle" <=> message[w] = NoMessage
       /\ response[w].rcode \in {"NOERROR", "REFUSED"}
       /\ \A i \in DOMAIN response[w].answer :
            response[w].answer[i].type = message[w].type
  /\ alive \in BOOLEAN
  /\ ready \in [Workers -> BOOLEAN]

\* Requests are linearizable end to end: every response is made from the
\* Groups of one Update that was current while the request was served, with
\* exactly the records these Groups define, whatever Updates happen between
\* the call of the Locator and the writing of the response.
OneUpdatePerResponse == Serving!Spec

\* Groups in which an endpoint request comes upon a ring without endpoints.
MayLocateNil(m) ==
  LET names == ToSet(ParseEndpointRequest(m).groups)
  IN \E gps \in GroupsValues : \E i \in DOMAIN gps :
       gps[i].endpoints = <<>> /\ (names = {} \/ gps[i].name \in names)

\* Requests only panic in two situations: a group request that came before the
\* first successful Ingest, which a hashy started with bad zone files answers
\* from a nil Groups, and an endpoint request that may come upon a group
\* without endpoints.
PanicsAreKnown ==
  \A w \in Workers : pc[w] = "panicking" =>
    IF message[w].domain = "group" THEN ~ready[w] ELSE MayLocateNil(message[w])

\* Every request is finished, unless a panic ends the process.
EveryRequestEnds ==
  \A w \in Workers : pc[w] # "idle" ~> pc[w] = "idle" \/ ~alive

=============================================================================
