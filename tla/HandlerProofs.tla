--------------------------- MODULE HandlerProofs ---------------------------
(***************************************************************************)
(* Theorems about the DNS handlers, for any requests, Groups and numbers   *)
(* of goroutines: a response is settled in the instant in which the        *)
(* Locator replies, whatever happens until it is written; it only has      *)
(* records that were asked for; and the two ways to a panic are the only   *)
(* ones.                                                                   *)
(*                                                                         *)
(* Inv says that a worker asks for its own request, that only what can be  *)
(* answered gets to the Locator, and that the response stays the empty     *)
(* success until it is made.  Types adds where the answer of the Locator   *)
(* comes from: Groups that were published, if the request is late enough.  *)
(***************************************************************************)
EXTENDS Handler, SequenceLemmas

Steps == {"idle", "started", "asking", "asked", "finish", "panicking"}

\* ServeDNS passes the request on to the Locator.
Passed(m) ==
  Answerable(m) /\ (m.domain = "endpoint" \/ (m.domain = "group" /\ m.type = "TXT"))

\* The types the proof needs.
Typed ==
  /\ pc \in [Workers -> Steps]
  /\ DOMAIN message = Workers /\ DOMAIN result = Workers
  /\ DOMAIN response = Workers /\ DOMAIN call = Workers
  /\ \A w \in Workers : pc[w] # "idle" => message[w] \in Messages

\* w's request when it gets to the Locator, and w's response until it is made.
OnTheWay(w) ==
  /\ pc[w] \in {"asking", "asked", "panicking"} => Passed(message[w])
  /\ pc[w] \in {"asked", "panicking", "started", "finish", "idle"} => call[w] = Locating!Idle
  /\ pc[w] = "asking" =>
       \/ call[w] = Locating!Asked(LocatorRequest(message[w]))
       \/ \E a : call[w] = Locating!Answered(LocatorRequest(message[w]), a)
  /\ pc[w] # "finish" => response[w] = Success

Inv == Typed /\ \A w \in Workers : OnTheWay(w)

(***************************************************************************)
(* Orders of records.                                                      *)
(***************************************************************************)

\* Any order of the records is an order of any other.
LEMMA ShuffledAgain ==
  ASSUME NEW s, NEW t \in Shuffled(s)
  PROVE  Shuffled(t) = Shuffled(s)
<1> DEFINE D == DOMAIN s
<1>1. PICK f \in Bijection(D, D) : t = [i \in D |-> s[f[i]]]
  BY DEF Shuffled
<1>2. /\ f \in [D -> D]
      /\ \A i, k \in D : f[i] = f[k] => i = k
      /\ \A k \in D : \E i \in D : f[i] = k
  BY <1>1 DEF Bijection, Injection, Surjection, IsInjective
<1>3. DOMAIN t = D /\ \A i \in D : t[i] = s[f[i]]
  BY <1>1
<1>4. ASSUME NEW g \in Bijection(D, D)
      PROVE  [i \in D |-> t[g[i]]] \in Shuffled(s)
  <2> DEFINE h == [i \in D |-> f[g[i]]]
  <2>1. h \in Bijection(D, D)
    BY <1>2, <1>4 DEF Bijection, Injection, Surjection, IsInjective
  <2>2. [i \in D |-> t[g[i]]] = [i \in D |-> s[h[i]]]
    BY <1>3, <1>4 DEF Bijection, Injection
  <2> QED
    BY <2>1, <2>2 DEF Shuffled
<1>5. ASSUME NEW h \in Bijection(D, D)
      PROVE  [i \in D |-> s[h[i]]] \in Shuffled(t)
  <2> DEFINE g == [i \in D |-> CHOOSE k \in D : f[k] = h[i]]
  <2>1. h \in [D -> D]
    BY DEF Bijection, Injection
  <2>2. \A i \in D : g[i] \in D /\ f[g[i]] = h[i]
    BY <1>2, <2>1
  <2>3. g \in Bijection(D, D)
    <3>1. g \in [D -> D]
      BY <2>2
    <3>2. \A i, k \in D : g[i] = g[k] => i = k
      BY <2>2 DEF Bijection, Injection, IsInjective
    <3> HIDE DEF g
    <3>3. \A k \in D : \E i \in D : g[i] = k
      <4> TAKE k \in D
      <4>1. PICK i \in D : h[i] = f[k]
        BY <1>2 DEF Bijection, Surjection
      <4> QED
        BY <1>2, <2>2, <4>1
    <3> QED
      BY <3>1, <3>2, <3>3 DEF Bijection, Injection, Surjection, IsInjective
  <2> HIDE DEF g
  <2>4. [i \in D |-> s[h[i]]] = [i \in D |-> t[g[i]]]
    BY <1>3, <2>2
  <2>5. [i \in D |-> t[g[i]]] \in Shuffled(t)
    BY <1>3, <2>3 DEF Shuffled
  <2> QED
    BY <2>4, <2>5
<1>6. Shuffled(t) = {[i \in D |-> t[g[i]]] : g \in Bijection(D, D)}
  BY <1>3 DEF Shuffled
<1>7. Shuffled(s) = {[i \in D |-> s[h[i]]] : h \in Bijection(D, D)}
  BY DEF Shuffled
<1>8. \A x \in Shuffled(t) : x \in Shuffled(s)
  <2> TAKE x \in Shuffled(t)
  <2>1. PICK g \in Bijection(D, D) : x = [i \in D |-> t[g[i]]]
    BY <1>6, Zenon
  <2> QED
    BY <1>4, <2>1, Zenon
<1>9. \A x \in Shuffled(s) : x \in Shuffled(t)
  <2> TAKE x \in Shuffled(s)
  <2>1. PICK h \in Bijection(D, D) : x = [i \in D |-> s[h[i]]]
    BY <1>7, Zenon
  <2> QED
    BY <1>5, <2>1, Zenon
<1> QED
  BY <1>8, <1>9, Zenon

\* So the order that is chosen does not tell the responses apart.
LEMMA OrdersAgain ==
  ASSUME NEW m, NEW s, NEW t \in Orders(m, s)
  PROVE  Orders(m, t) = Orders(m, s)
BY ShuffledAgain DEF Orders

(***************************************************************************)
(* The invariant.                                                          *)
(***************************************************************************)

LEMMA InitInv == Init => Inv
BY DEF Init, Locating!Init, Inv, Typed, OnTheWay, Steps

\* A step of a worker before its answer is there.
LEMMA ServeInv ==
  ASSUME Inv, NEW w \in Workers, Serve(w)
  PROVE  Inv'
<1> USE DEF Inv, Typed, OnTheWay, Steps, Goto
<1>1. CASE RefuseQuestion(w) \/ Unhandled(w) \/ RefuseType(w)
  BY <1>1 DEF RefuseQuestion, Unhandled, RefuseType, Refuse, locatorState
<1>2. CASE AskLocator(w)
  BY <1>2 DEF AskLocator, Locating!Ask, Passed
<1>3. CASE LocatorReplies(w)
  BY <1>3 DEF LocatorReplies, Locating!Reply, workerState
<1>4. CASE LocatorReturns(w)
  BY <1>4 DEF LocatorReturns, Locating!Return
<1>5. CASE Answer(w)
  <2>1. PICK a : response' = [response EXCEPT ![w].answer = a]
    BY <1>5 DEF Answer
  <2> QED
    BY <1>5, <2>1 DEF Answer, locatorState
<1>6. CASE Panic(w)
  BY <1>6 DEF Panic, locatorState
<1> QED
  BY <1>1, <1>2, <1>3, <1>4, <1>5, <1>6 DEF Serve

\* A request begins or ends, or an Update goes on.
LEMMA OtherInv ==
  ASSUME Inv,
         \/ \E w \in Workers : Finish(w) \/ \E m \in Messages : StartOperation(w, m)
         \/ \E u \in Updaters : Publish(u) \/ \E gps \in GroupsValues : BeginUpdate(u, gps)
  PROVE  Inv'
<1> USE DEF Inv, Typed, OnTheWay, Steps, Goto
<1>1. ASSUME NEW w \in Workers, Finish(w)
      PROVE  Inv'
  BY <1>1 DEF Finish, locatorState
<1>2. ASSUME NEW w \in Workers, NEW m \in Messages, StartOperation(w, m)
      PROVE  Inv'
  BY <1>2 DEF StartOperation, locatorState
<1>3. ASSUME NEW u \in Updaters, Publish(u) \/ \E gps \in GroupsValues : BeginUpdate(u, gps)
      PROVE  Inv'
  BY <1>3 DEF Publish, BeginUpdate, Locating!BeginUpdate, Locating!Publish,
     Locating!EndUpdate, workerState
<1> QED
  BY <1>1, <1>2, <1>3

THEOREM Invariance == Spec => []Inv
<1>1. Inv /\ [Next]_handlerVars => Inv'
  <2>1. ASSUME Inv, Next
        PROVE  Inv'
    BY <2>1, ServeInv, OtherInv DEF Next, Alive
  <2>2. ASSUME Inv, UNCHANGED handlerVars
        PROVE  Inv'
    BY <2>2 DEF handlerVars, locatorState, workerState, Inv, Typed, OnTheWay
  <2> QED
    BY <2>1, <2>2
<1> QED
  BY InitInv, <1>1, PTL DEF Spec

(***************************************************************************)
(* Each step is a step of the service of the requests, or a stutter.       *)
(***************************************************************************)

\* The request of a worker, from what the worker knows of it.
Seen(at, m, c, located, r) ==
  CASE at = "idle" -> Serving!Idle
    [] at = "asking" /\ c.at = "answered" -> Serving!Answered(m, ResponseFrom(m, c.reply))
    [] at = "asked" -> Serving!Answered(m, ResponseFrom(m, located))
    [] at \in {"finish", "panicking"} -> Serving!Answered(m, Unordered(m, r))
    [] OTHER -> Serving!Asked(m)

SeenOf(w) == Seen(pc[w], message[w], call[w], result[w], response[w])

LEMMA RequestIsSeen ==
  /\ Request = [w \in Workers |-> SeenOf(w)]
  /\ Request' = [w \in Workers |-> SeenOf(w)']
BY DEF Request, SeenOf, Seen, Serving!Idle, Serving!Asked, Serving!Answered

\* The cases of Seen.
LEMMA SeenCases ==
  ASSUME NEW m, NEW c, NEW located, NEW r
  PROVE  /\ Seen("idle", m, c, located, r) = Serving!Idle
         /\ Seen("started", m, c, located, r) = Serving!Asked(m)
         /\ c.at # "answered" => Seen("asking", m, c, located, r) = Serving!Asked(m)
         /\ c.at = "answered" =>
              Seen("asking", m, c, located, r) = Serving!Answered(m, ResponseFrom(m, c.reply))
         /\ Seen("asked", m, c, located, r) = Serving!Answered(m, ResponseFrom(m, located))
         /\ Seen("finish", m, c, located, r) = Serving!Answered(m, Unordered(m, r))
         /\ Seen("panicking", m, c, located, r) = Serving!Answered(m, Unordered(m, r))
BY DEF Seen

\* The other workers are where they were.
Others(w) ==
  \A x \in Workers \ {w} :
    /\ pc'[x] = pc[x] /\ message'[x] = message[x] /\ call'[x] = call[x]
    /\ result'[x] = result[x] /\ response'[x] = response[x]

LEMMA OneRequest ==
  ASSUME NEW w \in Workers, Others(w)
  PROVE  Request' = [Request EXCEPT ![w] = SeenOf(w)']
<1>1. \A x \in Workers \ {w} : SeenOf(x)' = SeenOf(x)
  BY DEF Others, SeenOf
<1> QED
  BY <1>1, RequestIsSeen

\* A request that begins is asked.
LEMMA StartStep ==
  ASSUME Inv, NEW w \in Workers, NEW m \in Messages, StartOperation(w, m)
  PROVE  Serving!Ask(w, m)
<1>1. Others(w) /\ UNCHANGED <<current, updater>>
  BY DEF StartOperation, Goto, Inv, Typed, locatorState, Others
<1>2. pc[w] = "idle" /\ pc'[w] = "started" /\ message'[w] = m
  BY DEF StartOperation, Goto, Inv, Typed
<1>3. Request[w] = Serving!Idle /\ SeenOf(w)' = Serving!Asked(m)
  BY <1>2, SeenCases, RequestIsSeen DEF SeenOf
<1> QED
  BY <1>1, <1>3, OneRequest DEF Serving!Ask

\* A request that is finished returns.
LEMMA FinishStep ==
  ASSUME Inv, NEW w \in Workers, Finish(w)
  PROVE  Serving!Return(w)
<1>1. Others(w) /\ UNCHANGED <<current, updater>>
  BY DEF Finish, Goto, Inv, Typed, locatorState, Others
<1>2. pc[w] \in {"finish", "panicking"} /\ pc'[w] = "idle"
  BY DEF Finish, Goto, Inv, Typed
<1>3. SeenOf(w)' = Serving!Idle
  BY <1>2, SeenCases DEF SeenOf
<1>4. Request[w].at = "answered"
  BY <1>2, SeenCases, RequestIsSeen DEF SeenOf, Serving!Answered
<1> QED
  BY <1>1, <1>3, <1>4, OneRequest DEF Serving!Return

\* A request is answered when it is refused, as it would be from any Groups.
LEMMA RefuseStep ==
  ASSUME Inv, NEW w \in Workers, RefuseQuestion(w) \/ Unhandled(w) \/ RefuseType(w)
  PROVE  \E m \in Messages : Serving!Reply(w, m)
<1> DEFINE m == message[w]
<1>1. /\ Others(w) /\ UNCHANGED <<current, updater>>
      /\ pc[w] = "started" /\ pc'[w] = "finish" /\ message'[w] = m
      /\ response'[w] = Refused
  BY DEF RefuseQuestion, Unhandled, RefuseType, Refuse, Goto, Inv, Typed, locatorState, Others
<1>2. Request[w] = Serving!Asked(m) /\ SeenOf(w)' = Serving!Answered(m, Unordered(m, Refused))
  BY <1>1, SeenCases, RequestIsSeen DEF SeenOf
<1>3. Respond(current, m) = Unordered(m, Refused)
  BY DEF RefuseQuestion, Unhandled, RefuseType, Respond
<1>4. m \in Messages
  BY <1>1 DEF Inv, Typed
<1> QED
  BY <1>1, <1>2, <1>3, <1>4, OneRequest DEF Serving!Reply

\* A request is answered when the Locator replies.
LEMMA ReplyStep ==
  ASSUME Inv, NEW w \in Workers, LocatorReplies(w)
  PROVE  \E m \in Messages : Serving!Reply(w, m)
<1> DEFINE m == message[w]
           a == LocatorAnswer(current, LocatorRequest(m))
<1>1. /\ Others(w) /\ UNCHANGED <<current, updater>>
      /\ pc[w] = "asking" /\ pc'[w] = "asking" /\ message'[w] = m
      /\ call[w] = Locating!Asked(LocatorRequest(m))
      /\ call'[w] = Locating!Answered(LocatorRequest(m), a)
  BY DEF LocatorReplies, Locating!Reply, workerState, Inv, Typed, Others
<1>2. call[w].at # "answered" /\ call'[w].at = "answered" /\ call'[w].reply = a
  BY <1>1 DEF Locating!Asked, Locating!Answered
<1>3. Request[w] = Serving!Asked(m) /\ SeenOf(w)' = Serving!Answered(m, ResponseFrom(m, a))
  <2> HIDE DEF a
  <2> QED
    BY <1>1, <1>2, SeenCases, RequestIsSeen DEF SeenOf
<1>4. Respond(current, m) = ResponseFrom(m, a)
  BY <1>1 DEF Inv, OnTheWay, Passed, Respond
<1>5. m \in Messages
  BY <1>1 DEF Inv, Typed
<1> QED
  BY <1>1, <1>3, <1>4, <1>5, OneRequest DEF Serving!Reply

\* Whatever else a worker does does not change the answer.
LEMMA StutterStep ==
  ASSUME Inv, NEW w \in Workers,
         AskLocator(w) \/ LocatorReturns(w) \/ Answer(w) \/ Panic(w)
  PROVE  UNCHANGED <<current, updater, Request>>
<1> DEFINE m == message[w]
<1>1. /\ Others(w) /\ UNCHANGED <<current, updater>> /\ message'[w] = m
  BY DEF AskLocator, Locating!Ask, LocatorReturns, Locating!Return, Answer, Panic, Goto,
     Inv, Typed, locatorState, Others
<1>2. CASE AskLocator(w)
  <2>1. /\ pc[w] = "started" /\ pc'[w] = "asking"
        /\ call'[w] = Locating!Asked(LocatorRequest(m))
    BY <1>2 DEF AskLocator, Locating!Ask, Goto, Inv, Typed
  <2>2. call'[w].at # "answered"
    BY <2>1 DEF Locating!Asked
  <2> QED
    BY <1>1, <2>1, <2>2, SeenCases, RequestIsSeen, OneRequest DEF SeenOf
<1>3. CASE LocatorReturns(w)
  <2>1. /\ pc[w] = "asking" /\ pc'[w] = "asked"
        /\ call[w].at = "answered" /\ result'[w] = call[w].reply
    BY <1>3 DEF LocatorReturns, Locating!Return, Goto, Inv, Typed
  <2> QED
    BY <1>1, <2>1, SeenCases, RequestIsSeen, OneRequest DEF SeenOf
<1>4. CASE Answer(w)
  <2>1. PICK a \in Orders(m, Records(m, result[w])) :
          response' = [response EXCEPT ![w].answer = a]
    BY <1>4 DEF Answer
  <2>2. pc[w] = "asked" /\ pc'[w] = "finish" /\ ~FindsNil(m, result[w])
    BY <1>4 DEF Answer, Goto, Inv, Typed
  <2>3. response'[w] = [rcode |-> "NOERROR", answer |-> a]
    BY <2>1, <2>2 DEF Inv, Typed, OnTheWay, Success
  <2>4. Unordered(m, response'[w]) = ResponseFrom(m, result[w])
    BY <2>1, <2>2, <2>3, OrdersAgain DEF Unordered, ResponseFrom
  <2> QED
    BY <1>1, <2>2, <2>4, SeenCases, RequestIsSeen, OneRequest DEF SeenOf
<1>5. CASE Panic(w)
  <2>1. /\ pc[w] = "asked" /\ pc'[w] = "panicking" /\ FindsNil(m, result[w])
        /\ response'[w] = response[w] /\ response[w] = Success
    BY <1>5 DEF Panic, Goto, Inv, Typed, OnTheWay
  <2>2. Unordered(m, response'[w]) = ResponseFrom(m, result[w])
    BY <2>1 DEF ResponseFrom
  <2> QED
    BY <1>1, <2>1, <2>2, SeenCases, RequestIsSeen, OneRequest DEF SeenOf
<1> QED
  BY <1>2, <1>3, <1>4, <1>5

\* Updates are those of the Locator.
LEMMA UpdateStep ==
  ASSUME Inv, NEW u \in Updaters,
         Publish(u) \/ \E gps \in GroupsValues : BeginUpdate(u, gps)
  PROVE  Serving!Next
<1>1. UNCHANGED <<workerState, call>>
  BY DEF Publish, BeginUpdate, Locating!BeginUpdate, Locating!Publish, Locating!EndUpdate
<1>2. Request' = Request
  BY <1>1, RequestIsSeen DEF SeenOf, workerState
<1>3. \E gps \in GroupsValues :
        \/ Serving!BeginUpdate(u, gps) \/ Serving!Publish(u, gps) \/ Serving!EndUpdate(u, gps)
  BY <1>2 DEF Publish, BeginUpdate, Locating!BeginUpdate, Locating!Publish, Locating!EndUpdate,
     Serving!BeginUpdate, Serving!Publish, Serving!EndUpdate, Locating!Idle, Serving!Idle,
     Locating!Pending, Serving!Pending, Locating!Published, Serving!Published
<1> QED
  BY <1>3 DEF Serving!Next

\* Every response is made from the Groups of one Update that was current while
\* the request was served.
THEOREM Linearizable == Spec => OneUpdatePerResponse
<1>1. Init => Serving!Init
  <2> SUFFICES ASSUME Init
               PROVE  Serving!Init
    OBVIOUS
  <2>1. \A w \in Workers : SeenOf(w) = Serving!Idle
    BY SeenCases DEF Init, SeenOf
  <2> QED
    BY <2>1, RequestIsSeen DEF Init, Locating!Init, Serving!Init, Locating!Idle, Serving!Idle
<1>2. ASSUME Inv, [Next]_handlerVars
      PROVE  [Serving!Next]_(Serving!serviceVars)
  <2>1. CASE Next
    BY <1>2, <2>1, StartStep, FinishStep, RefuseStep, ReplyStep, StutterStep, UpdateStep
    DEF Next, Alive, Serve, Serving!Next, Serving!serviceVars
  <2>2. CASE UNCHANGED handlerVars
    BY <2>2, RequestIsSeen
    DEF handlerVars, locatorState, workerState, SeenOf, Serving!serviceVars
  <2> QED
    BY <1>2, <2>1, <2>2
<1> QED
  BY <1>1, <1>2, Invariance, PTL DEF Spec, Serving!Spec, OneUpdatePerResponse

(***************************************************************************)
(* Types, and the requests that panic.                                     *)
(***************************************************************************)

AllGroups == GroupsValues \union {NoGroups}

\* What the Locator returned to w came from Groups that were published, if w's
\* request came after an Update.
FromGroups(w, a) ==
  \E gps \in AllGroups :
    a = LocatorAnswer(gps, LocatorRequest(message[w])) /\ (ready[w] => gps # NoGroups)

\* What w knows of the Locator, and of its response.
Located(w) ==
  /\ pc[w] # "idle" /\ ready[w] => current # NoGroups
  /\ pc[w] = "asking" /\ call[w].at = "answered" => FromGroups(w, call[w].reply)
  /\ pc[w] \in {"asked", "panicking"} => FromGroups(w, result[w])
  /\ pc[w] = "panicking" => FindsNil(message[w], result[w])

Types == Inv /\ TypeOK /\ \A w \in Workers : Located(w)

\* The groups of a name.
LEMMA NamedProperties ==
  ASSUME NEW groups, Sequence(groups), NEW name
  PROVE  /\ Sequence(Named(groups, name))
         /\ ToSet(Named(groups, name)) = {g \in ToSet(groups) : g.name = name}
<1> DEFINE T == {g \in ToSet(groups) : g.name = name}
<1>1. /\ Keep(groups, T) \in Seq(ToSet(groups))
      /\ ToSet(Keep(groups, T)) = ToSet(groups) \intersect T
  BY KeepProperties DEF Sequence
<1>2. Keep(groups, T) \in Seq(ToSet(Keep(groups, T)))
  BY <1>1, OwnElements
<1> QED
  BY <1>1, <1>2 DEF Named, Sequence

\* The Groups of the Locator, nil or not.
LEMMA OfProperties ==
  ASSUME NEW gps \in AllGroups
  PROVE  Sequence(Of(gps)) /\ (gps = NoGroups => ToSet(Of(gps)) = {})
<1>1. <<>> \in Seq(ToSet(<<>>)) /\ ToSet(<<>>) = {}
  BY DEF ToSet
<1> QED
  BY <1>1, HandlerAssumption DEF Of, Sequence, AllGroups

\* FindString visits groups of the Locator, of the names it was given.
LEMMA FilteredProperties ==
  ASSUME NEW gps \in AllGroups, NEW names, Sequence(names)
  PROVE  /\ Sequence(Filtered(gps, names))
         /\ \A g \in ToSet(Filtered(gps, names)) :
              g \in ToSet(Of(gps)) /\ (names = <<>> \/ g.name \in ToSet(names))
<1> DEFINE S == ToSet(Of(gps))
           each == [i \in DOMAIN names |-> Named(Of(gps), names[i])]
<1>1. CASE names = <<>>
  BY <1>1, OfProperties DEF Filtered
<1>2. CASE names # <<>>
  <2>1. Sequence(Of(gps))
    BY OfProperties
  <2>2. \A i \in DOMAIN names :
          /\ Named(Of(gps), names[i]) \in Seq(S)
          /\ ToSet(Named(Of(gps), names[i])) = {g \in S : g.name = names[i]}
    <3> TAKE i \in DOMAIN names
    <3>1. /\ Sequence(Named(Of(gps), names[i]))
          /\ ToSet(Named(Of(gps), names[i])) = {g \in S : g.name = names[i]}
      BY <2>1, NamedProperties
    <3>2. \A R : R \subseteq S => Seq(R) \subseteq Seq(S)
      OBVIOUS
    <3>3. {g \in S : g.name = names[i]} \subseteq S
      OBVIOUS
    <3> QED
      BY <3>1, <3>2, <3>3 DEF Sequence
  <2>3. Len(names) \in Nat /\ DOMAIN names = 1 .. Len(names)
    BY DEF Sequence
  <2>4. each \in [1 .. Len(names) -> Seq(S)]
    BY <2>2, <2>3
  <2>5. \A i \in DOMAIN names : ToSet(each[i]) = {g \in S : g.name = names[i]}
    BY <2>2
  <2>6. Filtered(gps, names) = FlattenSeq(each)
    BY <1>2 DEF Filtered
  <2> HIDE DEF each
  <2>7. each \in Seq(Seq(S)) /\ DOMAIN each = DOMAIN names
    BY <2>3, <2>4
  <2>8. /\ FlattenSeq(each) \in Seq(S)
        /\ ToSet(FlattenSeq(each)) = UNION {ToSet(each[i]) : i \in DOMAIN names}
    BY <2>7, FlattenProperties
  <2>9. FlattenSeq(each) \in Seq(ToSet(FlattenSeq(each)))
    BY <2>8, OwnElements
  <2>10. \A i \in DOMAIN names : names[i] \in ToSet(names)
    BY DEF ToSet
  <2>11. \A g \in ToSet(FlattenSeq(each)) : g \in S /\ g.name \in ToSet(names)
    BY <2>5, <2>8, <2>10
  <2> QED
    BY <2>6, <2>9, <2>11 DEF Sequence
<1> QED
  BY <1>1, <1>2

\* The names of groups in an endpoint request.
LEMMA RequestedGroups ==
  ASSUME NEW m \in Messages
  PROVE  Sequence(ParseEndpointRequest(m).groups)
<1> DEFINE labels == Labels(m)
           S == ToSet(m.labels) \union {Blank}
<1>1. ToSet(m.labels) \subseteq S /\ m.labels \in Seq(ToSet(m.labels))
  BY HandlerAssumption DEF Sequence
<1>2. m.labels \in Seq(S)
  BY <1>1
<1>3. labels \in Seq(S) /\ labels # <<>>
  <2>1. \A x \in S : <<x>> \in Seq(S) /\ <<x>> # <<>>
    OBVIOUS
  <2> QED
    BY <1>2, <2>1 DEF Labels
<1>4. Tail(labels) \in Seq(S)
  BY <1>3
<1>5. Tail(labels) \in Seq(ToSet(Tail(labels)))
  BY <1>4, OwnElements
<1> QED
  BY <1>5 DEF ParseEndpointRequest, Sequence

\* An endpoint that the Locator returns is one of a group it has, or nil for a
\* group that has none.
LEMMA LocatedEndpoints ==
  ASSUME NEW m \in Messages, m.domain = "endpoint", NEW gps \in AllGroups,
         NEW located, located = LocatorAnswer(gps, LocatorRequest(m))
  PROVE  /\ Sequence(located)
         /\ \A e \in ToSet(located) :
              \E g \in ToSet(Of(gps)) :
                /\ \/ ParseEndpointRequest(m).groups = <<>>
                   \/ g.name \in ToSet(ParseEndpointRequest(m).groups)
                /\ IF g.endpoints = <<>> THEN e = NilEndpoint
                   ELSE e \in ToSet(g.endpoints) \ {NilEndpoint}
<1> DEFINE q == ParseEndpointRequest(m)
           visited == Filtered(gps, q.groups)
<1>1. located = [i \in DOMAIN visited |-> Nearest(visited[i].endpoints, q.object)]
  BY RingAssumption DEF LocatorAnswer, LocatorRequest
<1>2. /\ Sequence(visited)
      /\ \A g \in ToSet(visited) :
           g \in ToSet(Of(gps)) /\ (q.groups = <<>> \/ g.name \in ToSet(q.groups))
  BY RequestedGroups, FilteredProperties
<1>3. \A g \in ToSet(Of(gps)) :
        IF g.endpoints = <<>> THEN Nearest(g.endpoints, q.object) = NilEndpoint
        ELSE Nearest(g.endpoints, q.object) \in ToSet(g.endpoints) \ {NilEndpoint}
  <2> TAKE g \in ToSet(Of(gps))
  <2>1. gps \in GroupsValues /\ Of(gps) = gps
    BY OfProperties, HandlerAssumption DEF Of, AllGroups
  <2>2. PICK i \in DOMAIN gps : g = gps[i]
    BY <2>1 DEF ToSet
  <2> QED
    BY <2>1, <2>2, RingAssumption
<1> HIDE DEF visited, q
<1>4. Len(visited) \in Nat /\ DOMAIN visited = 1 .. Len(visited)
  BY <1>2 DEF Sequence
<1>5. located \in Seq(ToSet(located))
  <2>1. located \in Seq({Nearest(g.endpoints, q.object) : g \in ToSet(visited)})
    <3>1. \A i \in DOMAIN visited : visited[i] \in ToSet(visited)
      BY DEF ToSet
    <3>2. located \in [1 .. Len(visited) ->
                         {Nearest(g.endpoints, q.object) : g \in ToSet(visited)}]
      BY <1>1, <1>4, <3>1
    <3> QED
      BY <1>4, <3>2
  <2> QED
    BY <2>1, OwnElements
<1>6. \A e \in ToSet(located) : \E g \in ToSet(visited) : e = Nearest(g.endpoints, q.object)
  BY <1>1 DEF ToSet
<1> QED
  BY <1>2, <1>3, <1>5, <1>6 DEF Sequence, q

\* Records of one type, one sequence after the other.
LEMMA FlatRecords ==
  ASSUME NEW each, Sequence(each), NEW type,
         \A i \in DOMAIN each : /\ Sequence(each[i])
                                /\ \A k \in DOMAIN each[i] : each[i][k].type = type
  PROVE  \A i \in DOMAIN FlattenSeq(each) : FlattenSeq(each)[i].type = type
<1> DEFINE S == UNION {ToSet(each[i]) : i \in DOMAIN each}
<1>1. \A i \in DOMAIN each : each[i] \in Seq(S)
  <2> TAKE i \in DOMAIN each
  <2>1. each[i] \in Seq(ToSet(each[i])) /\ ToSet(each[i]) \subseteq S
    BY DEF Sequence
  <2> HIDE DEF S
  <2> QED
    BY <2>1, SequenceOfMore
<1>2. \A x \in S : x.type = type
  BY DEF ToSet
<1> HIDE DEF S
<1>3. each \in Seq(Seq(S))
  <2>1. each \in Seq(ToSet(each)) /\ \A x \in ToSet(each) : x \in Seq(S)
    BY <1>1 DEF Sequence, ToSet
  <2> QED
    BY <2>1, SequenceOfMore
<1>4. FlattenSeq(each) \in Seq(S)
  BY <1>3, FlattenProperties
<1> QED
  BY <1>2, <1>4

\* The records of an answer for endpoints.
LEMMA LocatedRecords ==
  ASSUME NEW located, Sequence(located), NEW type,
         \A e \in ToSet(located) : Sequence(e.ip4) /\ Sequence(e.ip6)
  PROVE  \A i \in DOMAIN LocatedRRs(located, type) : LocatedRRs(located, type)[i].type = type
<1> DEFINE addresses(e) == IF type = "A" THEN e.ip4 ELSE e.ip6
           records(a) == [k \in DOMAIN a |-> [type |-> type, data |-> a[k]]]
           each == [i \in DOMAIN located |-> records(addresses(located[i]))]
<1>1. ASSUME NEW a, Sequence(a)
      PROVE  Sequence(records(a)) /\ \A k \in DOMAIN records(a) : records(a)[k].type = type
  <2>1. Len(a) \in Nat /\ DOMAIN a = 1 .. Len(a)
    BY <1>1 DEF Sequence
  <2>2. records(a) \in [1 .. Len(a) -> ToSet(records(a))]
    BY <2>1 DEF ToSet
  <2>3. records(a) \in Seq(ToSet(records(a)))
    BY <2>1, <2>2
  <2> QED
    BY <2>3 DEF Sequence
<1>2. Len(located) \in Nat /\ DOMAIN located = 1 .. Len(located)
  BY DEF Sequence
<1>3. \A i \in DOMAIN located : Sequence(addresses(located[i]))
  BY DEF ToSet
<1> HIDE DEF addresses, records
<1>4. \A i \in DOMAIN located :
        /\ Sequence(each[i])
        /\ \A k \in DOMAIN each[i] : each[i][k].type = type
  BY <1>1, <1>3
<1>5. type \in AddressTypes => LocatedRRs(located, type) = FlattenSeq(each)
  BY DEF LocatedRRs, addresses, records
<1>6. each \in [1 .. Len(located) -> ToSet(each)] /\ DOMAIN each = DOMAIN located
  BY <1>2 DEF ToSet
<1> HIDE DEF each
<1>7. Sequence(each)
  BY <1>2, <1>6, FunctionIsSequence
<1>8. \A i \in DOMAIN FlattenSeq(each) : FlattenSeq(each)[i].type = type
  BY <1>4, <1>6, <1>7, FlatRecords
<1>9. CASE type \in AddressTypes
  BY <1>5, <1>8, <1>9
<1>10. CASE type \notin AddressTypes
  BY <1>10 DEF LocatedRRs
<1> QED
  BY <1>9, <1>10

\* The records of an answer for groups.
LEMMA GroupsRecords ==
  ASSUME NEW gps \in GroupsValues, NEW name
  PROVE  \A i \in DOMAIN GroupsRRs(gps, name) : GroupsRRs(gps, name)[i].type = "TXT"
<1> DEFINE chosen == IF name = Blank THEN gps ELSE Named(gps, name)
           each == [i \in DOMAIN chosen |-> GroupRRs(chosen[i])]
<1>1. Sequence(chosen) /\ \A g \in ToSet(chosen) : g \in ToSet(gps)
  BY HandlerAssumption, NamedProperties
<1>2. ASSUME NEW g \in ToSet(gps)
      PROVE  /\ Sequence(GroupRRs(g))
             /\ \A k \in DOMAIN GroupRRs(g) : GroupRRs(g)[k].type = "TXT"
  <2> DEFINE names == [i \in DOMAIN g.endpoints |-> g.endpoints[i].originalName]
             members == g.services \o names
  <2>1. Sequence(g.services) /\ Sequence(g.endpoints)
    BY HandlerAssumption
  <2>2. Len(members) \in Nat /\ DOMAIN members = 1 .. Len(members)
    <3>1. Len(g.endpoints) \in Nat /\ DOMAIN g.endpoints = 1 .. Len(g.endpoints)
      BY <2>1 DEF Sequence
    <3>2. names \in [1 .. Len(g.endpoints) -> ToSet(names)]
      BY <3>1 DEF ToSet
    <3>3. names \in Seq(ToSet(names))
      BY <3>1, <3>2
    <3> HIDE DEF names
    <3>4. members \in Seq(ToSet(g.services) \union ToSet(names))
      <4>1. /\ g.services \in Seq(ToSet(g.services) \union ToSet(names))
            /\ names \in Seq(ToSet(g.services) \union ToSet(names))
        BY <2>1, <3>3, SequenceOfMore DEF Sequence
      <4> QED
        BY <4>1
    <3> HIDE DEF members
    <3> QED
      BY <3>4
  <2>3. GroupRRs(g) = [i \in DOMAIN members |-> [type |-> "TXT", data |-> <<g.name, members[i]>>]]
    BY DEF GroupRRs
  <2> HIDE DEF members
  <2>4. GroupRRs(g) \in [1 .. Len(members) -> ToSet(GroupRRs(g))]
    BY <2>2, <2>3 DEF ToSet
  <2>5. GroupRRs(g) \in Seq(ToSet(GroupRRs(g)))
    BY <2>2, <2>4
  <2> QED
    BY <2>2, <2>3, <2>5 DEF Sequence
<1>3. GroupsRRs(gps, name) = FlattenSeq(each)
  BY DEF GroupsRRs
<1> HIDE DEF chosen
<1>4. Len(chosen) \in Nat /\ DOMAIN chosen = 1 .. Len(chosen)
  BY <1>1 DEF Sequence
<1>5. \A i \in DOMAIN chosen : chosen[i] \in ToSet(gps)
  BY <1>1 DEF ToSet
<1>6. \A i \in DOMAIN chosen :
        /\ Sequence(each[i])
        /\ \A k \in DOMAIN each[i] : each[i][k].type = "TXT"
  BY <1>2, <1>5
<1>7. each \in [1 .. Len(chosen) -> ToSet(each)] /\ DOMAIN each = DOMAIN chosen
  BY <1>4 DEF ToSet
<1> HIDE DEF each
<1>8. Sequence(each)
  BY <1>4, <1>7, FunctionIsSequence
<1> QED
  BY <1>3, <1>6, <1>7, <1>8, FlatRecords

\* Every record of an answer is of the type that was asked for.
LEMMA RecordsTyped ==
  ASSUME NEW m \in Messages, Passed(m), NEW gps \in AllGroups,
         NEW located, located = LocatorAnswer(gps, LocatorRequest(m)),
         ~FindsNil(m, located)
  PROVE  \A i \in DOMAIN Records(m, located) : Records(m, located)[i].type = m.type
<1>1. CASE m.domain = "group"
  <2>1. m.type = "TXT" /\ located = gps /\ gps \in GroupsValues
    BY <1>1 DEF Passed, LocatorAnswer, LocatorRequest, FindsNil, AllGroups
  <2> QED
    BY <1>1, <2>1, GroupsRecords DEF Records
<1>2. CASE m.domain = "endpoint" /\ m.type \in AddressTypes
  <2>1. Sequence(located)
    BY <1>2, LocatedEndpoints
  <2>2. \A e \in ToSet(located) : Sequence(e.ip4) /\ Sequence(e.ip6)
    <3> TAKE e \in ToSet(located)
    <3>1. e # NilEndpoint
      BY <1>2 DEF FindsNil
    <3>2. PICK g \in ToSet(Of(gps)) : e \in ToSet(g.endpoints)
      BY <1>2, <3>1, LocatedEndpoints
    <3>3. gps \in GroupsValues /\ Of(gps) = gps
      BY <3>2, OfProperties, HandlerAssumption DEF Of, AllGroups
    <3> QED
      BY <3>2, <3>3, HandlerAssumption
  <2> QED
    BY <1>2, <2>1, <2>2, LocatedRecords DEF Records
<1>3. CASE m.domain = "endpoint" /\ m.type \notin AddressTypes
  BY <1>3 DEF Records, LocatedRRs
<1> QED
  BY <1>1, <1>2, <1>3 DEF Passed

\* An order of records has no others.
LEMMA OnlyOrdered ==
  ASSUME NEW m, NEW s, NEW a \in Orders(m, s)
  PROVE  \A i \in DOMAIN a : \E k \in DOMAIN s : a[i] = s[k]
<1>1. CASE a \in Shuffled(s)
  <2>1. PICK f \in Bijection(DOMAIN s, DOMAIN s) : a = [i \in DOMAIN s |-> s[f[i]]]
    BY <1>1 DEF Shuffled
  <2>2. f \in [DOMAIN s -> DOMAIN s]
    BY <2>1 DEF Bijection, Injection
  <2> QED
    BY <2>1, <2>2
<1>2. CASE a = s
  BY <1>2
<1> QED
  BY <1>1, <1>2 DEF Orders

\* The nil pointers there are.
LEMMA NilIsKnown ==
  ASSUME NEW m \in Messages, Passed(m), NEW gps \in AllGroups,
         NEW located, located = LocatorAnswer(gps, LocatorRequest(m)),
         FindsNil(m, located)
  PROVE  IF m.domain = "group" THEN gps = NoGroups ELSE MayLocateNil(m)
<1>1. CASE m.domain = "group"
  BY <1>1 DEF LocatorAnswer, LocatorRequest, FindsNil
<1>2. CASE m.domain = "endpoint"
  <2> DEFINE names == ParseEndpointRequest(m).groups
  <2>1. NilEndpoint \in ToSet(located)
    BY <1>2 DEF FindsNil
  <2>2. PICK g \in ToSet(Of(gps)) :
          (names = <<>> \/ g.name \in ToSet(names)) /\ g.endpoints = <<>>
    BY <1>2, <2>1, LocatedEndpoints
  <2>3. gps \in GroupsValues /\ Of(gps) = gps
    BY <2>2, OfProperties, HandlerAssumption DEF Of, AllGroups
  <2>4. PICK i \in DOMAIN gps : g = gps[i]
    BY <2>2, <2>3 DEF ToSet
  <2>5. names = <<>> => ToSet(names) = {}
    BY DEF ToSet
  <2> QED
    BY <1>2, <2>2, <2>3, <2>4, <2>5 DEF MayLocateNil
<1> QED
  BY <1>1, <1>2 DEF Passed

LEMMA InitTypes == Init => Types
<1>1. Init => TypeOK
  BY DEF Init, Locating!Init, TypeOK, Success
<1>2. Init => \A w \in Workers : Located(w)
  BY DEF Init, Located
<1> QED
  BY <1>1, <1>2, InitInv DEF Types

\* A step of w leaves what is known of the others alone.
LEMMA OneLocated ==
  ASSUME Types, Inv', NEW w \in Workers, Others(w), \A x \in Workers \ {w} : ready'[x] = ready[x],
         UNCHANGED current, Located(w)'
  PROVE  \A x \in Workers : Located(x)'
<1>1. ASSUME NEW x \in Workers \ {w}
      PROVE  Located(x)'
  BY DEF Types, Located, FromGroups, Others
<1> QED
  BY <1>1

\* A worker goes on.
LEMMA ServeTypes ==
  ASSUME Types, NEW w \in Workers, Serve(w), UNCHANGED alive
  PROVE  Types'
<1> DEFINE m == message[w]
<1>1. Inv' /\ UNCHANGED <<current, message, ready>>
  BY ServeInv DEF Types, Serve, RefuseQuestion, Unhandled, RefuseType, Refuse, AskLocator,
     LocatorReplies, LocatorReturns, Answer, Panic, locatorState, workerState,
     Locating!Ask, Locating!Reply, Locating!Return
<1>2. Others(w)
  BY DEF Types, Inv, Typed, Others, Serve, RefuseQuestion, Unhandled, RefuseType, Refuse,
     AskLocator, LocatorReplies, LocatorReturns, Answer, Panic, Goto, locatorState,
     workerState, Locating!Ask, Locating!Reply, Locating!Return
<1>3. pc[w] # "idle" /\ pc'[w] # "idle" /\ m \in Messages
  BY DEF Types, Inv, Typed, Serve, RefuseQuestion, Unhandled, RefuseType, Refuse,
     AskLocator, LocatorReplies, LocatorReturns, Answer, Panic, Goto, workerState
<1>4. /\ response'[w].rcode \in {"NOERROR", "REFUSED"}
      /\ \A i \in DOMAIN response'[w].answer : response'[w].answer[i].type = m.type
  <2>1. CASE RefuseQuestion(w) \/ Unhandled(w) \/ RefuseType(w)
    <3>1. response'[w] = Refused
      BY <2>1 DEF RefuseQuestion, Unhandled, RefuseType, Refuse, Types, Inv, Typed
    <3> QED
      BY <3>1 DEF Refused
  <2>2. CASE Answer(w)
    <3>1. /\ pc[w] = "asked" /\ ~FindsNil(m, result[w])
          /\ \E a \in Orders(m, Records(m, result[w])) :
               response' = [response EXCEPT ![w].answer = a]
      BY <2>2 DEF Answer
    <3>2. PICK a \in Orders(m, Records(m, result[w])) :
            response' = [response EXCEPT ![w].answer = a]
      BY <3>1
    <3>3. response[w] = Success
      BY <3>1 DEF Types, Inv, OnTheWay
    <3>4. response'[w] = [rcode |-> "NOERROR", answer |-> a]
      BY <3>2, <3>3 DEF Success, Types, Inv, Typed
    <3>5. Passed(m) /\ FromGroups(w, result[w])
      BY <3>1 DEF Types, Inv, OnTheWay, Located
    <3>6. \A i \in DOMAIN Records(m, result[w]) : Records(m, result[w])[i].type = m.type
      BY <1>3, <3>1, <3>5, RecordsTyped DEF FromGroups
    <3>7. \A i \in DOMAIN a : a[i].type = m.type
      <4>1. \A i \in DOMAIN a : \E k \in DOMAIN Records(m, result[w]) :
              a[i] = Records(m, result[w])[k]
        BY OnlyOrdered
      <4> QED
        BY <3>6, <4>1
    <3> QED
      BY <3>4, <3>7
  <2>3. CASE AskLocator(w) \/ LocatorReplies(w) \/ LocatorReturns(w) \/ Panic(w)
    BY <2>3 DEF AskLocator, LocatorReplies, LocatorReturns, Panic, workerState, Types, TypeOK
  <2> QED
    BY <2>1, <2>2, <2>3 DEF Serve
<1>5. TypeOK'
  <2>1. \A x \in Workers :
          /\ (pc'[x] = "idle") <=> (message'[x] = NoMessage)
          /\ response'[x].rcode \in {"NOERROR", "REFUSED"}
          /\ \A i \in DOMAIN response'[x].answer :
               response'[x].answer[i].type = message'[x].type
    <3> TAKE x \in Workers
    <3>1. CASE x = w
      BY <1>1, <1>3, <1>4, <3>1, HandlerAssumption
    <3>2. CASE x # w
      BY <1>1, <1>2, <3>2 DEF Others, Types, TypeOK
    <3> QED
      BY <3>1, <3>2
  <2> QED
    BY <1>1, <2>1 DEF Types, Inv, Typed, Steps, TypeOK
<1>6. Located(w)'
  <2>1. CASE RefuseQuestion(w) \/ Unhandled(w) \/ RefuseType(w) \/ AskLocator(w)
    <3>1. \/ pc'[w] = "finish"
          \/ pc'[w] = "asking" /\ call'[w].at = "asked"
      BY <2>1 DEF RefuseQuestion, Unhandled, RefuseType, Refuse, AskLocator, Locating!Ask,
         Locating!Asked, Goto, Types, Inv, Typed
    <3> QED
      BY <1>1, <1>3, <3>1 DEF Types, Located
  <2>2. CASE LocatorReplies(w)
    <3>1. /\ pc'[w] = "asking"
          /\ call'[w].reply = LocatorAnswer(current, LocatorRequest(m))
      BY <2>2 DEF LocatorReplies, Locating!Reply, Locating!Answered, workerState, Types, Inv, Typed
    <3>2. current \in AllGroups /\ (ready[w] => current # NoGroups)
      BY <1>3 DEF Types, TypeOK, Located, AllGroups
    <3> QED
      BY <1>1, <1>3, <3>1, <3>2 DEF Located, FromGroups
  <2>3. CASE LocatorReturns(w)
    <3>1. /\ pc[w] = "asking" /\ pc'[w] = "asked"
          /\ call[w].at = "answered" /\ result'[w] = call[w].reply
      BY <2>3 DEF LocatorReturns, Locating!Return, Goto, Types, Inv, Typed
    <3>2. FromGroups(w, call[w].reply)
      BY <3>1 DEF Types, Located
    <3> QED
      BY <1>1, <1>3, <3>1, <3>2 DEF Types, Located, FromGroups
  <2>4. CASE Answer(w)
    <3>1. pc'[w] = "finish"
      BY <2>4 DEF Answer, Goto, Types, Inv, Typed
    <3> QED
      BY <1>1, <1>3, <3>1 DEF Types, Located
  <2>5. CASE Panic(w)
    <3>1. pc[w] = "asked" /\ pc'[w] = "panicking" /\ FindsNil(m, result[w]) /\ result' = result
      BY <2>5 DEF Panic, Goto, Types, Inv, Typed
    <3> QED
      BY <1>1, <1>3, <3>1 DEF Types, Located, FromGroups
  <2> QED
    BY <2>1, <2>2, <2>3, <2>4, <2>5 DEF Serve
<1> QED
  BY <1>1, <1>2, <1>5, <1>6, OneLocated DEF Types

\* A request begins or ends.
LEMMA RequestTypes ==
  ASSUME Types, NEW w \in Workers,
         \/ Finish(w)
         \/ \E m \in Messages : Alive(StartOperation(w, m))
  PROVE  Types'
<1>1. Inv' /\ UNCHANGED current
  BY OtherInv DEF Types, Finish, StartOperation, Alive, locatorState
<1>2. Others(w) /\ \A x \in Workers \ {w} : ready'[x] = ready[x]
  BY DEF Types, TypeOK, Inv, Typed, Others, Finish, Alive, StartOperation, Goto, locatorState
<1>3. response'[w] = Success /\ alive' \in BOOLEAN /\ ready' \in [Workers -> BOOLEAN]
  BY DEF Types, TypeOK, Inv, Typed, Finish, Alive, StartOperation
<1>4. \/ pc'[w] = "idle" /\ message'[w] = NoMessage
      \/ /\ pc'[w] = "started" /\ message'[w] \in Messages
         /\ ready'[w] = (current # NoGroups)
  BY DEF Types, TypeOK, Inv, Typed, Finish, Alive, StartOperation, Goto
<1>5. message' \in [Workers -> Messages \union {NoMessage}]
  BY DEF Types, TypeOK, Finish, Alive, StartOperation
<1>6. TypeOK'
  <2>1. \A x \in Workers :
          /\ (pc'[x] = "idle") <=> (message'[x] = NoMessage)
          /\ response'[x].rcode \in {"NOERROR", "REFUSED"}
          /\ \A i \in DOMAIN response'[x].answer :
               response'[x].answer[i].type = message'[x].type
    <3> TAKE x \in Workers
    <3>1. CASE x = w
      BY <1>3, <1>4, <3>1, HandlerAssumption DEF Success
    <3>2. CASE x # w
      BY <1>2, <3>2 DEF Others, Types, TypeOK
    <3> QED
      BY <3>1, <3>2
  <2> QED
    BY <1>1, <1>3, <1>5, <2>1 DEF Types, Inv, Typed, Steps, TypeOK
<1>7. Located(w)'
  BY <1>1, <1>4 DEF Located
<1> QED
  BY <1>1, <1>2, <1>6, <1>7, OneLocated DEF Types

\* An Update goes on: Groups are published, never nil.
LEMMA UpdateTypes ==
  ASSUME Types, NEW u \in Updaters,
         \/ \E gps \in GroupsValues : Alive(BeginUpdate(u, gps))
         \/ Alive(Publish(u))
  PROVE  Types'
<1>1. Inv'
  BY OtherInv DEF Types, Alive
<1>2. /\ UNCHANGED <<workerState, call, alive>>
      /\ current' = current \/ current' \in GroupsValues
  BY DEF Alive, BeginUpdate, Publish, Locating!BeginUpdate, Locating!Publish,
     Locating!EndUpdate
<1>3. TypeOK'
  BY <1>2 DEF Types, TypeOK, workerState
<1>4. \A x \in Workers : Located(x)'
  BY <1>2, HandlerAssumption DEF Types, Located, FromGroups, workerState
<1> QED
  BY <1>1, <1>3, <1>4 DEF Types

LEMMA TypesInvariance == Spec => []Types
<1>1. Types /\ [Next]_handlerVars => Types'
  <2>1. ASSUME Types, Next
        PROVE  Types'
    <3>1. ASSUME NEW w \in Workers, Alive(Serve(w))
          PROVE  Types'
      BY <2>1, <3>1, ServeTypes DEF Alive
    <3> QED
      BY <2>1, <3>1, RequestTypes, UpdateTypes DEF Next
  <2>2. ASSUME Types, UNCHANGED handlerVars
        PROVE  Types'
    BY <2>2 DEF handlerVars, locatorState, workerState, Types, TypeOK, Inv, Typed, OnTheWay,
       Located, FromGroups
  <2> QED
    BY <2>1, <2>2
<1> QED
  BY InitTypes, <1>1, PTL DEF Spec

\* The variables have their types, and the answer to a request only has
\* records of the type that was asked for, whatever Groups are published.
THEOREM TypeCorrect == Spec => []TypeOK
<1>1. Types => TypeOK
  BY DEF Types
<1> QED
  BY <1>1, TypesInvariance, PTL

\* A request for groups only panics if it came before the first Update was
\* published, and one for endpoints only if there may be a group without any.
THEOREM OnlyKnownPanics == Spec => []PanicsAreKnown
<1>1. Types => PanicsAreKnown
  <2> SUFFICES ASSUME Types, NEW w \in Workers, pc[w] = "panicking"
               PROVE  IF message[w].domain = "group" THEN ~ready[w] ELSE MayLocateNil(message[w])
    BY DEF PanicsAreKnown
  <2>1. message[w] \in Messages /\ Passed(message[w]) /\ FindsNil(message[w], result[w])
    BY DEF Types, Inv, Typed, OnTheWay, Located
  <2>2. PICK gps \in AllGroups :
          /\ result[w] = LocatorAnswer(gps, LocatorRequest(message[w]))
          /\ ready[w] => gps # NoGroups
    BY DEF Types, Located, FromGroups
  <2> QED
    BY <2>1, <2>2, NilIsKnown
<1> QED
  BY <1>1, TypesInvariance, PTL

=============================================================================
