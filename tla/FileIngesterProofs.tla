------------------------- MODULE FileIngesterProofs -------------------------
(***************************************************************************)
(* Theorems about FileIngester for any files, checksum, listeners and      *)
(* number of edits: first as long as calls of Ingest do not overlap,       *)
(* whoever makes them, which HashyProofs shows of the application, and in  *)
(* the section after that for calls that do.  The last section shows the   *)
(* types of all variables.                                                 *)
(*                                                                         *)
(* ListenerAgrees speaks of the moments between two calls.  Serial says    *)
(* what the call under way preserves of it at each of its steps: up to the *)
(* swap the listeners still have what the checksum stands for, and while   *)
(* groups are dispatched the listeners are split into those that have the  *)
(* new groups and those that have groups of another checksum, or none.     *)
(***************************************************************************)
EXTENDS IngestHistory, SequenceLemmas

USE DEF IngesterConstants

\* Calls do not overlap.
SerialCalls == \A c, d \in Calls : pc[c] # "idle" /\ pc[d] # "idle" => c = d

\* Nobody but c is in a call.
Alone(c) == \A d \in Calls \ {c} : pc[d] = "idle"

\* The types the proof needs.
Typed ==
  /\ disk \in [Paths -> Contents \union {NoContent}]
  /\ first \in BOOLEAN
  /\ pc \in [Calls -> {"idle", "files", "store", "compare", "swap", "dispatch"}]
  /\ DOMAIN old = Calls
  /\ seen \in [Calls -> Seq(Reading)]
  /\ event \in [Calls -> Seq(Reading) \union {NoEvent, Failure}]
  /\ told \in [Calls -> 0 .. NumListeners]
  /\ heard \in [Listeners -> Seq(Reading) \union {NoEvent}]

\* The listeners have what the checksum stands for, or nothing yet.
Agree ==
  IF first
    THEN \A l \in Listeners : heard[l] # NoEvent /\ Sum(heard[l]) = checksum
    ELSE \A l \in Listeners : heard[l] = NoEvent

\* Listener l is about to be given something new.
Behind(l) == heard[l] = NoEvent \/ Sum(heard[l]) # checksum

\* The groups of call c have reached the first told[c] listeners.
Split(c) ==
  /\ first
  /\ event[c] \in Seq(Reading)
  /\ Sum(event[c]) = checksum
  /\ \A l \in Listeners : IF l <= told[c] THEN heard[l] = event[c] ELSE Behind(l)

Serial ==
  /\ (\A c \in Calls : pc[c] = "idle") => Agree
  /\ \A c \in Calls :
       /\ pc[c] \in {"files", "compare", "swap"} => Agree /\ old[c] = checksum
       /\ pc[c] \in {"compare", "swap"} => first
       /\ pc[c] = "swap" => Sum(seen[c]) # checksum
       /\ pc[c] = "store" => first /\ \A l \in Listeners : heard[l] = NoEvent
       /\ pc[c] = "dispatch" => IF event[c] = Failure THEN Agree ELSE Split(c)
       /\ pc[c] # "dispatch" => told[c] = 0

Inv == Typed /\ Serial

LEMMA InitInv == Init => Inv
<1> SUFFICES ASSUME Init PROVE Inv
  OBVIOUS
<1>1. <<>> \in Seq(Reading)
  OBVIOUS
<1>2. Typed
  <2>1. /\ disk \in [Paths -> Contents \union {NoContent}] /\ first \in BOOLEAN
        /\ pc \in [Calls -> {"idle", "files", "store", "compare", "swap", "dispatch"}]
        /\ DOMAIN old = Calls
    BY DEF Init
  <2>2. seen \in [Calls -> Seq(Reading)]
    BY <1>1 DEF Init
  <2>3. event \in [Calls -> Seq(Reading) \union {NoEvent, Failure}]
    BY DEF Init
  <2>4. told \in [Calls -> 0 .. NumListeners]
    BY IngesterAssumption DEF Init
  <2>5. heard \in [Listeners -> Seq(Reading) \union {NoEvent}]
    BY DEF Init
  <2> QED
    BY <2>1, <2>2, <2>3, <2>4, <2>5 DEF Typed
<1>3. Serial
  BY DEF Init, Serial, Agree
<1> QED
  BY <1>2, <1>3 DEF Inv

\* What a reading is made of.
LEMMA ReadingTyped ==
  ASSUME NEW v, Parses(v)
  PROVE  [file |-> v, included |-> IncludedBy(v)] \in Reading
BY DEF Parses, Readable, IncludedBy, Reading

\* A step of call c up to its swap changes neither what the listeners have nor
\* what the checksum says.
LEMMA ReadingInv ==
  ASSUME Inv, NEW c \in Calls, Alone(c),
         Begin(c) \/ ExpandGlob(c) \/ GlobFails(c) \/ FileFails(c) \/ ReadFile(c)
  PROVE  Inv'
<1>1. UNCHANGED <<disk, first, checksum, heard>>
  BY DEF Begin, ExpandGlob, GlobFails, FileFails, ReadFile, env, shared, sinks
<1>2. Agree /\ Agree' = Agree /\ told[c] = 0
  <2>1. pc[c] \in {"idle", "files"}
    BY DEF Begin, ExpandGlob, GlobFails, FileFails, ReadFile
  <2>2. Agree /\ told[c] = 0
    BY <2>1 DEF Inv, Serial, Alone
  <2> QED
    BY <1>1, <2>2 DEF Agree, Sum, Hashed
<1>3. CASE Begin(c)
  BY <1>1, <1>2, <1>3 DEF Begin, Goto, Alone, Inv, Typed, Serial, shared, sinks
<1>4. CASE ExpandGlob(c)
  BY <1>1, <1>2, <1>4 DEF ExpandGlob, Alone, Inv, Typed, Serial, shared, sinks
<1>5. CASE GlobFails(c) \/ FileFails(c)
  BY <1>1, <1>2, <1>5 DEF GlobFails, FileFails, Dispatch, Goto, Alone, Inv, Typed, Serial
<1>6. CASE ReadFile(c)
  <2>1. PICK x \in Reading : seen' = [seen EXCEPT ![c] = Append(@, x)]
    BY <1>6, ReadingTyped DEF ReadFile, Inv
  <2>2. Typed'
    BY <1>1, <1>6, <2>1 DEF ReadFile, Inv, Typed
  <2>3. Serial'
    BY <1>1, <1>2, <1>6 DEF ReadFile, Alone, Inv, Typed, Serial
  <2> QED
    BY <2>2, <2>3 DEF Inv
<1> QED
  BY <1>3, <1>4, <1>5, <1>6

\* The end of a call leaves nobody in a call.
LEMMA FinishInv ==
  ASSUME Inv, NEW c \in Calls, Alone(c), Finish(c), Typed', Agree'
  PROVE  Inv'
<1>1. \A d \in Calls : pc'[d] = "idle" /\ told'[d] = 0
  BY DEF Finish, Goto, Alone, Inv, Typed, Serial
<1> QED
  BY <1>1 DEF Inv, Serial

\* The steps that settle whether the reading is new.
LEMMA DecideInv ==
  ASSUME Inv, NEW c \in Calls, Alone(c),
         \/ TakeFirst(c) \/ StoreFirst(c) \/ NotFirst(c)
         \/ Unchanged(c) \/ Changed(c) \/ Swap(c) \/ SwapFails(c)
  PROVE  Inv'
<1>1. UNCHANGED <<disk, heard>> /\ told[c] = 0 /\ \A d \in Calls \ {c} : pc[d] = "idle"
  BY DEF TakeFirst, StoreFirst, NotFirst, Unchanged, Changed, Swap, SwapFails,
         FilesDone, env, sinks, Inv, Serial, Alone
<1>2. CASE TakeFirst(c)
  BY <1>1, <1>2 DEF TakeFirst, FilesDone, Goto, Inv, Typed, Serial, Agree
<1>3. CASE NotFirst(c)
  BY <1>1, <1>3 DEF NotFirst, FilesDone, Goto, shared, Inv, Typed, Serial, Agree
<1>4. CASE Unchanged(c) \/ SwapFails(c)
  <2>1. pc[c] \in {"compare", "swap"} /\ Finish(c) /\ UNCHANGED <<first, checksum>>
    BY <1>4 DEF Unchanged, SwapFails, shared
  <2>2. Agree'
    BY <1>1, <2>1 DEF Inv, Serial, Agree
  <2>3. Typed'
    BY <1>1, <2>1, IngesterAssumption DEF Finish, Goto, Inv, Typed
  <2> QED
    BY <2>1, <2>2, <2>3, FinishInv
<1>5. CASE Changed(c)
  BY <1>1, <1>5 DEF Changed, Goto, shared, Inv, Typed, Serial, Agree
<1>6. CASE StoreFirst(c) \/ Swap(c)
  <2>1. /\ pc' = [pc EXCEPT ![c] = "dispatch"]
        /\ event' = [event EXCEPT ![c] = seen[c]]
        /\ checksum' = Sum(seen[c])
        /\ UNCHANGED <<first, old, seen, told>>
    BY <1>6 DEF StoreFirst, Swap, Dispatch, Goto
  <2>2. Typed'
    BY <1>1, <2>1 DEF Inv, Typed
  <2>3. first /\ \A l \in Listeners : heard[l] = NoEvent \/ Sum(heard[l]) # Sum(seen[c])
    BY <1>6 DEF StoreFirst, Swap, Inv, Serial, Agree
  <2>4. event'[c] = seen[c] /\ seen[c] \in Seq(Reading) /\ event'[c] # Failure
    BY <2>1, IngesterAssumption DEF Inv, Typed
  <2>5. Sum(event[c])' = Sum(seen[c])
    BY <2>4 DEF Sum, Hashed
  <2>6. \A l \in Listeners : Sum(heard[l])' = Sum(heard[l])
    BY <1>1 DEF Sum, Hashed
  <2>7. Split(c)'
    BY <1>1, <2>1, <2>3, <2>4, <2>5, <2>6 DEF Split, Behind, Listeners
  <2> QED
    BY <1>1, <2>1, <2>2, <2>4, <2>7 DEF Inv, Typed, Serial
<1> QED
  BY <1>2, <1>3, <1>4, <1>5, <1>6

\* The steps that hand the event to the listeners.
LEMMA DispatchInv ==
  ASSUME Inv, NEW c \in Calls, Alone(c), Tell(c) \/ Return(c)
  PROVE  Inv'
<1>1. UNCHANGED <<disk, first, checksum>> /\ Alone(c) /\ pc[c] = "dispatch"
  BY DEF Tell, Return, env, shared
<1>2. CASE Tell(c)
  <2> DEFINE l == told[c] + 1
  <2>1. l \in Listeners /\ told' = [told EXCEPT ![c] = l]
    BY <1>2, IngesterAssumption DEF Tell, Inv, Typed, Listeners
  <2>2. UNCHANGED <<pc, old, seen, event>>
    BY <1>2 DEF Tell
  <2>3. CASE event[c] = Failure
    <3>1. heard' = heard
      BY <1>2, <2>3 DEF Tell, Inv, Typed
    <3> QED
      BY <1>1, <2>1, <2>2, <2>3, <3>1 DEF Alone, Inv, Typed, Serial, Agree, Listeners
  <2>4. CASE event[c] # Failure
    <3>1. heard' = [heard EXCEPT ![l] = event[c]]
      BY <1>2, <2>4 DEF Tell
    <3>2. Split(c)
      BY <1>1, <2>4 DEF Inv, Serial
    <3>3. Typed'
      BY <1>1, <2>1, <2>2, <3>1, <3>2, IngesterAssumption DEF Inv, Typed, Split, Listeners
    <3>4. \A k \in Listeners : heard'[k] = IF k = l THEN event[c] ELSE heard[k]
      BY <3>1 DEF Inv, Typed
    <3>5. Split(c)'
      <4>1. told[c] \in Nat /\ told'[c] = l /\ event'[c] = event[c]
        BY <2>1, <2>2 DEF Inv, Typed
      <4>2. \A k \in Listeners : k <= l => heard'[k] = event[c]
        BY <3>2, <3>4, <4>1 DEF Split, Listeners
      <4>3. \A k \in Listeners : ~(k <= l) => heard'[k] = heard[k] /\ Behind(k)
        BY <3>2, <3>4, <4>1 DEF Split, Listeners
      <4>4. \A k \in Listeners : ~(k <= l) => Behind(k)'
        BY <1>1, <4>3 DEF Behind, Sum, Hashed
      <4>5. Sum(event[c])' = Sum(event[c])
        BY <4>1 DEF Sum, Hashed
      <4> QED
        BY <1>1, <3>2, <4>1, <4>2, <4>4, <4>5 DEF Split, Listeners
    <3> QED
      BY <1>1, <2>1, <2>2, <2>4, <3>3, <3>5 DEF Alone, Inv, Typed, Serial
  <2> QED
    BY <2>3, <2>4
<1>3. CASE Return(c)
  <2>1. UNCHANGED heard /\ told[c] = NumListeners /\ Finish(c)
    BY <1>3 DEF Return, sinks
  <2>2. Agree
    BY <1>1, <2>1, IngesterAssumption DEF Inv, Serial, Typed, Split, Agree, Listeners
  <2>3. Typed'
    BY <1>1, <2>1, IngesterAssumption DEF Finish, Goto, Inv, Typed
  <2>4. Agree'
    BY <1>1, <2>1, <2>2 DEF Agree
  <2> QED
    BY <1>1, <2>1, <2>3, <2>4, FinishInv
<1> QED
  BY <1>2, <1>3

\* Editing a file or canceling a context leaves Inv alone.
LEMMA EnvironmentInv ==
  ASSUME Inv, (\E p \in Paths : Edit(p)) \/ (\E c \in Calls : Cancel(c))
  PROVE  Inv'
<1>1. disk' \in [Paths -> Contents \union {NoContent}]
  BY DEF Edit, Cancel, Inv, Typed
<1>2. UNCHANGED <<shared, locals, sinks>>
  BY DEF Edit, Cancel
<1>3. Typed'
  BY <1>1, <1>2 DEF shared, locals, sinks, Inv, Typed
<1>4. Serial'
  BY <1>2 DEF shared, locals, sinks, Inv, Serial, Agree, Split, Behind
<1> QED
  BY <1>3, <1>4 DEF Inv

\* A call is alone while it makes a step, unless it has returned with it.
LEMMA StepAlone ==
  ASSUME Inv, SerialCalls, SerialCalls', NEW c \in Calls, Begin(c) \/ Step(c)
  PROVE  Alone(c)
<1>1. CASE Begin(c)
  BY <1>1 DEF Begin, Goto, Inv, Typed, SerialCalls, Alone
<1>2. CASE Step(c)
  BY <1>2 DEF Step, ExpandGlob, GlobFails, FileFails, ReadFile, TakeFirst, StoreFirst,
     NotFirst, FilesDone, Unchanged, Changed, Swap, SwapFails, Tell, Return, SerialCalls, Alone
<1> QED
  BY <1>1, <1>2

\* Inv holds in every state the ingester reaches while calls do not overlap.
THEOREM Invariance == Spec /\ []SerialCalls => []Inv
<1>1. Init => Inv
  BY InitInv
<1>2. Inv /\ SerialCalls /\ SerialCalls' /\ [Next]_ingesterVars => Inv'
  <2>1. ASSUME Inv, SerialCalls, SerialCalls', Next
        PROVE  Inv'
    <3>1. CASE (\E p \in Paths : Edit(p)) \/ (\E c \in Calls : Cancel(c))
      BY <2>1, <3>1, EnvironmentInv
    <3>2. ASSUME NEW c \in Calls, Begin(c) \/ Step(c)
          PROVE  Inv'
      <4>1. Alone(c)
        BY <2>1, <3>2, StepAlone
      <4> QED
        BY <2>1, <3>2, <4>1, ReadingInv, DecideInv, DispatchInv DEF Step
    <3> QED
      BY <2>1, <3>1, <3>2 DEF Next
  <2>2. ASSUME Inv, UNCHANGED ingesterVars
        PROVE  Inv'
    BY <2>2 DEF ingesterVars, env, shared, locals, sinks, Inv, Typed, Serial, Agree,
       Split, Behind
  <2> QED
    BY <2>1, <2>2
<1> QED
  BY <1>1, <1>2, PTL DEF Spec

\* Between two calls that do not overlap, the checksum stands for what every
\* listener has.
THEOREM Agreement == Spec /\ []SerialCalls => []ListenerAgrees
<1>1. Inv => ListenerAgrees
  BY DEF Inv, Serial, Agree, ListenerAgrees
<1> QED
  BY <1>1, Invariance, PTL

\* A listener that has groups is only given groups of another checksum, by
\* calls that do not overlap.
THEOREM OnlyChanges == Spec /\ []SerialCalls => OnlyChangesDispatched
<1> DEFINE Fresh ==
      \A c \in Calls : \A l \in Listeners :
        told[c] = l - 1 /\ told'[c] = l /\ event[c] # Failure /\ heard[l] # NoEvent
          => Sum(event[c]) # Sum(heard[l])
<1>1. Inv /\ [Next]_ingesterVars => [Fresh]_ingesterVars
  <2> SUFFICES ASSUME Inv, Next, NEW c \in Calls, NEW l \in Listeners,
                      told[c] = l - 1, told'[c] = l, event[c] # Failure,
                      heard[l] # NoEvent
               PROVE  Sum(event[c]) # Sum(heard[l])
    OBVIOUS
  <2>1. told'[c] # told[c] /\ told'[c] # 0
    BY IngesterAssumption DEF Listeners
  <2>2. Tell(c)
    BY <2>1 DEF Next, Step, Edit, Cancel, Begin, ExpandGlob, GlobFails, FileFails,
       ReadFile, TakeFirst, StoreFirst, NotFirst, Unchanged, Changed, Swap, SwapFails,
       Tell, Return, Finish, locals, Inv, Typed
  <2>3. Split(c) /\ ~(l <= told[c])
    BY <2>2, IngesterAssumption DEF Tell, Inv, Serial, Typed, Listeners
  <2> QED
    BY <2>3 DEF Split, Behind
<1> QED
  BY <1>1, Invariance, PTL DEF Spec, OnlyChangesDispatched

(***************************************************************************)
(* Calls that overlap.                                                     *)
(***************************************************************************)

\* What holds of every call, whatever the others do.
EachCall == Typed /\ \A c \in Calls : pc[c] # "dispatch" => told[c] = 0

LEMMA EachCallStep ==
  ASSUME EachCall, Next
  PROVE  EachCall'
<1> USE IngesterAssumption DEF EachCall, Typed
<1>1. ASSUME NEW p \in Paths, Edit(p)
      PROVE  EachCall'
  BY <1>1 DEF Edit, shared, locals, sinks
<1>2. ASSUME NEW c \in Calls, Cancel(c)
      PROVE  EachCall'
  BY <1>2 DEF Cancel, shared, locals, sinks
<1>3. ASSUME NEW c \in Calls, Begin(c)
      PROVE  EachCall'
  BY <1>3 DEF Begin, Goto, shared, sinks
<1>4. ASSUME NEW c \in Calls, Step(c)
      PROVE  EachCall'
  <2>1. CASE ExpandGlob(c)
    BY <2>1 DEF ExpandGlob, env, shared, sinks
  <2>2. CASE GlobFails(c) \/ FileFails(c)
    BY <2>2 DEF GlobFails, FileFails, Dispatch, Goto, env, shared, sinks
  <2>3. CASE ReadFile(c)
    <3>1. PICK x \in Reading : seen' = [seen EXCEPT ![c] = Append(@, x)]
      BY <2>3, ReadingTyped DEF ReadFile
    <3> QED
      BY <2>3, <3>1 DEF ReadFile, env, shared, sinks
  <2>4. CASE TakeFirst(c) \/ NotFirst(c) \/ Changed(c)
    BY <2>4 DEF TakeFirst, NotFirst, Changed, FilesDone, Goto, env, shared, sinks
  <2>5. CASE StoreFirst(c) \/ Swap(c)
    <3>1. /\ pc' = [pc EXCEPT ![c] = "dispatch"] /\ event' = [event EXCEPT ![c] = seen[c]]
          /\ UNCHANGED <<disk, first, old, seen, told, heard>>
      BY <2>5 DEF StoreFirst, Swap, Dispatch, Goto, env, sinks
    <3>2. seen[c] \in Seq(Reading)
      OBVIOUS
    <3>3. pc' \in [Calls -> {"idle", "files", "store", "compare", "swap", "dispatch"}]
      BY <3>1
    <3>4. event' \in [Calls -> Seq(Reading) \union {NoEvent, Failure}]
      BY <3>1, <3>2
    <3>5. \A d \in Calls : pc'[d] # "dispatch" => told'[d] = 0
      BY <3>1
    <3> QED
      BY <3>1, <3>3, <3>4, <3>5
  <2>6. CASE Unchanged(c) \/ SwapFails(c) \/ Return(c)
    <3>1. Finish(c) /\ UNCHANGED <<disk, first, heard>>
      BY <2>6 DEF Unchanged, SwapFails, Return, env, shared, sinks
    <3>2. DOMAIN old' = Calls /\ <<>> \in Seq(Reading)
      BY <3>1 DEF Finish
    <3>3. pc' \in [Calls -> {"idle", "files", "store", "compare", "swap", "dispatch"}]
      BY <3>1 DEF Finish, Goto
    <3>4. seen' \in [Calls -> Seq(Reading)]
      BY <3>1, <3>2 DEF Finish
    <3>5. event' \in [Calls -> Seq(Reading) \union {NoEvent, Failure}]
      BY <3>1 DEF Finish
    <3>6. told' = [told EXCEPT ![c] = 0] /\ told' \in [Calls -> 0 .. NumListeners]
      BY <3>1 DEF Finish
    <3>7. \A d \in Calls : pc'[d] # "dispatch" => told'[d] = 0
      BY <3>1, <3>6 DEF Finish, Goto
    <3> QED
      BY <3>1, <3>2, <3>3, <3>4, <3>5, <3>6, <3>7
  <2>7. CASE Tell(c)
    BY <2>7 DEF Tell, env, shared, Listeners
  <2> QED
    BY <1>4, <2>1, <2>2, <2>3, <2>4, <2>5, <2>6, <2>7 DEF Step
<1> QED
  BY <1>1, <1>2, <1>3, <1>4 DEF Next

\* Call c has yet to give listener l the groups of the recorded checksum.
Owes(c, l) ==
  pc[c] = "dispatch" /\ event[c] # Failure /\ Sum(event[c]) = checksum /\ told[c] < l

\* What the calls under way preserve of RecordedIsDelivered: a listener that was
\* not given the groups of the checksum since it was recorded is still owed them.
Delivery ==
  /\ EachCall
  /\ informed \subseteq Listeners
  /\ first /\ (\A c \in Calls : pc[c] # "store") =>
       \A l \in Listeners : l \in informed \/ \E c \in Calls : Owes(c, l)

\* What happens to the groups of the checksum in a step that does not replace it.
LEMMA StillOwed ==
  ASSUME Delivery, Next, Remember, UNCHANGED <<first, checksum>>,
         NEW l \in Listeners, l \in informed \/ \E c \in Calls : Owes(c, l)
  PROVE  (l \in informed \/ \E c \in Calls : Owes(c, l))'
<1>1. informed' = informed \union GivenRecorded
  BY DEF Remember
<1>2. CASE l \in informed
  BY <1>1, <1>2
<1>3. ASSUME NEW c \in Calls, Owes(c, l)
      PROVE  (l \in informed \/ \E d \in Calls : Owes(d, l))'
  <2>1. /\ pc[c] = "dispatch" /\ event[c] # Failure /\ Sum(event[c]) = checksum
        /\ told[c] < l /\ told[c] \in 0 .. NumListeners
    BY <1>3 DEF Owes, Delivery, EachCall, Typed
  <2>2. CASE Tell(c) /\ l = told[c] + 1
    <3>1. told[c] = l - 1 /\ told'[c] = l
      BY <2>1, <2>2 DEF Tell, Delivery, EachCall, Typed, Listeners
    <3> QED
      BY <1>1, <2>1, <3>1 DEF GivenRecorded
  <2>3. CASE Tell(c) /\ l # told[c] + 1
    <3>1. told'[c] = told[c] + 1 /\ UNCHANGED <<pc, event>>
      BY <2>3 DEF Tell, Delivery, EachCall, Typed
    <3>2. told'[c] < l
      BY <2>1, <2>3, <3>1, IngesterAssumption DEF Listeners
    <3> QED
      BY <2>1, <3>1, <3>2 DEF Owes, Sum, Hashed
  <2>4. ~Return(c)
    BY <2>1, IngesterAssumption DEF Return, Listeners
  <2>5. CASE ~Tell(c)
    <3>1. ASSUME NEW d \in Calls, Begin(d) \/ Step(d)
          PROVE  d # c
      BY <2>1, <2>4, <2>5, <3>1 DEF Begin, Step, ExpandGlob, GlobFails, FileFails, ReadFile,
         TakeFirst, StoreFirst, NotFirst, FilesDone, Unchanged, Changed, Swap, SwapFails
    <3>2. ASSUME NEW d \in Calls, d # c, Begin(d) \/ Step(d)
          PROVE  pc'[c] = pc[c] /\ event'[c] = event[c] /\ told'[c] = told[c]
      <4>1. CASE Unchanged(d) \/ SwapFails(d) \/ Return(d)
        BY <3>2, <4>1 DEF Unchanged, SwapFails, Return, Finish, Goto, Delivery, EachCall, Typed
      <4>2. CASE GlobFails(d) \/ FileFails(d) \/ StoreFirst(d) \/ Swap(d)
        BY <3>2, <4>2 DEF GlobFails, FileFails, StoreFirst, Swap, Dispatch, Goto,
           Delivery, EachCall, Typed
      <4>3. CASE Begin(d) \/ TakeFirst(d) \/ NotFirst(d) \/ Changed(d)
        BY <3>2, <4>3 DEF Begin, TakeFirst, NotFirst, Changed, Goto, Delivery, EachCall, Typed
      <4>4. CASE ExpandGlob(d) \/ ReadFile(d) \/ Tell(d)
        BY <3>2, <4>4 DEF ExpandGlob, ReadFile, Tell, Delivery, EachCall, Typed
      <4> QED
        BY <3>2, <4>1, <4>2, <4>3, <4>4 DEF Step
    <3>3. ASSUME NEW d \in Calls, Cancel(d)
          PROVE  pc'[c] = pc[c] /\ event'[c] = event[c] /\ told'[c] = told[c]
      BY <3>3 DEF Cancel, locals
    <3>4. ASSUME NEW p \in Paths, Edit(p)
          PROVE  pc'[c] = pc[c] /\ event'[c] = event[c] /\ told'[c] = told[c]
      BY <3>4 DEF Edit, locals
    <3>5. pc'[c] = pc[c] /\ event'[c] = event[c] /\ told'[c] = told[c]
      BY <3>1, <3>2, <3>3, <3>4 DEF Next
    <3> QED
      BY <2>1, <3>5 DEF Owes, Sum, Hashed
  <2> QED
    BY <2>2, <2>3, <2>5
<1> QED
  BY <1>2, <1>3

LEMMA DeliveryStep ==
  ASSUME Delivery, HistoryNext
  PROVE  Delivery'
<1>0. Next /\ Remember
  BY DEF HistoryNext, Next, Step
<1>1. EachCall' /\ informed' \subseteq Listeners
  BY <1>0, EachCallStep DEF Remember, GivenRecorded, Delivery, Listeners
<1>2. ASSUME first', \A c \in Calls : pc'[c] # "store", NEW l \in Listeners
      PROVE  (l \in informed \/ \E c \in Calls : Owes(c, l))'
  <2>1. CASE \E c \in Calls : StoreFirst(c) \/ Swap(c)
    <3>1. PICK c \in Calls : StoreFirst(c) \/ Swap(c)
      BY <2>1
    <3>2. /\ pc[c] \in {"store", "swap"} /\ pc' = [pc EXCEPT ![c] = "dispatch"]
          /\ event' = [event EXCEPT ![c] = seen[c]]
          /\ checksum' = Sum(seen[c]) /\ told' = told
      BY <3>1 DEF StoreFirst, Swap, Dispatch, Goto
    <3>3. pc'[c] = "dispatch" /\ told'[c] = 0 /\ event'[c] = seen[c]
      BY <3>2 DEF Delivery, EachCall, Typed
    <3>4. seen[c] # Failure
      BY IngesterAssumption DEF Delivery, EachCall, Typed
    <3>5. Sum(event'[c]) = checksum' /\ 0 < l
      BY <3>2, <3>3 DEF Listeners
    <3>6. Sum(event[c])' = checksum'
      BY <3>5 DEF Sum, Hashed
    <3> QED
      BY <3>3, <3>4, <3>5, <3>6 DEF Owes
  <2>2. CASE ~\E c \in Calls : StoreFirst(c) \/ Swap(c)
    <3>1. ~\E c \in Calls : TakeFirst(c)
      BY <1>2 DEF TakeFirst, Goto, Delivery, EachCall, Typed
    <3>2. UNCHANGED <<first, checksum>>
      BY <1>0, <2>2, <3>1 DEF Next, Step, Edit, Cancel, Begin, ExpandGlob, GlobFails,
         FileFails, ReadFile, NotFirst, Unchanged, Changed, SwapFails, Tell, Return, shared
    <3>3. \A c \in Calls : pc[c] # "store"
      BY <1>0, <1>2, <2>2 DEF Next, Step, Edit, Cancel, Begin, ExpandGlob, GlobFails,
         FileFails, ReadFile, TakeFirst, NotFirst, FilesDone, Unchanged, Changed, SwapFails,
         Tell, Return, Dispatch, Finish, Goto, locals, Delivery, EachCall, Typed
    <3>4. l \in informed \/ \E c \in Calls : Owes(c, l)
      BY <1>2, <3>2, <3>3 DEF Delivery
    <3> QED
      BY <1>0, <3>2, <3>4, StillOwed
  <2> QED
    BY <2>1, <2>2
<1> QED
  BY <1>1, <1>2 DEF Delivery, Listeners

\* However many calls overlap, and whoever makes them: when none is under way,
\* every listener was given groups of the recorded checksum since it was recorded.
THEOREM Delivered == HistorySpec => []RecordedIsDelivered
<1>1. HistoryInit => Delivery
  BY InitInv DEF HistoryInit, Init, Inv, Delivery, EachCall
<1>2. Delivery /\ [HistoryNext]_historyVars => Delivery'
  <2>1. ASSUME Delivery, UNCHANGED historyVars
        PROVE  Delivery'
    BY <2>1 DEF historyVars, ingesterVars, env, shared, locals, sinks, Delivery, EachCall,
       Typed, Owes, Sum, Hashed, Listeners
  <2> QED
    BY <2>1, DeliveryStep
<1>3. Delivery => RecordedIsDelivered
  BY DEF Delivery, RecordedIsDelivered, Owes
<1> QED
  BY <1>1, <1>2, <1>3, PTL DEF HistorySpec

(***************************************************************************)
(* Types.                                                                  *)
(***************************************************************************)

Pattern == {BadPattern} \union Seq(Paths)

\* TypeOK, and the patterns that are not expanded yet.
Types ==
  /\ TypeOK
  /\ globsLeft \in [Calls -> Seq(Pattern)]

\* The files there are of those that a pattern matches.
LEMMA ExistingTyped ==
  ASSUME NEW paths \in Seq(Paths)
  PROVE  Existing(paths) \in Seq(Paths)
BY KeepProperties DEF Existing

LEMMA InitTypes == Init => Types
<1> SUFFICES ASSUME Init PROVE Types
  OBVIOUS
<1>1. <<>> \in Seq(Reading) /\ <<>> \in Seq(Paths) /\ <<>> \in Seq(Pattern)
  OBVIOUS
<1>2. globsLeft \in [Calls -> Seq(Pattern)] /\ files \in [Calls -> Seq(Paths)]
  BY <1>1 DEF Init
<1>3. seen \in [Calls -> Seq(Reading)]
  BY <1>1 DEF Init
<1>4. /\ event \in [Calls -> Seq(Reading) \union {NoEvent, Failure}]
      /\ heard \in [Listeners -> Seq(Reading) \union {NoEvent}]
      /\ lastEvent \in [Listeners -> Seq(Reading) \union {NoEvent, Failure}]
  BY DEF Init
<1>5. told \in [Calls -> 0 .. NumListeners] /\ edits \in 0 .. MaxEdits
  BY IngesterAssumption DEF Init
<1>6. /\ globs \in Configurations /\ disk \in [Paths -> Contents \union {NoContent}]
      /\ expired \subseteq Cancelable /\ first \in BOOLEAN
      /\ pc \in [Calls -> {"idle", "files", "store", "compare", "swap", "dispatch"}]
  BY DEF Init
<1> QED
  BY <1>2, <1>3, <1>4, <1>5, <1>6 DEF Types, TypeOK

\* A step of the environment, or of a call while it reads files.
LEMMA ReadingTypes ==
  ASSUME Types, \/ \E p \in Paths : Edit(p)
                \/ \E c \in Calls : \/ Cancel(c) \/ Begin(c) \/ ExpandGlob(c) \/ GlobFails(c)
                                    \/ FileFails(c) \/ ReadFile(c)
  PROVE  Types'
<1> USE DEF Types, TypeOK
<1>1. ASSUME NEW p \in Paths, Edit(p)
      PROVE  Types'
  <2>1. edits' \in 0 .. MaxEdits
    BY <1>1, IngesterAssumption DEF Edit
  <2>2. disk' \in [Paths -> Contents \union {NoContent}]
    BY <1>1 DEF Edit
  <2> QED
    BY <1>1, <2>1, <2>2 DEF Edit, shared, locals, sinks
<1>2. ASSUME NEW c \in Calls, Cancel(c)
      PROVE  Types'
  BY <1>2 DEF Cancel, shared, locals, sinks
<1>3. ASSUME NEW c \in Calls, Begin(c)
      PROVE  Types'
  <2>1. globsLeft' \in [Calls -> Seq(Pattern)]
    <3>1. globs \in Seq(Pattern)
      BY IngesterAssumption DEF Pattern
    <3> QED
      BY <1>3, <3>1 DEF Begin
  <2>2. expired' \subseteq Cancelable
    BY <1>3 DEF Begin
  <2>3. pc' \in [Calls -> {"idle", "files", "store", "compare", "swap", "dispatch"}]
    BY <1>3 DEF Begin, Goto
  <2> QED
    BY <1>3, <2>1, <2>2, <2>3 DEF Begin, shared, sinks
<1>4. ASSUME NEW c \in Calls, ExpandGlob(c)
      PROVE  Types'
  <2>1. globsLeft[c] \in Seq(Pattern) /\ globsLeft[c] # <<>>
    BY <1>4 DEF ExpandGlob
  <2>2. Head(globsLeft[c]) \in Pattern /\ Tail(globsLeft[c]) \in Seq(Pattern)
    BY <2>1
  <2>3. Head(globsLeft[c]) \in Seq(Paths)
    BY <1>4, <2>2 DEF ExpandGlob, Pattern
  <2>4. Existing(Head(globsLeft[c])) \in Seq(Paths)
    BY <2>3, ExistingTyped
  <2>5. files' \in [Calls -> Seq(Paths)]
    BY <1>4, <2>4 DEF ExpandGlob
  <2>6. globsLeft' \in [Calls -> Seq(Pattern)]
    BY <1>4, <2>2 DEF ExpandGlob
  <2> QED
    BY <1>4, <2>5, <2>6 DEF ExpandGlob, env, shared, sinks
<1>5. ASSUME NEW c \in Calls, GlobFails(c) \/ FileFails(c)
      PROVE  Types'
  BY <1>5 DEF GlobFails, FileFails, Dispatch, Goto, env, shared, sinks
<1>6. ASSUME NEW c \in Calls, ReadFile(c)
      PROVE  Types'
  <2>1. PICK x \in Reading : seen' = [seen EXCEPT ![c] = Append(@, x)]
    BY <1>6, ReadingTyped DEF ReadFile
  <2>2. seen' \in [Calls -> Seq(Reading)]
    BY <2>1
  <2>3. files' \in [Calls -> Seq(Paths)]
    <3>1. files[c] \in Seq(Paths) /\ files[c] # <<>>
      BY <1>6 DEF ReadFile
    <3>2. Tail(files[c]) \in Seq(Paths)
      BY <3>1
    <3> QED
      BY <1>6, <3>2 DEF ReadFile
  <2> QED
    BY <1>6, <2>2, <2>3 DEF ReadFile, env, shared, sinks
<1> QED
  BY <1>1, <1>2, <1>3, <1>4, <1>5, <1>6

\* A step of a call that has read its files.
LEMMA DecidedTypes ==
  ASSUME Types, NEW c \in Calls,
         \/ TakeFirst(c) \/ StoreFirst(c) \/ NotFirst(c) \/ Unchanged(c) \/ Changed(c)
         \/ Swap(c) \/ SwapFails(c) \/ Tell(c) \/ Return(c)
  PROVE  Types'
<1> USE DEF Types, TypeOK
<1>1. CASE TakeFirst(c) \/ NotFirst(c) \/ Changed(c)
  BY <1>1 DEF TakeFirst, NotFirst, Changed, FilesDone, Goto, env, shared, sinks
<1>2. CASE StoreFirst(c) \/ Swap(c)
  BY <1>2 DEF StoreFirst, Swap, Dispatch, Goto, env, sinks
<1>3. CASE Unchanged(c) \/ SwapFails(c) \/ Return(c)
  <2>1. Finish(c) /\ UNCHANGED <<env, first, sinks>>
    BY <1>3 DEF Unchanged, SwapFails, Return, shared
  <2>2. <<>> \in Seq(Reading) /\ <<>> \in Seq(Paths) /\ <<>> \in Seq(Pattern)
    OBVIOUS
  <2>3. pc' \in [Calls -> {"idle", "files", "store", "compare", "swap", "dispatch"}]
    BY <2>1 DEF Finish, Goto
  <2>4. globsLeft' \in [Calls -> Seq(Pattern)] /\ files' \in [Calls -> Seq(Paths)]
    BY <2>1, <2>2 DEF Finish
  <2>5. seen' \in [Calls -> Seq(Reading)]
    BY <2>1, <2>2 DEF Finish
  <2>6. event' \in [Calls -> Seq(Reading) \union {NoEvent, Failure}]
    BY <2>1 DEF Finish
  <2>7. told' \in [Calls -> 0 .. NumListeners]
    BY <2>1, IngesterAssumption DEF Finish
  <2> QED
    BY <2>1, <2>3, <2>4, <2>5, <2>6, <2>7 DEF env, sinks
<1>4. CASE Tell(c)
  <2> DEFINE l == told[c] + 1
  <2>1. l \in Listeners /\ l \in 0 .. NumListeners
    BY <1>4, IngesterAssumption DEF Tell, Listeners
  <2>2. told' \in [Calls -> 0 .. NumListeners]
    BY <1>4, <2>1 DEF Tell
  <2>3. event[c] \in Seq(Reading) \union {NoEvent, Failure}
    OBVIOUS
  <2>4. /\ lastEvent' = [lastEvent EXCEPT ![l] = event[c]]
        /\ heard' = [heard EXCEPT ![l] = IF event[c] = Failure THEN @ ELSE event[c]]
    BY <1>4 DEF Tell
  <2> HIDE DEF l
  <2>5. lastEvent' \in [Listeners -> Seq(Reading) \union {NoEvent, Failure}]
    BY <2>3, <2>4
  <2>6. heard' \in [Listeners -> Seq(Reading) \union {NoEvent}]
    BY <2>3, <2>4
  <2> QED
    BY <1>4, <2>2, <2>5, <2>6 DEF Tell, env, shared
<1> QED
  BY <1>1, <1>2, <1>3, <1>4

\* The variables have their types, however many calls overlap: what a call
\* goes on to read are paths, and what it dispatches is a failure or a
\* sequence of readings.
THEOREM TypeCorrect == Spec => []TypeOK
<1>1. Types /\ [Next]_ingesterVars => Types'
  <2>1. ASSUME Types, Next
        PROVE  Types'
    BY <2>1, ReadingTypes, DecidedTypes DEF Next, Step
  <2>2. ASSUME Types, UNCHANGED ingesterVars
        PROVE  Types'
    BY <2>2 DEF ingesterVars, env, shared, locals, sinks, Types, TypeOK
  <2> QED
    BY <2>1, <2>2
<1>2. Types => TypeOK
  BY DEF Types
<1> QED
  BY <1>1, <1>2, InitTypes, PTL DEF Spec

=============================================================================
