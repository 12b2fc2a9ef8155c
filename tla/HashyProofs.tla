---------------------------- MODULE HashyProofs ----------------------------
(***************************************************************************)
(* Theorems about the application, for any files, checksum, listeners,     *)
(* contexts and number of edits: it keeps calls of Ingest apart, although  *)
(* neither IngestChecker nor FileIngester does, and so has what            *)
(* FileIngesterProofs shows of an ingester whose calls do not overlap.  It *)
(* implements both, and so has their types and leaves no goroutine behind. *)
(*                                                                         *)
(* Inv follows the goroutines through the phases of the app: the boot      *)
(* ingest is over when the start hook runs, the start hook runs once and   *)
(* spawns one goroutine, and a call with the context of that goroutine     *)
(* lasts no longer than its tick.                                          *)
(***************************************************************************)
EXTENDS Hashy, TLAPS

CheckerProofs == INSTANCE IngestCheckerProofs WITH Callers <- {Main}

\* The history of IngestHistory, which only calls that overlap need, is left out.
IngesterProofs == INSTANCE FileIngesterProofs WITH
  Calls <- Contexts \union {Boot}, Cancelable <- Contexts, informed <- {}

AllCalls == Contexts \union {Boot}
Labels == {"idle", "files", "store", "compare", "swap", "dispatch"}

\* The types the proof needs.
Typed ==
  /\ app \in {"invoking", "booting", "starting", "running", "stopping", "stopped"}
  /\ pc \in [AllCalls -> Labels]
  /\ run \in [Contexts -> {"none", "spawned", "select", "ingesting"}]
  /\ caller \in [{Main} -> {"idle", "start", "spawn", "stop", "clear", "unlock"}]

\* No goroutine has been spawned, nor will be before the start hook does.
BeforeSpawn ==
  \/ app \in {"invoking", "booting"}
  \/ app = "starting" /\ caller[Main] \in {"idle", "start", "spawn"}

Phases ==
  /\ app \in {"invoking", "booting"} => caller[Main] = "idle"
  /\ caller[Main] \in {"start", "spawn"} => app = "starting"
  /\ BeforeSpawn => \A x \in Contexts : run[x] = "none"

OneGoroutine ==
  \A x, y \in Contexts : run[x] # "none" /\ run[y] # "none" => x = y

CallsHaveCallers ==
  /\ pc[Boot] # "idle" => app = "booting"
  /\ \A x \in Contexts : pc[x] # "idle" => run[x] = "ingesting"

Inv == Typed /\ Phases /\ OneGoroutine /\ CallsHaveCallers

LEMMA InitInv == Init => Inv
BY HashyAssumption DEF Init, Checker!Init, Checker!Idle, Ingester!Init, Inv, Typed, Phases,
   BeforeSpawn, OneGoroutine, CallsHaveCallers, AllCalls, Labels

\* A step of a call moves that call only, which has begun.
LEMMA StepMoves ==
  ASSUME Typed, NEW c \in AllCalls, Ingester!Step(c)
  PROVE  pc[c] # "idle" /\ \E label \in Labels : pc' = [pc EXCEPT ![c] = label]
<1>1. CASE \/ Ingester!ExpandGlob(c) \/ Ingester!ReadFile(c) \/ Ingester!Tell(c)
  <2>1. pc[c] # "idle" /\ pc' = pc
    BY <1>1 DEF Ingester!ExpandGlob, Ingester!ReadFile, Ingester!Tell
  <2> QED
    BY <2>1 DEF Typed
<1>2. CASE \/ Ingester!GlobFails(c) \/ Ingester!FileFails(c) \/ Ingester!TakeFirst(c)
           \/ Ingester!StoreFirst(c) \/ Ingester!NotFirst(c) \/ Ingester!Changed(c)
           \/ Ingester!Swap(c)
  BY <1>2 DEF Ingester!GlobFails, Ingester!FileFails, Ingester!TakeFirst,
     Ingester!StoreFirst, Ingester!NotFirst, Ingester!Changed, Ingester!Swap,
     Ingester!FilesDone, Ingester!Dispatch, Ingester!Goto, Labels
<1>3. CASE \/ Ingester!Unchanged(c) \/ Ingester!SwapFails(c) \/ Ingester!Return(c)
  BY <1>3 DEF Ingester!Unchanged, Ingester!SwapFails, Ingester!Return,
     Ingester!Finish, Ingester!Goto, Labels
<1> QED
  BY <1>1, <1>2, <1>3 DEF Ingester!Step

\* The fx.App moves from phase to phase.
LEMMA LifecycleInv ==
  ASSUME Inv, Lifecycle \/ Shutdown
  PROVE  Inv'
<1> USE DEF Inv, Typed, Phases, BeforeSpawn, OneGoroutine, CallsHaveCallers, Checker!Idle,
            Checker!Goto
<1>1. CASE InvokeIngest
  BY <1>1, HashyAssumption
  DEF InvokeIngest, Ingester!Begin, Ingester!Goto, checkerVars, AllCalls, Labels
<1>2. CASE StartApp
  BY <1>2 DEF StartApp, checkerVars, ingesterVars
<1>3. CASE StartHook
  <2>1. CASE Checker!Lock(Main, "start")
    BY <1>3, <2>1 DEF StartHook, CheckerOnly, ingesterVars, Checker!Lock
  <2>2. CASE Checker!StartFindsNil(Main) \/ Checker!StartFindsRunning(Main)
    BY <1>3, <2>2
    DEF StartHook, CheckerOnly, ingesterVars, Checker!StartFindsNil, Checker!StartFindsRunning
  <2>3. CASE Checker!StartSpawns(Main)
    <3>1. PICK x \in Contexts : run' = [run EXCEPT ![x] = "spawned"]
      BY <2>3 DEF Checker!StartSpawns
    <3>2. caller' = [caller EXCEPT ![Main] = "unlock"] /\ \A y \in Contexts : run[y] = "none"
      BY <1>3, <2>3 DEF StartHook, Checker!StartSpawns
    <3> QED
      BY <1>3, <3>1, <3>2 DEF StartHook, CheckerOnly, ingesterVars
  <2> QED
    BY <1>3, <2>1, <2>2, <2>3 DEF StartHook, CheckerOnly, Checker!Start
<1>4. CASE StartHookReturns
  BY <1>4 DEF StartHookReturns, Checker!Unlock, ingesterVars
<1>5. CASE Shutdown
  BY <1>5 DEF Shutdown, checkerVars, ingesterVars
<1>6. CASE StopHook
  <2>1. /\ app = "stopping" /\ app' = app /\ UNCHANGED <<run, pc>>
        /\ \E label \in {"stop", "clear", "unlock"} :
             caller' = [caller EXCEPT ![Main] = label]
    BY <1>6 DEF StopHook, CheckerOnly, ingesterVars, Checker!Lock, Checker!StopClears,
       Checker!StopFindsNil, Checker!StopCancels, Ingester!Cancel, Ingester!locals
  <2> QED
    BY <2>1
<1>7. CASE StopHookReturns
  BY <1>7 DEF StopHookReturns, Checker!Unlock, ingesterVars
<1> QED
  BY <1>1, <1>2, <1>3, <1>4, <1>5, <1>6, <1>7 DEF Lifecycle

\* The goroutine of the checker turns, and calls Ingest.
LEMMA GoroutineInv ==
  ASSUME Inv, NEW x \in Contexts, RunCheckerStep(x) \/ CallIngest(x) \/ IngestReturns(x)
  PROVE  Inv'
<1> USE DEF Inv, Typed, Phases, BeforeSpawn, OneGoroutine, CallsHaveCallers
<1>1. CASE RunCheckerStep(x)
  BY <1>1 DEF RunCheckerStep, CheckerOnly, Checker!NewTicker, Checker!Fire,
     Checker!TakeDone, ingesterVars
<1>2. CASE CallIngest(x)
  BY <1>2, HashyAssumption
  DEF CallIngest, Checker!TakeTick, Ingester!Begin, Ingester!Goto, AllCalls, Labels
<1>3. CASE IngestReturns(x)
  BY <1>3 DEF IngestReturns, CheckerOnly, Checker!IngestReturns, ingesterVars
<1> QED
  BY <1>1, <1>2, <1>3

\* Calls go on, and files are edited.
LEMMA IngestInv ==
  ASSUME Inv, \/ \E c \in AllCalls : IngestStep(c)
              \/ \E p \in Paths : EditFile(p)
  PROVE  Inv'
<1>1. ASSUME NEW c \in AllCalls, IngestStep(c)
      PROVE  Inv'
  <2>1. pc[c] # "idle" /\ \E label \in Labels : pc' = [pc EXCEPT ![c] = label]
    BY <1>1, StepMoves DEF IngestStep, Inv
  <2>2. UNCHANGED <<app, run, caller>>
    BY <1>1 DEF IngestStep, checkerVars
  <2> QED
    BY <2>1, <2>2
    DEF Inv, Typed, Phases, BeforeSpawn, OneGoroutine, CallsHaveCallers, AllCalls
<1>2. ASSUME NEW p \in Paths, EditFile(p)
      PROVE  Inv'
  BY <1>2 DEF EditFile, Ingester!Edit, Ingester!locals, checkerVars,
     Inv, Typed, Phases, BeforeSpawn, OneGoroutine, CallsHaveCallers
<1> QED
  BY <1>1, <1>2

THEOREM Invariance == Spec => []Inv
<1>1. Inv /\ [Next]_hashyVars => Inv'
  <2>1. ASSUME Inv, Next
        PROVE  Inv'
    BY <2>1, LifecycleInv, GoroutineInv, IngestInv DEF Next, AllCalls
  <2>2. ASSUME Inv, UNCHANGED hashyVars
        PROVE  Inv'
    BY <2>2 DEF hashyVars, checkerVars, ingesterVars,
       Inv, Typed, Phases, BeforeSpawn, OneGoroutine, CallsHaveCallers
  <2> QED
    BY <2>1, <2>2
<1> QED
  BY InitInv, <1>1, PTL DEF Spec

\* The application never has two calls of Ingest under way.
THEOREM CallsAreSerial == Spec => []SerialIngest
<1>1. Inv => SerialIngest
  BY DEF Inv, CallsHaveCallers, OneGoroutine, Phases, BeforeSpawn, SerialIngest, Typed, AllCalls
<1> QED
  BY <1>1, Invariance, PTL

\* The two instances of FileIngester are one: their definitions are the same.
LEMMA SameIngester ==
  /\ Ingester!Init <=> IngesterProofs!Init
  /\ Ingester!Next <=> IngesterProofs!Next
<1>1. Ingester!Init <=> IngesterProofs!Init
  BY DEF Ingester!Init, IngesterProofs!Init, Ingester!Listeners, IngesterProofs!Listeners
<1>2. Ingester!Next <=> IngesterProofs!Next
  BY DEF Ingester!FlattenSeq, IngesterProofs!FlattenSeq, Ingester!Keep,
         IngesterProofs!Keep, Ingester!Existing, IngesterProofs!Existing, Ingester!env, IngesterProofs!env, Ingester!shared, IngesterProofs!shared,
         Ingester!locals, IngesterProofs!locals, Ingester!sinks,
         IngesterProofs!sinks, Ingester!Listeners, IngesterProofs!Listeners,
         Ingester!Hashed, IngesterProofs!Hashed, Ingester!Sum, IngesterProofs!Sum,
         Ingester!Goto, IngesterProofs!Goto, Ingester!Begin, IngesterProofs!Begin,
         Ingester!Finish, IngesterProofs!Finish, Ingester!Dispatch,
         IngesterProofs!Dispatch, Ingester!ExpandGlob, IngesterProofs!ExpandGlob,
         Ingester!GlobFails, IngesterProofs!GlobFails, Ingester!Readable,
         IngesterProofs!Readable, Ingester!IncludedBy, IngesterProofs!IncludedBy,
         Ingester!Parses, IngesterProofs!Parses, Ingester!FileFails,
         IngesterProofs!FileFails, Ingester!ReadFile, IngesterProofs!ReadFile,
         Ingester!FilesDone, IngesterProofs!FilesDone, Ingester!TakeFirst,
         IngesterProofs!TakeFirst, Ingester!StoreFirst, IngesterProofs!StoreFirst,
         Ingester!NotFirst, IngesterProofs!NotFirst, Ingester!Unchanged,
         IngesterProofs!Unchanged, Ingester!Changed, IngesterProofs!Changed,
         Ingester!Swap, IngesterProofs!Swap, Ingester!SwapFails,
         IngesterProofs!SwapFails, Ingester!Tell, IngesterProofs!Tell,
         Ingester!Return, IngesterProofs!Return, Ingester!Step,
         IngesterProofs!Step, Ingester!Edit, IngesterProofs!Edit, Ingester!Cancel,
         IngesterProofs!Cancel, Ingester!Next, IngesterProofs!Next
<1> QED
  BY <1>1, <1>2

\* Every step of the application is a step of FileIngester or none: so are the
\* initial states, and the application implements FileIngester.
THEOREM ImplementsIngester == Spec => Ingester!Spec
<1>1. Init => Ingester!Init
  BY DEF Init
<1>2. [Next]_hashyVars => [Ingester!Next]_(Ingester!ingesterVars)
  <2> DEFINE Stutter == UNCHANGED ingesterVars
  <2>1. ASSUME Lifecycle \/ Shutdown
        PROVE  Ingester!Next \/ Stutter
    <3>1. CASE InvokeIngest
      BY <3>1 DEF InvokeIngest, Ingester!Next
    <3>2. CASE StopHook
      <4>1. ASSUME Ingester!Cancel(cancelFunc)
            PROVE  Ingester!Next
        BY <4>1 DEF Ingester!Next, Ingester!Cancel
      <4> QED
        BY <3>2, <4>1 DEF StopHook, CheckerOnly
    <3> QED
      BY <2>1, <3>1, <3>2 DEF Lifecycle, Shutdown, StartApp, StartHook, CheckerOnly,
         StartHookReturns, StopHookReturns
  <2>2. ASSUME NEW x \in Contexts, RunCheckerStep(x) \/ CallIngest(x) \/ IngestReturns(x)
        PROVE  Ingester!Next \/ Stutter
    BY <2>2 DEF RunCheckerStep, CallIngest, IngestReturns, CheckerOnly, Ingester!Next
  <2>3. ASSUME NEW c \in AllCalls, IngestStep(c)
        PROVE  Ingester!Next
    BY <2>3 DEF IngestStep, AllCalls, Ingester!Next
  <2>4. ASSUME NEW p \in Paths, EditFile(p)
        PROVE  Ingester!Next
    BY <2>4 DEF EditFile, Ingester!Next
  <2>5. Next => Ingester!Next \/ Stutter
    BY <2>1, <2>2, <2>3, <2>4 DEF Next, AllCalls
  <2>6. UNCHANGED hashyVars => Stutter
    BY DEF hashyVars
  <2>7. Stutter => UNCHANGED Ingester!ingesterVars
    BY DEF ingesterVars, Ingester!ingesterVars, Ingester!env, Ingester!shared,
       Ingester!locals, Ingester!sinks
  <2> QED
    BY <2>5, <2>6, <2>7
<1> QED
  BY <1>1, <1>2, PTL DEF Spec, Ingester!Spec

\* What FileIngesterProofs shows of serial calls is there to be used.
LEMMA IngesterIsSerial ==
  Spec => IngesterProofs!Spec /\ []IngesterProofs!SerialCalls
<1>1. [Ingester!Next]_(Ingester!ingesterVars)
        => [IngesterProofs!Next]_(IngesterProofs!ingesterVars)
  BY SameIngester
  DEF Ingester!ingesterVars, Ingester!env, Ingester!shared, Ingester!locals,
     Ingester!sinks, IngesterProofs!ingesterVars, IngesterProofs!env,
     IngesterProofs!shared, IngesterProofs!locals, IngesterProofs!sinks
<1>2. SerialIngest => IngesterProofs!SerialCalls
  BY DEF SerialIngest, IngesterProofs!SerialCalls
<1> QED
  BY SameIngester, <1>1, <1>2, ImplementsIngester, CallsAreSerial, PTL
  DEF Ingester!Spec, IngesterProofs!Spec

LEMMA SameConstants == IngesterProofs!IngesterConstants
BY HashyAssumption DEF Ingester!IngesterConstants, IngesterProofs!IngesterConstants,
   Ingester!Reading, IngesterProofs!Reading

\* Between two Ingests, the checksum stands for what the Locator and every
\* other listener have, from the boot ingest to the shutdown.
THEOREM Agreement == Spec => []LocatorAgrees
<1>1. IngesterProofs!Spec /\ []IngesterProofs!SerialCalls => []IngesterProofs!ListenerAgrees
  BY SameConstants, IngesterProofs!Agreement
<1>2. IngesterProofs!ListenerAgrees => LocatorAgrees
  BY DEF LocatorAgrees, Ingester!ListenerAgrees, IngesterProofs!ListenerAgrees,
     Ingester!Listeners, IngesterProofs!Listeners, Ingester!Sum, IngesterProofs!Sum,
     Ingester!Hashed, IngesterProofs!Hashed
<1> QED
  BY IngesterIsSerial, <1>1, <1>2, PTL

\* Neither the Locator nor another listener is ever given groups of the same
\* checksum twice in a row.
THEOREM OnlyChanges == Spec => OnlyChangesDispatched
<1> DEFINE Fresh ==
      \A c \in AllCalls : \A l \in Ingester!Listeners :
        told[c] = l - 1 /\ told'[c] = l /\ event[c] # Failure /\ heard[l] # NoEvent
          => Ingester!Sum(event[c]) # Ingester!Sum(heard[l])
    FreshProved ==
      \A c \in AllCalls : \A l \in IngesterProofs!Listeners :
        told[c] = l - 1 /\ told'[c] = l /\ event[c] # Failure /\ heard[l] # NoEvent
          => IngesterProofs!Sum(event[c]) # IngesterProofs!Sum(heard[l])
<1>1. [FreshProved]_(IngesterProofs!ingesterVars) => [Fresh]_(Ingester!ingesterVars)
  BY DEF Ingester!Listeners, IngesterProofs!Listeners, Ingester!Sum, IngesterProofs!Sum,
     Ingester!Hashed, IngesterProofs!Hashed,
     Ingester!ingesterVars, Ingester!env, Ingester!shared, Ingester!locals,
     Ingester!sinks, IngesterProofs!ingesterVars, IngesterProofs!env,
     IngesterProofs!shared, IngesterProofs!locals, IngesterProofs!sinks
<1>2. IngesterProofs!Spec /\ []IngesterProofs!SerialCalls
        => IngesterProofs!OnlyChangesDispatched
  BY SameConstants, IngesterProofs!OnlyChanges
<1> QED
  BY IngesterIsSerial, <1>1, <1>2, PTL
  DEF OnlyChangesDispatched, Ingester!OnlyChangesDispatched,
     IngesterProofs!OnlyChangesDispatched, AllCalls

(***************************************************************************)
(* The IngestChecker in the application.                                   *)
(***************************************************************************)

\* Every step of the application is a step of IngestChecker or none, with the
\* goroutine that runs the hooks as its only caller.
THEOREM ImplementsChecker == Spec => Checker!Spec
<1>1. Init => Checker!Init
  BY DEF Init
<1>2. [Next]_hashyVars => [Checker!Next]_(Checker!checkerVars)
  <2> DEFINE Stutter == UNCHANGED checkerVars
  <2>1. ASSUME Lifecycle \/ Shutdown
        PROVE  Checker!Next \/ Stutter
    <3>1. CASE StartHook
      BY <3>1 DEF StartHook, CheckerOnly, Checker!Next
    <3>2. CASE StopHook
      BY <3>2 DEF StopHook, CheckerOnly, Checker!Stop, Checker!Next
    <3>3. CASE StartHookReturns \/ StopHookReturns
      BY <3>3 DEF StartHookReturns, StopHookReturns, Checker!Next
    <3> QED
      BY <2>1, <3>1, <3>2, <3>3 DEF Lifecycle, Shutdown, InvokeIngest, StartApp
  <2>2. ASSUME NEW x \in Contexts, RunCheckerStep(x) \/ CallIngest(x) \/ IngestReturns(x)
        PROVE  Checker!Next
    BY <2>2 DEF RunCheckerStep, CallIngest, IngestReturns, CheckerOnly, Checker!Run,
       Checker!Next
  <2>3. ASSUME (\E c \in AllCalls : IngestStep(c)) \/ (\E p \in Paths : EditFile(p))
        PROVE  Stutter
    BY <2>3 DEF IngestStep, EditFile
  <2>4. Next => Checker!Next \/ Stutter
    BY <2>1, <2>2, <2>3 DEF Next, AllCalls
  <2>5. UNCHANGED hashyVars => Stutter
    BY DEF hashyVars
  <2>6. Stutter => UNCHANGED Checker!checkerVars
    BY DEF checkerVars, Checker!checkerVars
  <2> QED
    BY <2>4, <2>5, <2>6
<1> QED
  BY <1>1, <1>2, PTL DEF Spec, Checker!Spec

\* The two instances of IngestChecker are one as well.
LEMMA SameChecker ==
  /\ Checker!Init <=> CheckerProofs!Init
  /\ [Checker!Next]_(Checker!checkerVars) => [CheckerProofs!Next]_(CheckerProofs!checkerVars)
<1>1. Checker!Init <=> CheckerProofs!Init
  BY DEF Checker!Init, CheckerProofs!Init, Checker!Idle, CheckerProofs!Idle
<1>2. Checker!Next <=> CheckerProofs!Next
  BY DEF Checker!Idle, CheckerProofs!Idle, Checker!Goto, CheckerProofs!Goto,
         Checker!Lock, CheckerProofs!Lock,
         Checker!StartFindsNil, CheckerProofs!StartFindsNil,
         Checker!StartSpawns, CheckerProofs!StartSpawns,
         Checker!StartFindsRunning, CheckerProofs!StartFindsRunning,
         Checker!StopCancels, CheckerProofs!StopCancels,
         Checker!StopClears, CheckerProofs!StopClears,
         Checker!StopFindsNil, CheckerProofs!StopFindsNil,
         Checker!Unlock, CheckerProofs!Unlock, Checker!NewTicker, CheckerProofs!NewTicker,
         Checker!Fire, CheckerProofs!Fire, Checker!TakeDone, CheckerProofs!TakeDone,
         Checker!TakeTick, CheckerProofs!TakeTick,
         Checker!IngestReturns, CheckerProofs!IngestReturns,
         Checker!Start, CheckerProofs!Start, Checker!Stop, CheckerProofs!Stop,
         Checker!Run, CheckerProofs!Run, Checker!Next, CheckerProofs!Next
<1> QED
  BY <1>1, <1>2 DEF Checker!checkerVars, CheckerProofs!checkerVars

LEMMA ImplementsProvedChecker == Spec => CheckerProofs!Spec
BY SameChecker, ImplementsChecker, PTL DEF Checker!Spec, CheckerProofs!Spec

\* The application never leaves a goroutine of the checker behind either.
THEOREM NoGoroutineLeaks == Spec => []Checker!NoOrphan
<1>1. CheckerProofs!Spec => []CheckerProofs!NoOrphan
  BY HashyAssumption, CheckerProofs!NoGoroutineLeaks DEF CheckerProofs!CheckerAssumption
<1>2. CheckerProofs!NoOrphan => Checker!NoOrphan
  BY DEF CheckerProofs!NoOrphan, Checker!NoOrphan, CheckerProofs!Alive, Checker!Alive
<1> QED
  BY ImplementsProvedChecker, <1>1, <1>2, PTL

\* All variables of the application and of its parts have their types.
THEOREM TypeCorrect == Spec => []TypeOK
<1>1. CheckerProofs!Spec => []CheckerProofs!TypeOK
  BY HashyAssumption, CheckerProofs!TypeCorrect DEF CheckerProofs!CheckerAssumption
<1>2. CheckerProofs!TypeOK => Checker!TypeOK
  BY DEF CheckerProofs!TypeOK, Checker!TypeOK, CheckerProofs!Idle, Checker!Idle
<1>3. IngesterProofs!Spec => []IngesterProofs!TypeOK
  BY SameConstants, IngesterProofs!TypeCorrect
<1>4. IngesterProofs!TypeOK => Ingester!TypeOK
  BY DEF IngesterProofs!TypeOK, Ingester!TypeOK, IngesterProofs!Listeners,
     Ingester!Listeners, IngesterProofs!Reading, Ingester!Reading
<1>5. Inv /\ Checker!TypeOK /\ Ingester!TypeOK => TypeOK
  BY DEF Inv, Typed, TypeOK
<1> QED
  BY ImplementsProvedChecker, IngesterIsSerial, Invariance, <1>1, <1>2, <1>3, <1>4, <1>5, PTL

=============================================================================
