-------------------------------- MODULE Hashy --------------------------------
(***************************************************************************)
(* How the hashy application composes its parts: fx first invokes Ingest   *)
(* synchronously (the boot ingest), then runs the OnStart hook of the      *)
(* IngestChecker, whose goroutine calls Ingest at each tick; a shutdown    *)
(* runs its OnStop hook.  The first listener of the FileIngester is the    *)
(* Locator, whose Update is atomic for everybody else (Locator.tla), so    *)
(* heard[1] is the Groups that requests are answered from.                 *)
(*                                                                         *)
(* A call of Ingest is identified by the context it is given.              *)
(***************************************************************************)
EXTENDS Naturals, Sequences

CONSTANTS
  Main,   \* the goroutine that runs the lifecycle hooks of the fx.App
  Boot,   \* context.Background(), for the boot ingest
  Contexts, NoCaller, NoContext,
  Paths, Contents, Malformed, Includes, NoPath, NoContent, Configurations, BadPattern,
  Checksum(_), NoEvent, Failure, NumListeners, MaxEdits

VARIABLES
  app,  \* what the fx.App is doing
  runLock, cancelFunc, caller, canceled, run, tick,
  globs, disk, edits, expired, first, checksum,
  pc, old, globsLeft, files, seen, event, told, heard, lastEvent

Checker == INSTANCE IngestChecker WITH Callers <- {Main}

Ingester == INSTANCE FileIngester WITH
  Calls <- Contexts \union {Boot}, Cancelable <- Contexts

ASSUME HashyAssumption ==
  /\ Boot \notin Contexts /\ NumListeners > 0
  /\ Main # NoCaller /\ NoContext \notin Contexts
  /\ Ingester!IngesterConstants

checkerVars == <<runLock, cancelFunc, caller, canceled, run, tick>>
ingesterVars ==
  <<globs, disk, edits, expired, first, checksum,
    pc, old, globsLeft, files, seen, event, told, heard, lastEvent>>
hashyVars == <<app, checkerVars, ingesterVars>>

Init ==
  /\ app = "invoking"
  /\ Checker!Init
  /\ Ingester!Init

\* A step of the checker that concerns nobody else.
CheckerOnly(step) == step /\ UNCHANGED <<app, ingesterVars>>

(***************************************************************************)
(* The fx.App.                                                             *)
(***************************************************************************)

\* fx.New invokes fi.Ingest(context.Background()).
InvokeIngest ==
  /\ app = "invoking"
  /\ Ingester!Begin(Boot)
  /\ app' = "booting"
  /\ UNCHANGED checkerVars

\* Mutant: the boot ingest is not waited for.
StartEarly ==
  /\ app = "booting"
  /\ app' = "starting"
  /\ UNCHANGED <<checkerVars, ingesterVars>>

\* Ingest has returned, whatever it dispatched: the app starts.
StartApp ==
  /\ app = "booting"
  /\ pc[Boot] = "idle"
  /\ app' = "starting"
  /\ UNCHANGED <<checkerVars, ingesterVars>>

\* The OnStart hook, ic.Start.
StartHook ==
  /\ app = "starting"
  /\ CheckerOnly(Checker!Start(Main))

StartHookReturns ==
  /\ app = "starting"
  /\ Checker!Unlock(Main)
  /\ app' = "running"
  /\ UNCHANGED ingesterVars

\* A signal, or a server that stopped, shuts the app down.
Shutdown ==
  /\ app = "running"
  /\ app' = "stopping"
  /\ UNCHANGED <<checkerVars, ingesterVars>>

\* The OnStop hook, ic.Stop: canceling the context also reaches an Ingest that
\* is under way.
StopHook ==
  /\ app = "stopping"
  /\ \/ CheckerOnly(Checker!Lock(Main, "stop"))
     \/ CheckerOnly(Checker!StopClears(Main))
     \/ CheckerOnly(Checker!StopFindsNil(Main))
     \/ /\ Checker!StopCancels(Main)
        /\ IF pc[cancelFunc] = "idle"
             THEN UNCHANGED ingesterVars
             ELSE Ingester!Cancel(cancelFunc)
        /\ UNCHANGED app

StopHookReturns ==
  /\ app = "stopping"
  /\ Checker!Unlock(Main)
  /\ app' = "stopped"
  /\ UNCHANGED ingesterVars

(***************************************************************************)
(* The goroutine of the checker and the calls of Ingest.                   *)
(***************************************************************************)

RunCheckerStep(x) ==
  CheckerOnly(Checker!NewTicker(x) \/ Checker!Fire(x) \/ Checker!TakeDone(x))

\* A tick calls Ingest with the context of the goroutine.
CallIngest(x) ==
  /\ Checker!TakeTick(x)
  /\ Ingester!Begin(x)
  /\ x \in expired' <=> x \in canceled
  /\ UNCHANGED app

\* That Ingest has returned.
IngestReturns(x) ==
  /\ pc[x] = "idle"
  /\ CheckerOnly(Checker!IngestReturns(x))

IngestStep(c) == Ingester!Step(c) /\ UNCHANGED <<app, checkerVars>>

EditFile(p) == Ingester!Edit(p) /\ UNCHANGED <<app, checkerVars>>

(***************************************************************************)
(* Specification.                                                          *)
(***************************************************************************)

Lifecycle ==
  \/ InvokeIngest \/ StartApp
  \/ StartHook \/ StartHookReturns
  \/ StopHook \/ StopHookReturns

Next ==
  \/ Lifecycle
  \/ Shutdown
  \/ \E x \in Contexts : RunCheckerStep(x) \/ CallIngest(x) \/ IngestReturns(x)
  \/ \E c \in Contexts \union {Boot} : IngestStep(c)
  \/ \E p \in Paths : EditFile(p)

Spec == Init /\ [][Next]_hashyVars

\* Goroutines are scheduled, tickers fire, and select takes a case that is
\* ready again and again.  Nobody has to edit files or shut the app down.
FairSpec ==
  /\ Spec
  /\ WF_hashyVars(Lifecycle)
  /\ \A x \in Contexts :
       /\ WF_hashyVars(CheckerOnly(Checker!NewTicker(x)))
       /\ WF_hashyVars(CheckerOnly(Checker!Fire(x)))
       /\ SF_hashyVars(CheckerOnly(Checker!TakeDone(x)))
       /\ WF_hashyVars(CallIngest(x))
       /\ WF_hashyVars(IngestReturns(x))
  /\ \A c \in Contexts \union {Boot} : WF_hashyVars(IngestStep(c))

(***************************************************************************)
(* Properties.                                                             *)
(***************************************************************************)

\* The values the state of the application can have.
TypeOK ==
  /\ app \in {"invoking", "booting", "starting", "running", "stopping", "stopped"}
  /\ Checker!TypeOK
  /\ Ingester!TypeOK

\* Neither IngestChecker nor FileIngester keeps calls of Ingest apart, but the
\* application does: the boot ingest ends before the checker starts, and there
\* is one goroutine, which waits for the Ingest it calls.
SerialIngest ==
  \A c, d \in Contexts \union {Boot} : pc[c] # "idle" /\ pc[d] # "idle" => c = d

\* So what FileIngester guarantees for serial calls holds in the application,
\* from the boot ingest on, also across failures and a shutdown.
LocatorAgrees == Ingester!ListenerAgrees
OnlyChangesDispatched == Ingester!OnlyChangesDispatched

\* As long as the application runs, edits of the zone files reach the Locator.
EditsReachLocator ==
  <>[](app = "running" /\ Ingester!AllReadable => heard[1] = Ingester!CurrentReading)

\* A shutdown ends the goroutine of the checker and the Ingest it is in, and
\* no Ingest begins afterwards.
ShutdownIsFinal ==
  app = "stopping" ~>
    [](/\ app = "stopped"
       /\ \A x \in Contexts : run[x] = "none"
       /\ \A c \in Contexts \union {Boot} : pc[c] = "idle")

=============================================================================
