--------------------------- MODULE IngestChecker ---------------------------
(***************************************************************************)
(* service.IngestChecker: Start and Stop, called from any goroutine under  *)
(* runLock, and the background goroutines (run) that call Ingest each time *)
(* their ticker fires until their context is canceled.                     *)
(*                                                                         *)
(* A context identifies one goroutine: Start creates both.  A context      *)
(* whose goroutine has returned may be handed out again, so Contexts       *)
(* bounds how many goroutines exist at once, never how often Start is      *)
(* called.  Ingest itself is the interval between TakeTick and             *)
(* IngestReturns; FileIngester says what happens in it.                    *)
(***************************************************************************)
EXTENDS Naturals, FiniteSets

CONSTANTS
  Callers,    \* goroutines that call Start and Stop
  Contexts,   \* contexts that context.WithCancel may return
  NoCaller,   \* runLock is free
  NoContext   \* the nil cancelFunc

ASSUME CheckerAssumption ==
  /\ NoCaller \notin Callers
  /\ NoContext \notin Contexts

VARIABLES
  runLock,     \* the caller that holds ic.runLock, or NoCaller
  cancelFunc,  \* the context ic.cancelFunc cancels, or NoContext for nil
  caller,      \* caller[c]: where c is inside Start or Stop
  canceled,    \* the contexts whose Done channel is closed
  run,         \* run[x]: where the goroutine started with context x is
  tick         \* tick[x]: the one-element channel of x's ticker is full

checkerVars == <<runLock, cancelFunc, caller, canceled, run, tick>>

Idle == "idle"

Init ==
  /\ runLock = NoCaller
  /\ cancelFunc = NoContext
  /\ caller = [c \in Callers |-> Idle]
  /\ canceled = {}
  /\ run = [x \in Contexts |-> "none"]
  /\ tick = [x \in Contexts |-> FALSE]

Goto(c, label) == caller' = [caller EXCEPT ![c] = label]

(***************************************************************************)
(* Start and Stop.                                                         *)
(***************************************************************************)

\* Mutant: runLock is not taken, so the nil check and the assignment of
\* cancelFunc of two Starts may interleave.
LockNotTaken(c, label) ==
  /\ caller[c] = Idle
  /\ Goto(c, label)
  /\ UNCHANGED <<runLock, cancelFunc, canceled, run, tick>>

\* runLock.Lock() on entry of Start or Stop.
Lock(c, label) ==
  /\ caller[c] = Idle
  /\ runLock = NoCaller
  /\ runLock' = c
  /\ Goto(c, label)
  /\ UNCHANGED <<cancelFunc, canceled, run, tick>>

\* Start finds a nil cancelFunc.
StartFindsNil(c) ==
  /\ caller[c] = "start"
  /\ cancelFunc = NoContext
  /\ Goto(c, "spawn")
  /\ UNCHANGED <<runLock, cancelFunc, canceled, run, tick>>

\* Start creates the context, keeps its cancel function, spawns run(ctx).
StartSpawns(c) ==
  /\ caller[c] = "spawn"
  /\ \E x \in Contexts :
       /\ run[x] = "none"
       /\ cancelFunc' = x
       /\ run' = [run EXCEPT ![x] = "spawned"]
  /\ Goto(c, "unlock")
  /\ UNCHANGED <<runLock, canceled, tick>>

\* Start is idempotent: with a non-nil cancelFunc it does nothing.
StartFindsRunning(c) ==
  /\ caller[c] = "start"
  /\ cancelFunc # NoContext
  /\ Goto(c, "unlock")
  /\ UNCHANGED <<runLock, cancelFunc, canceled, run, tick>>

\* Mutant: Stop does not check for a nil cancelFunc.
StopUnchecked(c) ==
  /\ caller[c] = "stop"
  /\ canceled' = canceled \union {cancelFunc}
  /\ Goto(c, "clear")
  /\ UNCHANGED <<runLock, cancelFunc, run, tick>>

\* Mutant: Stop sets cancelFunc to nil without having called it.
StopForgetsCancel(c) ==
  /\ caller[c] = "stop"
  /\ cancelFunc # NoContext
  /\ Goto(c, "clear")
  /\ UNCHANGED <<runLock, cancelFunc, canceled, run, tick>>

\* Stop calls cancelFunc, which closes the context's Done channel.
StopCancels(c) ==
  /\ caller[c] = "stop"
  /\ cancelFunc # NoContext
  /\ canceled' = canceled \union {cancelFunc}
  /\ Goto(c, "clear")
  /\ UNCHANGED <<runLock, cancelFunc, run, tick>>

\* Mutant: Stop leaves the called cancelFunc in place.
StopForgetsClear(c) ==
  /\ caller[c] = "clear"
  /\ Goto(c, "unlock")
  /\ UNCHANGED <<runLock, cancelFunc, canceled, run, tick>>

\* Stop then sets cancelFunc to nil.
StopClears(c) ==
  /\ caller[c] = "clear"
  /\ cancelFunc' = NoContext
  /\ Goto(c, "unlock")
  /\ UNCHANGED <<runLock, canceled, run, tick>>

\* Stop is idempotent: with a nil cancelFunc it does nothing.
StopFindsNil(c) ==
  /\ caller[c] = "stop"
  /\ cancelFunc = NoContext
  /\ Goto(c, "unlock")
  /\ UNCHANGED <<runLock, cancelFunc, canceled, run, tick>>

\* The deferred runLock.Unlock().
Unlock(c) ==
  /\ caller[c] = "unlock"
  /\ runLock' = NoCaller
  /\ Goto(c, Idle)
  /\ UNCHANGED <<cancelFunc, canceled, run, tick>>

(***************************************************************************)
(* The goroutine run(ctx), with x for ctx.                                 *)
(***************************************************************************)

\* The goroutine is scheduled and creates its ticker.
NewTicker(x) ==
  /\ run[x] = "spawned"
  /\ run' = [run EXCEPT ![x] = "select"]
  /\ UNCHANGED <<runLock, cancelFunc, caller, canceled, tick>>

\* The interval elapses: the ticker fills its channel, in which a tick that
\* finds the channel full is dropped.
Fire(x) ==
  /\ run[x] \in {"select", "ingesting"}
  /\ ~tick[x]
  /\ tick' = [tick EXCEPT ![x] = TRUE]
  /\ UNCHANGED <<runLock, cancelFunc, caller, canceled, run>>

\* Mutant: the loop has no case for the end of the context.
IgnoreDone(x) == FALSE /\ UNCHANGED checkerVars

\* select takes ctx.Done: the goroutine returns and its ticker is stopped.
TakeDone(x) ==
  /\ run[x] = "select"
  /\ x \in canceled
  /\ run' = [run EXCEPT ![x] = "none"]
  /\ tick' = [tick EXCEPT ![x] = FALSE]
  /\ canceled' = canceled \ {x}
  /\ UNCHANGED <<runLock, cancelFunc, caller>>

\* select takes the tick.  Go chooses among ready cases at random, so this
\* may happen although x is canceled.
TakeTick(x) ==
  /\ run[x] = "select"
  /\ tick[x]
  /\ run' = [run EXCEPT ![x] = "ingesting"]
  /\ tick' = [tick EXCEPT ![x] = FALSE]
  /\ UNCHANGED <<runLock, cancelFunc, caller, canceled>>

\* Mutant: the goroutine returns after one Ingest (no loop).
IngestOnce(x) ==
  /\ run[x] = "ingesting"
  /\ run' = [run EXCEPT ![x] = "none"]
  /\ UNCHANGED <<runLock, cancelFunc, caller, canceled, tick>>

\* ic.ingester.Ingest(ctx) returns and the loop goes back to its select.
IngestReturns(x) ==
  /\ run[x] = "ingesting"
  /\ run' = [run EXCEPT ![x] = "select"]
  /\ UNCHANGED <<runLock, cancelFunc, caller, canceled, tick>>

(***************************************************************************)
(* Specification.                                                          *)
(***************************************************************************)

Start(c) ==
  \/ Lock(c, "start")
  \/ StartFindsNil(c)
  \/ StartSpawns(c)
  \/ StartFindsRunning(c)

Stop(c) ==
  \/ Lock(c, "stop")
  \/ StopCancels(c)
  \/ StopClears(c)
  \/ StopFindsNil(c)

Run(x) ==
  \/ NewTicker(x)
  \/ Fire(x)
  \/ TakeDone(x)
  \/ TakeTick(x)
  \/ IngestReturns(x)

Next ==
  \/ \E c \in Callers : Start(c) \/ Stop(c) \/ Unlock(c)
  \/ \E x \in Contexts : Run(x)

\* Nobody has to call Start or Stop, but a call that holds runLock goes on.
CallerFairness(c) ==
  /\ WF_checkerVars(StartFindsNil(c))
  /\ WF_checkerVars(StartSpawns(c))
  /\ WF_checkerVars(StartFindsRunning(c))
  /\ WF_checkerVars(StopCancels(c))
  /\ WF_checkerVars(StopClears(c))
  /\ WF_checkerVars(StopFindsNil(c))
  /\ WF_checkerVars(Unlock(c))

\* Goroutines are scheduled, tickers fire, Ingest returns.  select picks at
\* random among ready cases, so a case that is ready again and again is
\* taken (with probability one): strong fairness for TakeDone.
RunFairness(x) ==
  /\ WF_checkerVars(NewTicker(x))
  /\ WF_checkerVars(Fire(x))
  /\ WF_checkerVars(TakeTick(x))
  /\ WF_checkerVars(IngestReturns(x))
  /\ SF_checkerVars(TakeDone(x))

Spec == Init /\ [][Next]_checkerVars

FairSpec ==
  /\ Spec
  /\ \A c \in Callers : CallerFairness(c)
  /\ \A x \in Contexts : RunFairness(x)

(***************************************************************************)
(* Properties.                                                             *)
(***************************************************************************)

\* The values the state of the checker can have.
TypeOK ==
  /\ runLock \in Callers \union {NoCaller}
  /\ cancelFunc \in Contexts \union {NoContext}
  /\ caller \in [Callers ->
                   {Idle, "start", "spawn", "stop", "clear", "unlock"}]
  /\ canceled \subseteq Contexts
  /\ run \in [Contexts -> {"none", "spawned", "select", "ingesting"}]
  /\ tick \in [Contexts -> BOOLEAN]

Alive(x) == run[x] # "none"

\* No orphan: a goroutine that has not been told to end is the one that
\* cancelFunc ends, so there is at most one and the next Stop reaches it,
\* however Start and Stop calls interleave.
NoOrphan ==
  \A x \in Contexts : Alive(x) /\ x \notin canceled => cancelFunc = x

\* A non-nil cancelFunc outside the critical sections stands for a goroutine
\* that runs, so the Start that trusts it and does nothing leaves the
\* checker checking.
TrustedCancelFunc ==
  runLock = NoCaller /\ cancelFunc # NoContext =>
    Alive(cancelFunc) /\ cancelFunc \notin canceled

\* A canceled goroutine returns although its ticker keeps firing, so Stop
\* leaks none.
StoppedReturns ==
  \A x \in Contexts : x \in canceled ~> x \notin canceled

\* As long as it is not stopped, the checker calls Ingest again and again.
KeepsChecking ==
  \A x \in Contexts :
    cancelFunc = x ~> (run[x] = "ingesting" \/ cancelFunc # x)

\* Stop's comment, "Stop atomically halts invoking Ingest": once Stop has
\* given up the lock, the goroutine it canceled begins no Ingest.  It does
\* not hold, because select may prefer a tick that is ready to Done.
StopHaltsIngest ==
  [][\A x \in Contexts :
       x \in canceled /\ runLock = NoCaller
         => ~(run[x] = "select" /\ run'[x] = "ingesting")]_checkerVars

=============================================================================
