------------------------- MODULE IngestCheckerProofs -------------------------
(***************************************************************************)
(* Theorems about IngestChecker, for any number of callers and contexts.   *)
(*                                                                         *)
(* NoOrphan and TrustedCancelFunc are not inductive: they say nothing of   *)
(* what holds inside a critical section.  Inv adds who may be inside       *)
(* (LockHeld), what each of the two critical sections has established      *)
(* (Spawning, Clearing) and that only live goroutines are canceled, so     *)
(* that a context handed out again is not canceled yet (CanceledAlive).    *)
(***************************************************************************)
EXTENDS IngestChecker, TLAPS

\* The caller inside Start or Stop is the one that holds runLock.
LockHeld == \A c \in Callers : caller[c] # Idle <=> runLock = c

\* Start spawns a goroutine only while cancelFunc is nil.
Spawning == \A c \in Callers : caller[c] = "spawn" => cancelFunc = NoContext

\* Stop has ended the goroutine of the cancelFunc it is about to clear.
Clearing ==
  \A c \in Callers : caller[c] = "clear" =>
    cancelFunc # NoContext /\ (Alive(cancelFunc) => cancelFunc \in canceled)

CanceledAlive == \A x \in canceled : Alive(x)

\* TrustedCancelFunc, which holds up to the moment when Stop cancels.
Trusted ==
  cancelFunc # NoContext /\ (\A c \in Callers : caller[c] # "clear") =>
    Alive(cancelFunc) /\ cancelFunc \notin canceled

Inv ==
  /\ TypeOK
  /\ LockHeld
  /\ Spawning
  /\ Clearing
  /\ CanceledAlive
  /\ Trusted
  /\ NoOrphan

\* Inv with its parts expanded, for the leaves below.
USE DEF Inv, LockHeld, Spawning, Clearing, CanceledAlive, Trusted, NoOrphan,
        TypeOK, Alive, Idle, Goto

LEMMA InitInv == Init => Inv
BY CheckerAssumption DEF Init

\* The steps of Start and Stop that move a caller and nothing else.
LEMMA MoveInv ==
  ASSUME Inv, NEW c \in Callers,
         StartFindsNil(c) \/ StartFindsRunning(c) \/ StopFindsNil(c)
  PROVE  Inv'
BY CheckerAssumption DEF StartFindsNil, StartFindsRunning, StopFindsNil

\* A caller that holds the lock is alone in the critical sections.
LEMMA CallerInv ==
  ASSUME Inv, NEW c \in Callers, Start(c) \/ Stop(c) \/ Unlock(c)
  PROVE  Inv'
<1>1. ASSUME NEW label \in {"start", "stop"}, Lock(c, label)
      PROVE  Inv'
  BY <1>1, CheckerAssumption DEF Lock
<1>2. CASE StartSpawns(c)
  <2>1. PICK x \in Contexts :
          /\ run[x] = "none"
          /\ cancelFunc' = x
          /\ run' = [run EXCEPT ![x] = "spawned"]
    BY <1>2 DEF StartSpawns
  <2>2. x \notin canceled
    BY <2>1
  <2>3. \A y \in Contexts : Alive(y) => y \in canceled
    BY <1>2, CheckerAssumption DEF StartSpawns
  <2>4. TypeOK' /\ LockHeld' /\ Spawning' /\ Clearing' /\ CanceledAlive'
    BY <1>2, <2>1, CheckerAssumption DEF StartSpawns
  <2>5. Trusted' /\ NoOrphan'
    BY <1>2, <2>1, <2>2, <2>3, CheckerAssumption DEF StartSpawns
  <2> QED
    BY <2>4, <2>5
<1>3. CASE StopCancels(c)
  <2>1. cancelFunc \in Contexts /\ Alive(cancelFunc)
    BY <1>3, CheckerAssumption DEF StopCancels
  <2> QED
    BY <1>3, <2>1, CheckerAssumption DEF StopCancels
<1>4. CASE StopClears(c)
  BY <1>4, CheckerAssumption DEF StopClears
<1>5. CASE Unlock(c)
  BY <1>5, CheckerAssumption DEF Unlock
<1> QED
  BY <1>1, <1>2, <1>3, <1>4, <1>5, MoveInv DEF Start, Stop

\* The goroutine of a context only touches its own state, and gives the
\* context back when nothing but a Stop under way still names it.
LEMMA RunInv ==
  ASSUME Inv, NEW x \in Contexts, Run(x)
  PROVE  Inv'
<1>1. CASE NewTicker(x)
  BY <1>1 DEF NewTicker
<1>2. CASE Fire(x)
  BY <1>2 DEF Fire
<1>3. CASE TakeDone(x)
  BY <1>3 DEF TakeDone
<1>4. CASE TakeTick(x)
  BY <1>4 DEF TakeTick
<1>5. CASE IngestReturns(x)
  BY <1>5 DEF IngestReturns
<1> QED
  BY <1>1, <1>2, <1>3, <1>4, <1>5 DEF Run

\* Inv holds in every state the checker reaches: the invariant that the
\* theorems below read off.
THEOREM Invariance == Spec => []Inv
<1>1. Init => Inv
  BY InitInv
<1>2. Inv /\ [Next]_checkerVars => Inv'
  <2>1. ASSUME Inv, Next
        PROVE  Inv'
    BY <2>1, CallerInv, RunInv DEF Next
  <2>2. ASSUME Inv, UNCHANGED checkerVars
        PROVE  Inv'
    BY <2>2 DEF checkerVars
  <2> QED
    BY <2>1, <2>2
<1> QED
  BY <1>1, <1>2, PTL DEF Spec

\* The state of the checker always has its type.
THEOREM TypeCorrect == Spec => []TypeOK
BY Invariance, PTL

\* No interleaving of Start and Stop, by any number of goroutines, leaves a
\* goroutine behind that neither was canceled nor is cancelFunc's.
THEOREM NoGoroutineLeaks == Spec => []NoOrphan
BY Invariance, PTL

\* A non-nil cancelFunc outside the critical sections always stands for a
\* goroutine that runs and was not canceled.
THEOREM CancelFuncIsTrusted == Spec => []TrustedCancelFunc
<1>1. Inv => TrustedCancelFunc
  BY CheckerAssumption DEF TrustedCancelFunc
<1> QED
  BY <1>1, Invariance, PTL

=============================================================================
