--------------------------- MODULE ProgramProofs ---------------------------
(***************************************************************************)
(* Theorems about the program, for any configurations, command lines and   *)
(* names of servers.                                                       *)
(*                                                                         *)
(* Inv is what app.Run relies on: nothing runs before it starts the hooks, *)
(* the IngestChecker's hook is the first, and whatever runs was started by *)
(* one of the hooks that are not yet stopped.                              *)
(*                                                                         *)
(* The second section is about the TTL jitter: float32 rounds              *)
(* monotonically and by no more than one part in 2 ^ Precision, so that    *)
(* the bounds of a range are off by no more than three such roundings, and *)
(* their difference does not wrap around.  The last one shows the types of *)
(* the variables, that the settings are those of the command line and the  *)
(* file, and that the TTLs the program uses are in their range.            *)
(***************************************************************************)
EXTENDS Program, SequenceLemmas

\* What has passed the checks on the way to each phase.
ConfigurationChecked ==
  /\ app \notin {"parsing", "failed"} => main \in NewViper(input.cl, input.searched)
  /\ app \notin {"parsing", "constructing", "failed"} => Unmarshals(main)
  /\ Constructed =>
       /\ main.dns.zone.jitter \in 0 .. One - 1
       /\ NewBundle(main) # {}

\* Nothing runs before the hooks are started.
NothingBefore ==
  ~Constructed =>
    /\ started = 0
    /\ \A n \in Names : serving[n] = "none"

\* The IngestChecker was appended first.
CheckerFirst ==
  /\ app \in {"parsing", "constructing", "ingesting"} => hooks = <<>>
  /\ app = "bundling" => hooks = <<Checker>>
  /\ Constructed =>
       /\ Len(hooks) >= 1 /\ hooks[1] = Checker
       /\ \A i \in 2 .. Len(hooks) : hooks[i] \in Names

\* What runs belongs to a hook that is started.
RunsByHook ==
  /\ Constructed /\ started > 0 => checking = TRUE
  /\ app = "stopped" => started = 0
  /\ \A n \in Names \ early :
       serving[n] \in {"spawned", "up"} => \E i \in 2 .. started : hooks[i] = n

\* Each server of the configuration has its hook and its handler.
ServersBundled ==
  /\ Constructed =>
       /\ Len(hooks) = Cardinality(ServerNames(main)) + 1
       /\ \A n \in ServerNames(main) :
            bundle[n].handler = n /\ \E i \in 2 .. Len(hooks) : hooks[i] = n
  /\ app \in {"starting", "running"} => \A i \in 2 .. started : serving[hooks[i]] # "none"
  /\ app = "running" => started = Len(hooks)

\* The types the proof needs.
Typed ==
  /\ input \in Inputs
  /\ app \in {"parsing", "constructing", "ingesting", "bundling", "starting",
              "running", "stopping", "stopped", "failed"}
  /\ hooks \in Seq(Names \union {Checker})
  /\ started \in 0 .. Len(hooks)
  /\ serving \in [Names -> {"none", "spawned", "up", "ended"}]
  /\ early \subseteq Names

Inv ==
  /\ Typed /\ ConfigurationChecked /\ NothingBefore
  /\ CheckerFirst /\ RunsByHook /\ ServersBundled

\* The configuration that is read is one that can be read.
LEMMA FileRead ==
  ASSUME NEW i \in Inputs, NEW file \in NewViper(i.cl, i.searched)
  PROVE  /\ file \in Files(i)
         /\ ServerNames(file) \subseteq Names
         /\ file.dns.zone.ttl \in Int /\ file.dns.zone.jitter \in Int
         /\ DOMAIN file.groups = {"zoneFiles", "checkInterval", "defaultTTL"}
         /\ file.groups.checkInterval \in Int /\ file.groups.defaultTTL \in Int
         /\ Sequence(file.groups.zoneFiles)
<1>1. file \in Files(i) /\ file.exists /\ file.yaml
  BY ProgramAssumption DEF NewViper, Files
<1> QED
  BY <1>1, ProgramAssumption

\* The order of a map's keys, appended to a hook.
LEMMA HooksOfServers ==
  ASSUME NEW S \in SUBSET Names, NEW order \in SetToSeqs(S), hooks = <<Checker>>
  PROVE  /\ hooks \o order \in Seq(Names \union {Checker})
         /\ Len(hooks \o order) = Cardinality(S) + 1
         /\ (hooks \o order)[1] = Checker
         /\ \A i \in 2 .. Cardinality(S) + 1 : (hooks \o order)[i] \in S
         /\ \A n \in S : \E i \in 2 .. Cardinality(S) + 1 : (hooks \o order)[i] = n
<1> DEFINE N == Cardinality(S)
<1>1. IsFiniteSet(S) /\ N \in Nat
  BY FS_Subset, FS_CardinalityType, ProgramAssumption
<1>2. order \in [1 .. N -> S] /\ \A i, j \in 1 .. N : i # j => order[i] # order[j]
  BY DEF SetToSeqs
<1>3. order \in Seq(S) /\ Len(order) = N
  BY <1>1, <1>2
<1>4. \A n \in S : \E i \in 1 .. N : order[i] = n
  <2>1. order \in Injection(1 .. N, S)
    BY <1>2 DEF Injection, IsInjective
  <2>2. \A k \in Nat : Cardinality(1 .. k) = k
    BY FS_Interval
  <2>3. order \in Surjection(1 .. N, S)
    BY <1>1, <2>1, <2>2, FS_Injection, Zenon
  <2> QED
    BY <2>3 DEF Surjection
<1>5. \A i \in 2 .. N + 1 : i - 1 \in 1 .. N /\ (hooks \o order)[i] = order[i - 1]
  BY <1>1, <1>3
<1>6. \A n \in S : \E i \in 2 .. N + 1 : (hooks \o order)[i] = n
  <2> TAKE n \in S
  <2>1. PICK i \in 1 .. N : order[i] = n
    BY <1>4
  <2>2. i + 1 \in 2 .. N + 1 /\ (i + 1) - 1 = i
    BY <1>1, <2>1
  <2> QED
    BY <1>5, <2>1, <2>2
<1>7. hooks \o order \in Seq(Names \union {Checker})
  <2>1. hooks \in Seq(Names \union {Checker}) /\ order \in Seq(Names \union {Checker})
    BY <1>3
  <2> QED
    BY <2>1
<1>8. Len(hooks \o order) = N + 1 /\ (hooks \o order)[1] = Checker
  BY <1>1, <1>3
<1>9. \A i \in 2 .. N + 1 : (hooks \o order)[i] \in S
  BY <1>2, <1>5
<1> QED
  BY <1>6, <1>7, <1>8, <1>9

LEMMA InitInv == Init => Inv
<1>1. <<>> \in Seq(Names \union {Checker}) /\ Len(<<>>) = 0
  OBVIOUS
<1> QED
  BY <1>1 DEF Init, Inv, Typed, ConfigurationChecked, NothingBefore, CheckerFirst,
     RunsByHook, ServersBundled, Constructed

\* Up to the hooks of the servers, nothing is started.
LEMMA ConstructionInv ==
  ASSUME Inv, AfterApply \/ ProvideIngester \/ ProvideChecker
  PROVE  Inv'
<1> USE DEF Inv, Typed, ConfigurationChecked, NothingBefore, CheckerFirst, RunsByHook,
            ServersBundled, Constructed, construction, lifecycle, Fail
<1>1. CASE AfterApply
  <2>1. /\ UNCHANGED <<input, hooks, lifecycle>>
        /\ ~Constructed /\ ~Constructed' /\ app' \in {"constructing", "ingesting", "failed"}
        /\ app' # "failed" => main' \in NewViper(input.cl, input.searched)
        /\ app' = "ingesting" => Unmarshals(main')
    BY <1>1 DEF AfterApply
  <2> QED
    BY <1>1, <2>1 DEF AfterApply
<1>2. CASE ProvideIngester
  <2>1. /\ UNCHANGED <<input, hooks, lifecycle>>
        /\ ~Constructed /\ ~Constructed' /\ app' \in {"constructing", "ingesting", "failed"}
        /\ app' # "failed" => main' \in NewViper(input.cl, input.searched)
        /\ app' = "ingesting" => Unmarshals(main')
    BY <1>2 DEF ProvideIngester
  <2> QED
    BY <1>2, <2>1 DEF ProvideIngester
<1>3. CASE ProvideChecker
  <2>1. hooks' = <<Checker>> /\ hooks' \in Seq(Names \union {Checker}) /\ Len(hooks') = 1
    BY <1>3 DEF ProvideChecker
  <2> QED
    BY <1>3, <2>1 DEF ProvideChecker
<1> QED
  BY <1>1, <1>2, <1>3

\* The hooks of the servers are appended.
LEMMA ProvideServersInv ==
  ASSUME Inv, ProvideServers
  PROVE  Inv'
<1>1. CASE Fail
  BY <1>1 DEF Fail, Inv, Typed, ConfigurationChecked, NothingBefore, CheckerFirst, RunsByHook,
     ServersBundled, Constructed, construction, lifecycle, ProvideServers
<1>2. CASE ~Fail
  <2>1. PICK value \in DurationToSeconds(main.dns.zone.ttl), b \in NewBundle(main) :
          /\ jitterer' \in NewTTLJitterer(value, main.dns.zone.jitter)
          /\ bundle' = UseHandler(b)
          /\ hooks' \in BindToLifecycle(b)
          /\ app = "bundling" /\ app' = "starting"
          /\ UNCHANGED <<input, main, lifecycle>>
    BY <1>2 DEF ProvideServers
  <2>2. main.dns.zone.jitter \in Int /\ ServerNames(main) \subseteq Names
    BY <2>1, FileRead DEF Inv, Typed, ConfigurationChecked
  <2>3. main.dns.zone.jitter \in 0 .. One - 1
    BY <2>1, <2>2, JitterAssumption DEF NewTTLJitterer
  <2>4. DOMAIN b = ServerNames(main)
    BY <2>1 DEF NewBundle, UseLogger
  <2>5. PICK order \in SetToSeqs(ServerNames(main)) : hooks' = hooks \o order
    BY <2>1, <2>4 DEF BindToLifecycle
  <2>6. /\ hooks' \in Seq(Names \union {Checker})
        /\ Len(hooks') >= 1 /\ hooks'[1] = Checker
        /\ \A i \in 2 .. Len(hooks') : hooks'[i] \in Names
        /\ Len(hooks') = Cardinality(ServerNames(main)) + 1
        /\ \A n \in ServerNames(main) : \E i \in 2 .. Len(hooks') : hooks'[i] = n
    <3>1. hooks = <<Checker>>
      BY <2>1 DEF Inv, CheckerFirst
    <3>2. Cardinality(ServerNames(main)) \in Nat
      BY <2>2, FS_Subset, FS_CardinalityType, ProgramAssumption
    <3> DEFINE S == ServerNames(main)
    <3>3. /\ hooks \o order \in Seq(Names \union {Checker})
          /\ Len(hooks \o order) = Cardinality(S) + 1
          /\ (hooks \o order)[1] = Checker
          /\ \A i \in 2 .. Cardinality(S) + 1 : (hooks \o order)[i] \in S
          /\ \A n \in S : \E i \in 2 .. Cardinality(S) + 1 : (hooks \o order)[i] = n
      <4>1. S \in SUBSET Names /\ order \in SetToSeqs(S)
        BY <2>2, <2>5
      <4> HIDE DEF S
      <4> QED
        BY <3>1, <4>1, HooksOfServers, Zenon
    <3> HIDE DEF S
    <3>4. /\ hooks' \in Seq(Names \union {Checker})
          /\ Len(hooks') = Cardinality(S) + 1
          /\ hooks'[1] = Checker
          /\ \A i \in 2 .. Cardinality(S) + 1 : hooks'[i] \in S
          /\ \A n \in S : \E i \in 2 .. Cardinality(S) + 1 : hooks'[i] = n
      BY <2>5, <3>3
    <3>5. Len(hooks') >= 1
      BY <3>2, <3>4 DEF S
    <3>6. \A i \in 2 .. Len(hooks') : hooks'[i] \in Names
      BY <2>2, <3>4 DEF S
    <3> QED
      BY <3>4, <3>5, <3>6 DEF S
  <2>7. \A n \in ServerNames(main) : bundle'[n].handler = n
    <3>1. \A n \in ServerNames(main) : n # NoLogger
      BY <2>2, ProgramAssumption
    <3>2. \A n \in ServerNames(main) : b[n].logger = n /\ "handler" \in DOMAIN b[n]
      BY <2>1 DEF NewBundle, UseLogger
    <3> QED
      BY <2>1, <2>4, <3>1, <3>2 DEF UseHandler, Clone
  <2> QED
    BY <2>1, <2>3, <2>6, <2>7
    DEF Inv, Typed, ConfigurationChecked, NothingBefore, CheckerFirst, RunsByHook,
        ServersBundled, Constructed, lifecycle
<1> QED
  BY <1>1, <1>2

\* The hooks are started, in the order they have.
LEMMA StartHookInv ==
  ASSUME Inv, StartHook
  PROVE  Inv'
<1> DEFINE hook == hooks[started + 1]
<1>1. /\ started' = started + 1 /\ started \in 0 .. Len(hooks) - 1
      /\ Constructed /\ app # "stopped"
      /\ UNCHANGED <<app, construction, early, requested>>
  BY DEF StartHook, Constructed, Inv, Typed
<1>2. Len(hooks) \in Nat
  BY DEF Inv, Typed
<1>3. CASE started = 0
  <2>1. hook = Checker /\ checking' = TRUE /\ UNCHANGED serving
    BY <1>1, <1>3 DEF StartHook, Inv, CheckerFirst
  <2>2. 2 .. started' = {} /\ 2 .. started = {}
    BY <1>1, <1>3
  <2> QED
    BY <1>1, <1>2, <2>1, <2>2
    DEF Inv, Typed, ConfigurationChecked, NothingBefore, CheckerFirst, RunsByHook,
        ServersBundled, Constructed, construction
<1>4. CASE started > 0
  <2>1. started' \in 2 .. Len(hooks)
    BY <1>1, <1>2, <1>4
  <2>2. hook \in Names /\ hook # Checker
    BY <1>1, <2>1, ProgramAssumption DEF Inv, CheckerFirst
  <2>3. serving' = [serving EXCEPT ![hook] = "spawned"] /\ UNCHANGED checking
    BY <2>2 DEF StartHook
  <2>4. 2 .. started' = (2 .. started) \union {started'}
    BY <1>1, <2>1
  <2> HIDE DEF hook
  <2>5. hooks[started'] = hook
    BY <1>1 DEF hook
  <2> QED
    BY <1>1, <1>2, <2>1, <2>2, <2>3, <2>4, <2>5
    DEF Inv, Typed, ConfigurationChecked, NothingBefore, CheckerFirst, RunsByHook,
        ServersBundled, Constructed, construction
<1> QED
  BY <1>1, <1>3, <1>4

\* The hooks are stopped, from the last to the first.
LEMMA StopHookInv ==
  ASSUME Inv, StopHook
  PROVE  Inv'
<1> DEFINE hook == hooks[started]
<1>1. /\ started' = started - 1 /\ started \in 1 .. Len(hooks)
      /\ Constructed /\ app = "stopping"
      /\ UNCHANGED <<app, construction>>
  BY DEF StopHook, Constructed, Inv, Typed
<1>2. Len(hooks) \in Nat
  BY DEF Inv, Typed
<1>3. ServersBundled' /\ ConfigurationChecked'
  BY <1>1 DEF Inv, ServersBundled, ConfigurationChecked, Constructed, construction
<1>4. CASE started = 1
  <2>1. hook = Checker /\ checking' = FALSE /\ UNCHANGED <<serving, early, requested>>
    BY <1>1, <1>4 DEF StopHook, Inv, CheckerFirst
  <2>2. 2 .. started' = {} /\ 2 .. started = {}
    BY <1>1, <1>4
  <2> QED
    BY <1>1, <1>2, <1>3, <2>1, <2>2
    DEF Inv, Typed, NothingBefore, CheckerFirst, RunsByHook, Constructed, construction
<1>5. CASE started > 1
  <2>1. started \in 2 .. Len(hooks) /\ started' > 0
    BY <1>1, <1>2, <1>5
  <2>2. hook \in Names /\ hook # Checker
    BY <1>1, <2>1, ProgramAssumption DEF Inv, CheckerFirst
  <2>3. /\ serving' = [serving EXCEPT ![hook] = IF @ = "up" THEN "ended" ELSE @]
        /\ early' = IF serving[hook] = "spawned" THEN early \union {hook} ELSE early
        /\ UNCHANGED checking
    BY <2>2 DEF StopHook
  <2>4. 2 .. started = (2 .. started') \union {started}
    BY <1>1, <2>1
  <2>5. hooks[started] = hook
    OBVIOUS
  <2> HIDE DEF hook
  <2> QED
    BY <1>1, <1>2, <1>3, <2>1, <2>2, <2>3, <2>4, <2>5
    DEF Inv, Typed, NothingBefore, CheckerFirst, RunsByHook, Constructed, construction
<1> QED
  BY <1>1, <1>4, <1>5

\* The app goes on, a server listens or ends.
LEMMA RunningInv ==
  ASSUME Inv, \/ StartReturns \/ StopReturns
              \/ \E os \in BOOLEAN : ReceiveSignal(os)
              \/ \E n \in Names : Listen(n) \/ ServerEnds(n)
  PROVE  Inv'
<1> USE DEF Inv, Typed, ConfigurationChecked, NothingBefore, CheckerFirst, RunsByHook,
            ServersBundled, Constructed, construction, lifecycle
<1>1. CASE StartReturns \/ StopReturns \/ \E os \in BOOLEAN : ReceiveSignal(os)
  BY <1>1 DEF StartReturns, StopReturns, ReceiveSignal
<1>2. ASSUME NEW n \in Names, Listen(n) \/ ServerEnds(n)
      PROVE  Inv'
  BY <1>2 DEF Listen, ServerEnds
<1> QED
  BY <1>1, <1>2

THEOREM Invariance == Spec => []Inv
<1>1. Inv /\ [Next]_vars => Inv'
  <2>1. ASSUME Inv, Next
        PROVE  Inv'
    BY <2>1, ConstructionInv, ProvideServersInv, StartHookInv, StopHookInv, RunningInv
    DEF Next, Run
  <2>2. ASSUME Inv, UNCHANGED vars
        PROVE  Inv'
    BY <2>2 DEF vars, construction, lifecycle, Inv, Typed, ConfigurationChecked,
       NothingBefore, CheckerFirst, RunsByHook, Constructed, ServersBundled
  <2> QED
    BY <2>1, <2>2
<1> QED
  BY InitInv, <1>1, PTL DEF Spec

\* Requests are only served while the Groups are kept up to date, but by a
\* server that was shut down before it listened.
THEOREM Checked == Spec => []ServesOnlyWhileChecked
<1>1. Inv => ServesOnlyWhileChecked
  <2> SUFFICES ASSUME Inv, NEW n \in Names, serving[n] = "up", n \notin early
               PROVE  checking
    BY DEF ServesOnlyWhileChecked
  <2>1. Constructed
    BY DEF Inv, NothingBefore
  <2>2. PICK i \in 2 .. started : hooks[i] = n
    BY DEF Inv, RunsByHook
  <2> QED
    BY <2>1, <2>2 DEF Inv, Typed, RunsByHook
<1> QED
  BY <1>1, Invariance, PTL

\* A shutdown leaves no server listening, with the same exception.
THEOREM Shutdown == Spec => []ShutdownLeavesNoServer
<1>1. Inv => ShutdownLeavesNoServer
  BY DEF Inv, Typed, RunsByHook, ShutdownLeavesNoServer
<1> QED
  BY <1>1, Invariance, PTL

\* A configuration that cannot be used as it is never leads to a program that
\* serves.
THEOREM Unusable == Spec => []UnusableNeverServes
<1> DEFINE file == IF input.cl.named THEN input.cl.confFile ELSE input.searched
<1>1. ASSUME Inv, Constructed, file = Missing => input.cl.named
      PROVE  /\ file.exists /\ file.yaml /\ file.exact
             /\ file.dns.zone.jitter \in 0 .. One - 1
             /\ NewBundle(file) # {}
  <2>1. main \in NewViper(input.cl, input.searched)
    BY <1>1 DEF Inv, ConfigurationChecked, Constructed
  <2>2. main = file /\ file.exists /\ file.yaml
    BY <1>1, <2>1 DEF NewViper
  <2>3. file.exact
    BY <1>1, <2>2 DEF Inv, ConfigurationChecked, Constructed, Unmarshals
  <2> QED
    BY <1>1, <2>2, <2>3 DEF Inv, ConfigurationChecked
<1>2. ASSUME NewBundle(file) # {}
      PROVE  /\ \A n \in DOMAIN file.dns.udp :
                  /\ n \notin DOMAIN file.dns.tcp
                  /\ file.dns.udp[n].network \in {"", "udp", "udp4", "udp6"}
             /\ \A n \in DOMAIN file.dns.tcp :
                  file.dns.tcp[n].network \in {"", "tcp", "tcp4", "tcp6"}
  <2> DEFINE dns == file.dns
             created(n) ==
               (IF n \in DOMAIN dns.udp THEN NewServer(dns.udp[n], "udp") ELSE {})
               \union (IF n \in DOMAIN dns.tcp THEN NewServer(dns.tcp[n], "tcp") ELSE {})
  <2> HIDE DEF file
  <2>1. Duplicates(dns) = {} /\ \A n \in ServerNames(file) : created(n) # {}
    BY <1>2 DEF NewBundle
  <2>2. \A cfg : NewServer(cfg, "udp") # {} => cfg.network \in {"", "udp", "udp4", "udp6"}
    BY DEF NewServer, Networks
  <2>3. \A cfg : NewServer(cfg, "tcp") # {} => cfg.network \in {"", "tcp", "tcp4", "tcp6"}
    BY DEF NewServer, Networks
  <2> QED
    BY <2>1, <2>2, <2>3 DEF Duplicates, ServerNames
<1>3. Inv => UnusableNeverServes
  <2> HIDE DEF file
  <2>1. ASSUME Inv, ~Constructed
        PROVE  \A n \in Names : serving[n] = "none"
    BY <2>1 DEF Inv, NothingBefore
  <2> QED
    BY <1>1, <1>2, <2>1 DEF UnusableNeverServes, file
<1> QED
  BY <1>3, Invariance, PTL

\* When the app runs, each configured server was started, by a hook of its own,
\* and its handler logs for it.
THEOREM ServersOnce == Spec => []EachServerOnce
<1>1. Inv => EachServerOnce
  <2> SUFFICES ASSUME Inv, app = "running"
               PROVE  /\ Len(hooks) = Cardinality(ServerNames(main)) + 1
                      /\ \A n \in ServerNames(main) : serving[n] # "none" /\ bundle[n].handler = n
    BY DEF EachServerOnce
  <2> QED
    BY DEF Inv, ServersBundled, Constructed
<1> QED
  BY <1>1, Invariance, PTL

(***************************************************************************)
(* The TTL jitter.                                                         *)
(***************************************************************************)

\* The powers of two: positive, and a sum of exponents is a product.
LEMMA Powers ==
  /\ \A i \in 0 .. 3 * Width + 1 : 2 ^ i \in Nat \ {0}
  /\ \A i, j \in 0 .. 3 * Width + 1 : i + j <= 3 * Width + 1 => 2 ^ (i + j) = 2 ^ i * 2 ^ j
<1> DEFINE M == 3 * Width + 1
           f == [i \in 0 .. M |-> 2 ^ i]
           Positive(n) == n <= M => f[n] \in Nat \ {0}
           Adds(n) == \A j \in 0 .. M : n + j <= M => f[n + j] = f[n] * f[j]
<1>1. M \in Nat /\ M - 1 = 3 * Width
  BY JitterAssumption
<1>2. f[0] = 1 /\ \A i \in 0 .. M - 1 : f[i + 1] = 2 * f[i]
  <2>1. \A i \in 0 .. M - 1 : 2 ^ (i + 1) = 2 * 2 ^ i
    BY <1>1, PowerAssumption, Zenon
  <2>2. 0 \in 0 .. M /\ \A i \in 0 .. M - 1 : i \in 0 .. M /\ i + 1 \in 0 .. M
    BY <1>1
  <2>3. \A i \in 0 .. M : f[i] = 2 ^ i
    OBVIOUS
  <2> HIDE DEF f, M
  <2> QED
    BY <2>1, <2>2, <2>3, PowerAssumption
<1>3. \A i \in 0 .. M : f[i] = 2 ^ i
  OBVIOUS
<1>4. f = [i \in 0 .. M |-> f[i]]
  OBVIOUS
<1> HIDE DEF f, M
<1>5. \A n \in Nat : Positive(n)
  <2> DEFINE P == {n \in Nat : Positive(n)}
  <2>1. Positive(0)
    BY <1>1, <1>2
  <2>2. ASSUME NEW n \in Nat, Positive(n)
        PROVE  Positive(n + 1)
    BY <1>1, <1>2, <2>2
  <2> HIDE DEF Positive
  <2>3. P = Nat
    <3>1. 0 \in P /\ \A n \in P : n + 1 \in P
      BY <2>1, <2>2
    <3> QED
      BY <3>1, Induction
  <2> QED
    BY <2>3
<1>6. \A n \in Nat : Adds(n)
  <2> DEFINE P == {n \in Nat : Adds(n)}
  <2>1. Adds(0)
    BY <1>1, <1>2, <1>5
  <2>2. ASSUME NEW n \in Nat, Adds(n)
        PROVE  Adds(n + 1)
    <3> SUFFICES ASSUME NEW j \in 0 .. M, n + 1 + j <= M
                 PROVE  f[n + 1 + j] = f[n + 1] * f[j]
      OBVIOUS
    <3>1. n + j \in 0 .. M - 1 /\ n \in 0 .. M - 1
      BY <1>1
    <3>2. f[n + 1 + j] = 2 * f[n + j] /\ f[n + 1] = 2 * f[n] /\ f[n + j] = f[n] * f[j]
      BY <1>1, <1>2, <2>2, <3>1
    <3>3. f[n] \in Nat /\ f[j] \in Nat
      BY <1>1, <1>5, <3>1
    <3> QED
      BY <3>2, <3>3
  <2> HIDE DEF Adds
  <2>3. P = Nat
    <3>1. 0 \in P /\ \A n \in P : n + 1 \in P
      BY <2>1, <2>2
    <3> QED
      BY <3>1, Induction
  <2> QED
    BY <2>3
<1>7. \A i \in 0 .. M : 2 ^ i \in Nat \ {0}
  BY <1>1, <1>3, <1>5
<1>8. ASSUME NEW i \in 0 .. M, NEW j \in 0 .. M, i + j <= M
      PROVE  2 ^ (i + j) = 2 ^ i * 2 ^ j
  <2>1. i \in Nat /\ i + j \in 0 .. M
    BY <1>1, <1>8
  <2>2. f[i + j] = f[i] * f[j]
    BY <1>6, <1>8, <2>1
  <2>3. f[i + j] = 2 ^ (i + j) /\ f[i] = 2 ^ i /\ f[j] = 2 ^ j
    BY <1>3, <2>1
  <2> QED
    BY <2>2, <2>3, Zenon
<1> QED
  BY <1>7, <1>8, Zenon DEF M

\* Of two different powers of two one is at least twice the other.
LEMMA PowersOrdered ==
  ASSUME NEW i \in 0 .. 3 * Width + 1, NEW j \in 0 .. 3 * Width + 1, i < j
  PROVE  2 * 2 ^ i <= 2 ^ j
<1>1. /\ Width \in Nat /\ i + 1 \in 0 .. 3 * Width + 1 /\ j - i - 1 \in 0 .. 3 * Width + 1
      /\ (i + 1) + (j - i - 1) = j /\ i \in 0 .. 3 * Width
  BY JitterAssumption
<1>2. 2 ^ j = 2 ^ (i + 1) * 2 ^ (j - i - 1)
  <2> DEFINE a == i + 1
             b == j - i - 1
  <2>1. a + b = j /\ a \in 0 .. 3 * Width + 1 /\ b \in 0 .. 3 * Width + 1
    BY <1>1
  <2>2. j <= 3 * Width + 1
    BY <1>1
  <2> HIDE DEF a, b
  <2>3. 2 ^ (a + b) = 2 ^ a * 2 ^ b
    BY <2>1, <2>2, Powers
  <2> QED
    BY <2>1, <2>3 DEF a, b
<1>3. 2 ^ (i + 1) = 2 * 2 ^ i
  BY <1>1, PowerAssumption
<1> DEFINE x == 2 ^ i
           y == 2 ^ (j - i - 1)
<1>4. x \in Nat \ {0} /\ y \in Nat \ {0}
  BY <1>1, Powers
<1>5. 2 ^ j = 2 * x * y
  BY <1>2, <1>3
<1> HIDE DEF x, y
<1>6. 2 * x <= 2 * x * y
  BY <1>4
<1> QED
  BY <1>5, <1>6 DEF x

\* The mantissa's range.
LEMMA Mantissa ==
  /\ 2 ^ Precision \in Nat /\ 2 ^ (Precision - 1) \in Nat \ {0}
  /\ 2 ^ Precision = 2 * 2 ^ (Precision - 1)
<1> DEFINE p == Precision - 1
<1>1. p \in 0 .. 3 * Width /\ p + 1 = Precision
  BY JitterAssumption
<1> HIDE DEF p
<1>2. 2 ^ (p + 1) = 2 * 2 ^ p
  BY <1>1, PowerAssumption
<1>3. 2 ^ Precision = 2 * 2 ^ p
  BY <1>1, <1>2, Zenon
<1>4. 2 ^ p \in Nat \ {0}
  BY <1>1, JitterAssumption, Powers
<1> QED
  BY <1>3, <1>4 DEF p

\* A number that is too long for the mantissa has a unit in which it is not.
LEMMA UnitFits ==
  ASSUME NEW n \in Nat, 2 ^ Precision <= n, n < 2 ^ (2 * Width)
  PROVE  \E i \in 1 .. 2 * Width :
           /\ Unit(n) = 2 ^ i
           /\ 2 ^ (Precision - 1) * 2 ^ i <= n
           /\ n < 2 ^ Precision * 2 ^ i
<1> DEFINE S == 2 ^ Precision
           H == 2 ^ (Precision - 1)
           f == [i \in 0 .. 3 * Width + 1 |-> 2 ^ i]
           T == {i \in 0 .. 2 * Width : n < S * f[i]}
<1>1. S \in Nat \ {0} /\ H \in Nat \ {0} /\ S = 2 * H /\ Width \in Nat \ {0} /\ 2 * Width \in Nat
  BY Mantissa, JitterAssumption
<1>2. \A i \in 0 .. 3 * Width + 1 : f[i] = 2 ^ i /\ f[i] \in Nat \ {0}
  BY Powers
<1>3. f[0] = 1 /\ n < f[2 * Width] /\ \A i \in 0 .. 2 * Width - 1 : f[i + 1] = 2 * f[i]
  <2>1. 0 \in 0 .. 3 * Width + 1 /\ 2 * Width \in 0 .. 3 * Width + 1
    BY <1>1
  <2>2. \A i \in 0 .. 2 * Width - 1 :
          i \in 0 .. 3 * Width /\ i \in 0 .. 3 * Width + 1 /\ i + 1 \in 0 .. 3 * Width + 1
    BY <1>1
  <2> HIDE DEF f
  <2> QED
    BY <1>2, <2>1, <2>2, PowerAssumption
<1> HIDE DEF f, S, H
<1>4. PICK k \in T : \A m \in T : k <= m
  <2>1. f[2 * Width] \in Nat \ {0} /\ n < S * f[2 * Width]
    <3>1. f[2 * Width] \in Nat \ {0}
      BY <1>1, <1>2
    <3> QED
      BY <1>1, <1>3, <3>1
  <2>2. 2 * Width \in T /\ T \in SUBSET Nat
    BY <1>1, <2>1
  <2> QED
    BY <2>2, LeastElement
<1>5. k \in 1 .. 2 * Width /\ n < S * f[k]
  <2>1. 0 \notin T
    BY <1>1, <1>3 DEF S
  <2> QED
    BY <1>1, <1>4, <2>1
<1>6. H * f[k] <= n
  <2>1. k - 1 \in 0 .. 2 * Width - 1 /\ k - 1 \notin T /\ (k - 1) + 1 = k
    BY <1>1, <1>4, <1>5
  <2>2. f[k] = 2 * f[k - 1] /\ f[k - 1] \in Nat \ {0}
    BY <1>1, <1>2, <1>3, <2>1
  <2>3. S * f[k - 1] <= n
    BY <1>1, <2>1, <2>2
  <2> QED
    BY <1>1, <2>2, <2>3
<1> DEFINE U == {2 ^ i : i \in 1 .. 2 * Width}
<1>7. \A i \in 1 .. 2 * Width : 2 ^ i = f[i] /\ f[i] \in Nat \ {0}
  BY <1>1, <1>2
<1>8. f[k] \in U /\ n \div f[k] \in H .. S - 1
  <2>1. f[k] \in U
    BY <1>5, <1>7
  <2>2. f[k] \in Nat \ {0}
    BY <1>5, <1>7
  <2> HIDE DEF U
  <2> DEFINE u == f[k]
  <2>3. u \in Nat \ {0} /\ H * u <= n /\ n < S * u
    BY <1>5, <1>6, <2>2
  <2> HIDE DEF u
  <2>4. n \div u \in H .. S - 1
    BY <1>1, <2>3, QuotientRange
  <2> QED
    BY <2>1, <2>4 DEF u
<1>9. Unit(n) \in U /\ n \div Unit(n) \in H .. S - 1
  <2> HIDE DEF U
  <2>1. \E u \in U : n \div u \in H .. S - 1
    BY <1>8
  <2>2. Unit(n) = CHOOSE u \in U : n \div u \in H .. S - 1
    BY DEF Unit, U, H, S
  <2> HIDE DEF T
  <2> QED
    BY <2>1, <2>2, Zenon
<1>10. PICK i \in 1 .. 2 * Width : Unit(n) = 2 ^ i
  BY <1>9
<1>11. f[i] = 2 ^ i /\ f[i] \in Nat \ {0} /\ n \div f[i] \in H .. S - 1
  <2>1. f[i] = 2 ^ i /\ f[i] \in Nat \ {0}
    BY <1>7
  <2> QED
    BY <1>9, <1>10, <2>1, Zenon
<1>12. H * f[i] <= n /\ n < S * f[i]
  <2> DEFINE u == f[i]
  <2>1. u \in Nat \ {0} /\ n \div u \in H .. S - 1
    BY <1>11
  <2> HIDE DEF u
  <2>2. H * u <= n /\ n < S * u
    BY <1>1, <2>1, QuotientRange
  <2> QED
    BY <2>2 DEF u
<1> QED
  BY <1>10, <1>11, <1>12 DEF S, H

\* Rounding to a unit changes a number by half of it at most, and keeps the
\* order.
LEMMA NearestUnit ==
  ASSUME NEW n \in Nat, NEW u \in Nat \ {0}
  PROVE  /\ Nearest(n, u) \in Nat
         /\ n \div u <= Nearest(n, u) /\ Nearest(n, u) <= n \div u + 1
         /\ 2 * (u * Nearest(n, u)) <= 2 * n + u
         /\ 2 * n <= 2 * (u * Nearest(n, u)) + u
<1> DEFINE q == n \div u
           r == n % u
<1>1. q \in Nat /\ r \in 0 .. u - 1 /\ n = u * q + r
  BY Remainder
<1>2. Nearest(n, u) = IF 2 * r > u \/ (2 * r = u /\ q % 2 = 1) THEN q + 1 ELSE q
  BY DEF Nearest
<1> HIDE DEF q, r
<1>3. u * (q + 1) = u * q + u
  BY <1>1
<1>4. CASE Nearest(n, u) = q + 1 /\ 2 * r >= u
  BY <1>1, <1>3, <1>4 DEF q
<1>5. CASE Nearest(n, u) = q /\ 2 * r <= u
  BY <1>1, <1>3, <1>5 DEF q
<1> QED
  BY <1>1, <1>2, <1>4, <1>5

LEMMA NearestMonotone ==
  ASSUME NEW a \in Nat, NEW b \in Nat, a <= b, NEW u \in Nat \ {0}
  PROVE  Nearest(a, u) <= Nearest(b, u)
<1> DEFINE qa == a \div u
           ra == a % u
           qb == b \div u
           rb == b % u
<1>1. /\ qa \in Nat /\ ra \in 0 .. u - 1 /\ a = u * qa + ra
      /\ qb \in Nat /\ rb \in 0 .. u - 1 /\ b = u * qb + rb
  BY Remainder
<1>2. /\ Nearest(a, u) = IF 2 * ra > u \/ (2 * ra = u /\ qa % 2 = 1) THEN qa + 1 ELSE qa
      /\ Nearest(b, u) = IF 2 * rb > u \/ (2 * rb = u /\ qb % 2 = 1) THEN qb + 1 ELSE qb
  BY DEF Nearest
<1> HIDE DEF qa, ra, qb, rb
<1>3. qa <= qb
  <2> SUFFICES ASSUME qb + 1 <= qa
               PROVE  FALSE
    BY <1>1
  <2>1. u * (qb + 1) <= u * qa /\ u * (qb + 1) = u * qb + u
    BY <1>1
  <2> QED
    BY <1>1, <2>1
<1>4. CASE qa = qb
  <2>1. ra <= rb
    BY <1>1, <1>4
  <2> QED
    BY <1>1, <1>2, <1>4, <2>1
<1>5. CASE qa + 1 <= qb
  BY <1>1, <1>2, <1>5
<1> QED
  BY <1>1, <1>3, <1>4, <1>5

\* A float is off by one part in 2 ^ Precision at most.
LEMMA FloatNear ==
  ASSUME NEW n \in Nat, n < 2 ^ (2 * Width)
  PROVE  /\ Float(n) \in Nat
         /\ (2 ^ Precision - 1) * n <= 2 ^ Precision * Float(n)
         /\ 2 ^ Precision * Float(n) <= (2 ^ Precision + 1) * n
<1> DEFINE S == 2 ^ Precision
           H == 2 ^ (Precision - 1)
<1>1. S \in Nat /\ H \in Nat \ {0} /\ S = 2 * H
  BY Mantissa
<1>2. CASE n < S
  <2>1. Float(n) = n
    BY <1>2 DEF Float
  <2> HIDE DEF S
  <2>2. (S - 1) * n = S * n - n /\ (S + 1) * n = S * n + n
    BY <1>1
  <2>3. S * n \in Nat
    BY <1>1
  <2> QED
    BY <2>1, <2>2, <2>3 DEF S
<1>3. CASE ~(n < S)
  <2>1. PICK i \in 1 .. 2 * Width :
          Unit(n) = 2 ^ i /\ H * 2 ^ i <= n /\ n < S * 2 ^ i
    BY <1>1, <1>3, UnitFits
  <2> DEFINE u == Unit(n)
             m == Nearest(n, u)
  <2>2. u \in Nat \ {0}
    <3>1. i \in 0 .. 3 * Width + 1
      BY JitterAssumption
    <3> QED
      BY <2>1, <3>1, Powers
  <2>3. H * u <= n
    BY <2>1
  <2>4. Float(n) = u * m
    BY <1>3 DEF Float
  <2> HIDE DEF u
  <2>5. m \in Nat /\ 2 * (u * m) <= 2 * n + u /\ 2 * n <= 2 * (u * m) + u
    BY <2>2, NearestUnit
  <2> HIDE DEF m, S, H
  <2> DEFINE v == u * m
  <2>6. v \in Nat /\ 2 * v <= 2 * n + u /\ 2 * n <= 2 * v + u
    BY <2>2, <2>5
  <2> HIDE DEF v
  <2>7. S * v <= S * n + n /\ S * n <= S * v + n
    <3>1. H * (2 * v) <= H * (2 * n + u) /\ H * (2 * n) <= H * (2 * v + u)
      BY <1>1, <2>2, <2>6
    <3>2. /\ H * (2 * v) = S * v /\ H * (2 * n) = S * n
          /\ H * (2 * n + u) = S * n + H * u /\ H * (2 * v + u) = S * v + H * u
      BY <1>1, <2>2, <2>6
    <3>3. S * v \in Nat /\ S * n \in Nat /\ H * u \in Nat
      BY <1>1, <2>2, <2>6
    <3> QED
      BY <2>3, <3>1, <3>2, <3>3
  <2>8. (S - 1) * n = S * n - n /\ (S + 1) * n = S * n + n
    BY <1>1
  <2>9. S * v \in Nat /\ S * n \in Nat /\ Float(n) = v
    BY <1>1, <2>4, <2>6 DEF v
  <2> QED
    BY <2>6, <2>7, <2>8, <2>9 DEF S
<1> QED
  BY <1>2, <1>3

\* A float that is not exact has a mantissa of its unit.
LEMMA FloatInUnits ==
  ASSUME NEW n \in Nat, 2 ^ Precision <= n, n < 2 ^ (2 * Width)
  PROVE  \E i \in 1 .. 2 * Width :
           /\ Float(n) = 2 ^ i * Nearest(n, 2 ^ i)
           /\ 2 ^ i \in Nat \ {0} /\ 2 <= 2 ^ i
           /\ 2 ^ (Precision - 1) * 2 ^ i <= n /\ n < 2 ^ Precision * 2 ^ i
           /\ 2 ^ (Precision - 1) * 2 ^ i <= Float(n) /\ Float(n) <= 2 ^ Precision * 2 ^ i
<1> DEFINE S == 2 ^ Precision
           H == 2 ^ (Precision - 1)
<1>1. S \in Nat /\ H \in Nat \ {0} /\ S = 2 * H
  BY Mantissa
<1>2. PICK i \in 1 .. 2 * Width : Unit(n) = 2 ^ i /\ H * 2 ^ i <= n /\ n < S * 2 ^ i
  BY <1>1, UnitFits
<1>3. 2 ^ i \in Nat \ {0} /\ 2 <= 2 ^ i
  <2>1. i \in 0 .. 3 * Width + 1 /\ 0 \in 0 .. 3 * Width + 1 /\ 0 < i
    BY JitterAssumption
  <2>2. 2 * 2 ^ 0 <= 2 ^ i
    BY <2>1, PowersOrdered
  <2>3. 2 ^ i \in Nat \ {0}
    BY <2>1, Powers
  <2> QED
    BY <2>2, <2>3, PowerAssumption
<1> DEFINE u == 2 ^ i
           m == Nearest(n, u)
<1>4. Float(n) = u * m
  BY <1>1, <1>2 DEF Float
<1>5. u \in Nat \ {0} /\ 2 <= u /\ H * u <= n /\ n < S * u
  BY <1>2, <1>3
<1> HIDE DEF u
<1>6. n \div u \in H .. S - 1
  BY <1>1, <1>5, QuotientRange
<1>7. m \in Nat /\ n \div u <= m /\ m <= n \div u + 1 /\ n \div u \in Nat
  BY <1>5, <1>6, NearestUnit, Remainder
<1> HIDE DEF m, S, H
<1>8. m \in H .. S
  BY <1>1, <1>6, <1>7
<1>9. H * u <= u * m /\ u * m <= S * u
  BY <1>1, <1>5, <1>8
<1> QED
  BY <1>4, <1>5, <1>9 DEF u, m, S, H

\* Rounding keeps the order.
LEMMA FloatMonotone ==
  ASSUME NEW a \in Nat, NEW b \in Nat, a <= b, b < 2 ^ (2 * Width)
  PROVE  Float(a) <= Float(b)
<1> DEFINE S == 2 ^ Precision
           H == 2 ^ (Precision - 1)
<1>1. S \in Nat /\ H \in Nat \ {0} /\ S = 2 * H
  BY Mantissa
<1>2. a < 2 ^ (2 * Width)
  <2>1. 2 * Width \in 0 .. 3 * Width + 1
    BY JitterAssumption
  <2>2. 2 ^ (2 * Width) \in Nat
    BY <2>1, Powers
  <2> QED
    BY <2>2
<1>3. CASE b < S
  BY <1>1, <1>3 DEF Float
<1>4. CASE S <= b
  <2>1. PICK j \in 1 .. 2 * Width :
          /\ Float(b) = 2 ^ j * Nearest(b, 2 ^ j)
          /\ 2 ^ j \in Nat \ {0} /\ 2 <= 2 ^ j
          /\ H * 2 ^ j <= b /\ b < S * 2 ^ j
          /\ H * 2 ^ j <= Float(b) /\ Float(b) <= S * 2 ^ j
    BY <1>4, FloatInUnits
  <2>2. Float(b) \in Nat
    BY FloatNear
  <2>3. CASE a < S
    <3>1. Float(a) = a
      BY <2>3 DEF Float
    <3> DEFINE w == 2 ^ j
    <3>2. w \in Nat \ {0} /\ 2 <= w /\ H * w <= Float(b)
      BY <2>1
    <3> HIDE DEF w, S, H
    <3>3. H * 2 <= H * w /\ H * w \in Nat
      BY <1>1, <3>2
    <3> QED
      BY <1>1, <2>2, <2>3, <3>1, <3>2, <3>3
  <2>4. CASE S <= a
    <3>1. PICK i \in 1 .. 2 * Width :
            /\ Float(a) = 2 ^ i * Nearest(a, 2 ^ i)
            /\ 2 ^ i \in Nat \ {0} /\ 2 <= 2 ^ i
            /\ H * 2 ^ i <= a /\ a < S * 2 ^ i
            /\ H * 2 ^ i <= Float(a) /\ Float(a) <= S * 2 ^ i
      BY <1>2, <2>4, FloatInUnits
    <3>2. Float(a) \in Nat
      BY <1>2, FloatNear
    <3>3. i \in 0 .. 3 * Width + 1 /\ j \in 0 .. 3 * Width + 1
      BY JitterAssumption
    <3>4. (i < j => 2 * 2 ^ i <= 2 ^ j) /\ (j < i => 2 * 2 ^ j <= 2 ^ i)
      BY <3>3, PowersOrdered
    <3> DEFINE v == 2 ^ i
               w == 2 ^ j
    <3>5. /\ v \in Nat \ {0} /\ w \in Nat \ {0}
          /\ Float(a) <= S * v /\ H * v <= a /\ H * w <= Float(b) /\ b < S * w
          /\ (i < j => 2 * v <= w) /\ (j < i => 2 * w <= v)
      BY <2>1, <3>1, <3>4
    <3>6. CASE i = j
      <4>1. Float(a) = v * Nearest(a, v) /\ Float(b) = v * Nearest(b, v)
        BY <2>1, <3>1, <3>6
      <4> HIDE DEF v
      <4>2. /\ Nearest(a, v) \in Nat /\ Nearest(b, v) \in Nat
            /\ Nearest(a, v) <= Nearest(b, v)
        BY <3>5, NearestUnit, NearestMonotone
      <4> QED
        BY <3>5, <4>1, <4>2
    <3> HIDE DEF v, w, S, H
    <3>7. CASE i < j
      <4>1. H * (2 * v) <= H * w /\ S * v = H * (2 * v) /\ S * v \in Nat /\ H * w \in Nat
        BY <1>1, <3>5, <3>7
      <4> QED
        BY <2>2, <3>2, <3>5, <4>1
    <3>8. CASE j < i
      <4>1. H * (2 * w) <= H * v /\ S * w = H * (2 * w) /\ S * w \in Nat /\ H * v \in Nat
        BY <1>1, <3>5, <3>8
      <4> QED
        BY <3>5, <4>1
    <3> QED
      BY <3>3, <3>6, <3>7, <3>8
  <2> QED
    BY <1>1, <2>3, <2>4
<1> QED
  BY <1>1, <1>3, <1>4

\* A power of two is a float.
LEMMA FloatOfPower ==
  ASSUME NEW k \in 0 .. 2 * Width - 1
  PROVE  Float(2 ^ k) = 2 ^ k
<1> DEFINE n == 2 ^ k
           S == 2 ^ Precision
           H == 2 ^ (Precision - 1)
<1>1. S \in Nat /\ H \in Nat \ {0} /\ S = 2 * H
  BY Mantissa
<1>2. n \in Nat \ {0} /\ n < 2 ^ (2 * Width)
  <2>1. k \in 0 .. 3 * Width + 1 /\ 2 * Width \in 0 .. 3 * Width + 1 /\ k < 2 * Width
    BY JitterAssumption
  <2>2. n \in Nat \ {0} /\ 2 ^ (2 * Width) \in Nat
    BY <2>1, Powers
  <2>3. 2 * n <= 2 ^ (2 * Width)
    BY <2>1, PowersOrdered
  <2> HIDE DEF n
  <2> QED
    BY <2>2, <2>3
<1>3. CASE n < S
  BY <1>3 DEF Float
<1>4. CASE S <= n
  <2> HIDE DEF n
  <2>1. PICK i \in 1 .. 2 * Width :
          /\ Float(n) = 2 ^ i * Nearest(n, 2 ^ i)
          /\ 2 ^ i \in Nat \ {0} /\ 2 <= 2 ^ i
          /\ H * 2 ^ i <= n /\ n < S * 2 ^ i
          /\ H * 2 ^ i <= Float(n) /\ Float(n) <= S * 2 ^ i
    BY <1>2, <1>4, FloatInUnits
  <2> DEFINE p == Precision - 1
             e == p + i
             u == 2 ^ i
  <2>2. /\ p \in 0 .. 3 * Width + 1 /\ i \in 0 .. 3 * Width + 1 /\ e <= 3 * Width + 1
        /\ e \in 0 .. 3 * Width + 1 /\ k \in 0 .. 3 * Width + 1
    BY JitterAssumption
  <2>3. 2 ^ e = H * u
    <3> HIDE DEF p
    <3>1. 2 ^ (p + i) = 2 ^ p * 2 ^ i
      BY <2>2, Powers
    <3> QED
      BY <3>1 DEF p
  <2>4. (e < k => 2 * 2 ^ e <= n) /\ (k < e => 2 * n <= 2 ^ e)
    <3> HIDE DEF e
    <3> QED
      BY <2>2, PowersOrdered DEF n
  <2>5. u \in Nat \ {0} /\ H * u <= n /\ n < S * u
    BY <2>1
  <2>6. 2 ^ e \in Nat \ {0} /\ S * u = 2 * (H * u)
    <3> HIDE DEF S, H, u, e
    <3> QED
      BY <1>1, <2>2, <2>5, Powers
  <2>7. e = k
    <3> HIDE DEF e, u, S, H
    <3> QED
      BY <1>1, <1>2, <2>2, <2>3, <2>4, <2>5, <2>6
  <2>8. n = H * u
    <3> HIDE DEF u, H
    <3>1. n = 2 ^ e
      BY <2>7 DEF n
    <3> QED
      BY <2>3, <3>1
  <2> DEFINE m == Nearest(n, u)
  <2>9. Float(n) = u * m
    BY <2>1
  <2> HIDE DEF u
  <2>10. m \in Nat /\ 2 * (u * m) <= 2 * n + u /\ 2 * n <= 2 * (u * m) + u
    BY <1>2, <2>5, NearestUnit
  <2>11. m = H
    <3> HIDE DEF m, H
    <3>1. CASE m >= H + 1
      <4>1. u * (H + 1) <= u * m /\ u * (H + 1) = H * u + u
        BY <1>1, <2>5, <2>10, <3>1
      <4> QED
        BY <1>1, <1>2, <2>5, <2>8, <2>10, <4>1
    <3>2. CASE m + 1 <= H
      <4>1. u * (m + 1) <= u * H /\ u * (m + 1) = u * m + u /\ u * H = H * u
        BY <1>1, <2>5, <2>10, <3>2
      <4> QED
        BY <1>1, <1>2, <2>5, <2>8, <2>10, <4>1
    <3> QED
      BY <1>1, <2>10, <3>1, <3>2
  <2>12. Float(n) = n
    <3> HIDE DEF m, H
    <3> QED
      BY <1>1, <2>5, <2>8, <2>9, <2>11
  <2> QED
    BY <2>12 DEF n
<1> QED
  BY <1>1, <1>2, <1>3, <1>4

\* Three roundings, of two factors and their product.
LEMMA ThreeRoundings ==
  ASSUME NEW x \in Nat, NEW v \in Nat,
         x < 2 ^ (2 * Width), v < 2 ^ (2 * Width),
         Float(x) * Float(v) < 2 ^ (2 * Width),
         One \in Nat \ {0}
  PROVE  Float(Float(x) * Float(v)) \div One \in Rounded(x * v)
<1> DEFINE S == 2 ^ Precision
           A == Float(x)
           B == Float(v)
           F == Float(A * B)
           l == S - 1
           g == S + 1
           Cube(k) == k * k * k
<1>1. S \in Nat \ {0} /\ l \in Nat /\ g \in Nat
  BY Mantissa
<1>2. /\ A \in Nat /\ l * x <= S * A /\ S * A <= g * x
      /\ B \in Nat /\ l * v <= S * B /\ S * B <= g * v
  BY FloatNear
<1>3. A * B \in Nat
  <2> HIDE DEF A, B
  <2> QED
    BY <1>2
<1>4. F \in Nat /\ l * (A * B) <= S * F /\ S * F <= g * (A * B)
  <2> DEFINE p == A * B
  <2>1. p \in Nat /\ p < 2 ^ (2 * Width)
    BY <1>3
  <2> HIDE DEF p
  <2>2. Float(p) \in Nat /\ l * p <= S * Float(p) /\ S * Float(p) <= g * p
    BY <2>1, FloatNear
  <2> QED
    BY <2>2 DEF p
<1> DEFINE t == F \div One
           n == x * v
           d == One * Cube(S)
<1> HIDE DEF S, A, B, F, l, g
<1>5. (l * x) * (l * v) <= (S * A) * (S * B) /\ (S * A) * (S * B) <= (g * x) * (g * v)
  BY <1>1, <1>2, ProductOrder
<1>6. n * Cube(l) <= Cube(S) * F /\ Cube(S) * F <= n * Cube(g)
  <2>1. /\ l * ((l * x) * (l * v)) <= l * ((S * A) * (S * B))
        /\ g * ((S * A) * (S * B)) <= g * ((g * x) * (g * v))
    <3> DEFINE a == (l * x) * (l * v)
               b == (S * A) * (S * B)
               c == (g * x) * (g * v)
    <3>1. a \in Nat /\ b \in Nat /\ c \in Nat /\ a <= b /\ b <= c
      BY <1>1, <1>2, <1>5
    <3> HIDE DEF a, b, c
    <3>2. l * a <= l * b /\ g * b <= g * c
      BY <1>1, <3>1, ProductOrder
    <3> QED
      BY <3>2 DEF a, b, c
  <2>2. /\ (S * S) * (l * (A * B)) <= (S * S) * (S * F)
        /\ (S * S) * (S * F) <= (S * S) * (g * (A * B))
    <3> DEFINE a == l * (A * B)
               b == S * F
               c == g * (A * B)
               s == S * S
    <3>1. a \in Nat /\ b \in Nat /\ c \in Nat /\ a <= b /\ b <= c /\ s \in Nat
      BY <1>1, <1>2, <1>3, <1>4
    <3> HIDE DEF a, b, c, s
    <3>2. s * a <= s * b /\ s * b <= s * c
      BY <3>1, ProductOrder
    <3> QED
      BY <3>2 DEF a, b, c, s
  <2>3. /\ l * ((l * x) * (l * v)) = n * Cube(l)
        /\ g * ((g * x) * (g * v)) = n * Cube(g)
    BY <1>1
  <2>4. /\ l * ((S * A) * (S * B)) = (S * S) * (l * (A * B))
        /\ g * ((S * A) * (S * B)) = (S * S) * (g * (A * B))
    BY <1>1, <1>2
  <2>5. (S * S) * (S * F) = Cube(S) * F
    BY <1>1, <1>4
  <2>6. /\ n * Cube(l) \in Nat /\ n * Cube(g) \in Nat /\ Cube(S) * F \in Nat
        /\ (S * S) * (l * (A * B)) \in Nat /\ (S * S) * (g * (A * B)) \in Nat
    BY <1>1, <1>2, <1>4
  <2> HIDE DEF n, Cube
  <2> QED
    BY <2>1, <2>2, <2>3, <2>4, <2>5, <2>6
<1>7. Cube(S) \in Nat \ {0} /\ n * Cube(l) \in Nat /\ n * Cube(g) \in Nat
  <2>1. S * S \in Nat \ {0}
    BY <1>1
  <2>2. Cube(S) \in Nat \ {0}
    BY <1>1, <2>1
  <2> QED
    BY <1>1, <2>2
<1> DEFINE c == Cube(S)
           lower == n * Cube(l)
           upper == n * Cube(g)
<1>8. c \in Nat \ {0} /\ lower \in Nat /\ upper \in Nat /\ lower <= c * F /\ c * F <= upper
  BY <1>6, <1>7
<1> HIDE DEF c, lower, upper
<1>9. t \in Nat /\ One * t <= F /\ F < One * (t + 1)
  <2> DEFINE r == F % One
  <2>1. t \in Nat /\ r \in 0 .. One - 1 /\ F = One * t + r
    BY <1>4, Remainder
  <2> HIDE DEF t, r
  <2>2. One * (t + 1) = One * t + One /\ One * t \in Nat
    BY <2>1
  <2> QED
    BY <2>1, <2>2
<1> HIDE DEF t
<1>10. lower < (One * c) * (t + 1) /\ (One * c) * t <= upper /\ One * c \in Nat \ {0}
  <2>1. c * (One * t) <= c * F /\ c * (F + 1) <= c * (One * (t + 1))
    <3> DEFINE a == One * t
               b == One * (t + 1)
    <3>1. a \in Nat /\ b \in Nat /\ a <= F /\ F + 1 <= b
      BY <1>4, <1>9
    <3> HIDE DEF a, b
    <3>2. c * a <= c * F /\ c * (F + 1) <= c * b
      BY <1>4, <1>8, <3>1, ProductOrder
    <3> QED
      BY <3>2 DEF a, b
  <2>2. c * (F + 1) = c * F + c /\ c * F \in Nat
    BY <1>4, <1>8
  <2>3. c * (One * t) = (One * c) * t /\ c * (One * (t + 1)) = (One * c) * (t + 1)
    BY <1>8, <1>9
  <2>4. One * c \in Nat \ {0}
    BY <1>8
  <2>5. (One * c) * t \in Nat /\ (One * c) * (t + 1) \in Nat
    BY <1>9, <2>4
  <2> QED
    BY <1>8, <2>1, <2>2, <2>3, <2>4, <2>5
<1>11. lower \div (One * c) <= t /\ t <= upper \div (One * c)
  <2> DEFINE u == One * c
  <2>1. u \in Nat \ {0} /\ lower < u * (t + 1) /\ u * t <= upper
    BY <1>10
  <2> HIDE DEF u
  <2>2. lower \div u <= t /\ t <= upper \div u
    BY <1>8, <1>9, <2>1, QuotientOrder
  <2> QED
    BY <2>2 DEF u
<1>12. lower \div (One * c) \in Int /\ upper \div (One * c) \in Int
  BY <1>8, <1>10, Remainder
<1>13. t \in (lower \div (One * c)) .. (upper \div (One * c))
  BY <1>9, <1>11, <1>12
<1> QED
  BY <1>13 DEF Rounded, lower, upper, c, t, n, S, l, g, F, A, B

\* A number of seconds is one that three roundings may give for its parts.
LEMMA ValueIsRounded ==
  ASSUME NEW value \in Nat, One \in Nat \ {0}
  PROVE  value \in Rounded(One * value)
<1> DEFINE S == 2 ^ Precision
           n == One * value
           Cube(k) == k * k * k
           u == One * Cube(S)
           lower == n * Cube(S - 1)
           upper == n * Cube(S + 1)
<1>1. S \in Nat \ {0} /\ n \in Nat
  BY Mantissa
<1> HIDE DEF S
<1>2. Cube(S - 1) <= Cube(S) /\ Cube(S) <= Cube(S + 1)
      /\ Cube(S - 1) \in Nat /\ Cube(S) \in Nat \ {0} /\ Cube(S + 1) \in Nat
  <2>1. \A a \in Nat, b \in Nat : a <= b => Cube(a) <= Cube(b) /\ Cube(a) \in Nat /\ Cube(b) \in Nat
    <3> SUFFICES ASSUME NEW a \in Nat, NEW b \in Nat, a <= b
                 PROVE  Cube(a) <= Cube(b) /\ Cube(a) \in Nat /\ Cube(b) \in Nat
      OBVIOUS
    <3>1. a * a <= b * b /\ a * a \in Nat /\ b * b \in Nat
      BY ProductOrder
    <3> QED
      BY <3>1, ProductOrder
  <2>2. S * S \in Nat \ {0}
    BY <1>1
  <2>3. Cube(S) # 0
    BY <1>1, <2>2
  <2>4. S - 1 \in Nat /\ S + 1 \in Nat /\ S - 1 <= S /\ S <= S + 1
    BY <1>1
  <2> HIDE DEF Cube
  <2> QED
    BY <1>1, <2>1, <2>3, <2>4
<1> DEFINE a == Cube(S - 1)
           c == Cube(S)
           g == Cube(S + 1)
<1>3. a <= c /\ c <= g /\ a \in Nat /\ c \in Nat \ {0} /\ g \in Nat
  BY <1>2
<1> HIDE DEF a, c, g, n
<1>4. n * a <= n * c /\ n * c <= n * g /\ n * a \in Nat /\ n * g \in Nat
  BY <1>1, <1>3, ProductOrder
<1>5. n * c = (One * c) * value /\ One * c \in Nat \ {0}
  BY <1>3 DEF n
<1>6. (One * c) * (value + 1) = (One * c) * value + One * c
  BY <1>5
<1>7. n * a < (One * c) * (value + 1) /\ (One * c) * value <= n * g
  <2>1. n * c \in Nat
    BY <1>1, <1>3
  <2> QED
    BY <1>4, <1>5, <1>6, <2>1
<1> DEFINE d == One * c
           l == n * a
           h == n * g
<1>8. d \in Nat \ {0} /\ l \in Nat /\ h \in Nat /\ l < d * (value + 1) /\ d * value <= h
  BY <1>4, <1>5, <1>7
<1> HIDE DEF d, l, h
<1>9. l \div d <= value /\ value <= h \div d /\ l \div d \in Nat /\ h \div d \in Nat
  BY <1>8, QuotientOrder, Remainder
<1>10. value \in (l \div d) .. (h \div d)
  BY <1>9
<1> QED
  BY <1>10 DEF Rounded, d, l, h, a, c, g, n, S

\* A jitterer with these ends, when no unsigned operation wraps around.
LEMMA Unwrapped ==
  ASSUME NEW lo \in Nat, NEW hi \in Nat, lo <= hi, hi < Limit, hi - lo + 1 < Limit,
         NEW j, j = [base |-> lo, choose |-> (hi - lo + 1) % Limit]
  PROVE  Lowest(j) = lo /\ Highest(j) = hi /\ TTLs(j) = lo .. hi
<1>1. Limit \in Nat \ {0}
  <2>1. Width \in 0 .. 3 * Width + 1
    BY JitterAssumption
  <2> QED
    BY <2>1, Powers DEF Limit
<1>2. \A n \in 0 .. Limit - 1 : n % Limit = n
  BY <1>1
<1>3. hi - lo + 1 \in 1 .. Limit - 1
  BY <1>1
<1>4. j.base = lo /\ j.choose = hi - lo + 1 /\ j.choose # 0 /\ j.choose - 1 = hi - lo
  BY <1>2, <1>3
<1>5. TTLs(j) = {(lo + r) % Limit : r \in 0 .. hi - lo}
  BY <1>4 DEF TTLs
<1>6. Lowest(j) = lo /\ Highest(j) = hi
  <2>1. lo + (hi - lo + 1) - 1 = hi /\ hi \in 0 .. Limit - 1
    BY <1>1
  <2> QED
    BY <1>2, <1>4, <2>1 DEF Lowest, Highest
<1>7. \A r \in 0 .. hi - lo : lo + r \in lo .. hi /\ (lo + r) % Limit = lo + r
  BY <1>1, <1>2
<1>8. \A n \in lo .. hi : n - lo \in 0 .. hi - lo /\ lo + (n - lo) = n
  OBVIOUS
<1>9. \A n \in lo .. hi : \E r \in 0 .. hi - lo : (lo + r) % Limit = n
  BY <1>7, <1>8
<1>10. {(lo + r) % Limit : r \in 0 .. hi - lo} = lo .. hi
  BY <1>7, <1>9
<1> QED
  BY <1>5, <1>6, <1>10

\* The parts of a percentage, and the numbers of seconds.
LEMMA Widths ==
  /\ Limit \in Nat /\ One \in Nat \ {0} /\ 4 * One <= Limit
  /\ 2 ^ (2 * Width) = Limit * Limit /\ 2 ^ Precision \in 2 .. Limit
  /\ Float(1) = 1 /\ Float(One) = One /\ Float(2 * One) = 2 * One
  /\ Float(Limit) = Limit /\ Float(2 * (One * One)) = 2 * (One * One)
<1>1. PICK e \in 0 .. Width - 2 : One = 2 ^ e
  BY JitterAssumption
<1> DEFINE M == 3 * Width + 1
           d == e + 1
           s == e + e
           h == s + 1
<1>2. /\ e \in 0 .. M /\ d \in 0 .. M /\ s \in 0 .. M /\ h \in 0 .. M /\ Width \in 0 .. M
      /\ Precision \in 0 .. M /\ Width + Width = 2 * Width /\ Width + Width <= M
      /\ 0 \in 0 .. M /\ 0 < Precision /\ e < d /\ d < Width /\ s <= M
      /\ e \in 0 .. 3 * Width /\ s \in 0 .. 3 * Width
      /\ {0, e, d, h, Width} \subseteq 0 .. 2 * Width - 1
  BY JitterAssumption
<1>3. 2 ^ d = 2 * One /\ 2 ^ s = One * One /\ 2 ^ h = 2 * (One * One)
  <2>1. 2 ^ s = 2 ^ e * 2 ^ e
    BY <1>2, Powers
  <2>2. 2 ^ d = 2 * 2 ^ e
    BY <1>2, PowerAssumption
  <2>3. 2 ^ h = 2 * 2 ^ s
    <3> HIDE DEF s
    <3> QED
      BY <1>2, PowerAssumption
  <2> QED
    BY <1>1, <2>1, <2>2, <2>3
<1> HIDE DEF d, s, h
<1>4. Limit \in Nat /\ One \in Nat \ {0}
  BY <1>1, <1>2, Powers DEF Limit
<1>5. 4 * One <= Limit
  <2>1. 2 * 2 ^ d <= 2 ^ Width
    BY <1>2, PowersOrdered
  <2> QED
    BY <1>3, <1>4, <2>1 DEF Limit
<1>6. 2 ^ (2 * Width) = Limit * Limit
  <2>1. 2 ^ (Width + Width) = 2 ^ Width * 2 ^ Width
    BY <1>2, Powers
  <2>2. 2 ^ (Width + Width) = 2 ^ (2 * Width)
    BY <1>2, Zenon
  <2> QED
    BY <2>1, <2>2, Zenon DEF Limit
<1>7. 2 ^ Precision \in 2 .. Limit
  <2>1. 2 * 2 ^ 0 <= 2 ^ Precision
    BY <1>2, PowersOrdered
  <2>2. 2 ^ Precision <= Limit
    <3>1. CASE Precision = Width
      BY <1>4, <3>1 DEF Limit
    <3>2. CASE Precision < Width
      <4>1. 2 * 2 ^ Precision <= 2 ^ Width
        BY <1>2, <3>2, PowersOrdered
      <4> QED
        BY <4>1, Mantissa, <1>4 DEF Limit
    <3> QED
      BY <3>1, <3>2, JitterAssumption
  <2> QED
    BY <1>4, <2>1, <2>2, Mantissa, PowerAssumption
<1>8. /\ Float(2 ^ 0) = 2 ^ 0 /\ Float(2 ^ e) = 2 ^ e /\ Float(2 ^ d) = 2 ^ d
      /\ Float(2 ^ h) = 2 ^ h /\ Float(2 ^ Width) = 2 ^ Width
  BY <1>2, FloatOfPower
<1> QED
  BY <1>1, <1>3, <1>4, <1>5, <1>6, <1>7, <1>8, PowerAssumption DEF Limit

\* The numbers that are rounded, from the percentage's factors to the products,
\* are short enough for the exponents there are, and keep their order.
LEMMA ProductsTyped ==
  ASSUME NEW value \in 0 .. Limit - 1, NEW percent \in 0 .. One - 1
  PROVE  LET A == Float(One - percent)
             B == Float(value)
             C == Float(One + percent)
         IN /\ A \in Nat \ {0} /\ B \in Nat /\ C \in Nat /\ C <= 2 * One
            /\ A * B \in Nat /\ C * B \in Nat
            /\ A * B <= C * B /\ C * B < 2 ^ (2 * Width)
            /\ Float(A * B) \in Nat /\ Float(C * B) \in Nat
            /\ Float(A * B) <= Float(C * B)
<1> DEFINE x == One - percent
           y == One + percent
           A == Float(x)
           B == Float(value)
           C == Float(y)
           F == Float(A * B)
           G == Float(C * B)
<1>1. /\ Limit \in Nat /\ One \in Nat \ {0} /\ 4 * One <= Limit /\ value \in Nat
      /\ 2 ^ (2 * Width) = Limit * Limit /\ Limit >= 4
  BY Widths
<1>2. /\ x \in 1 .. One /\ y \in One .. 2 * One - 1 /\ x <= y
      /\ Limit < Limit * Limit /\ 2 * One < Limit * Limit
  <2>1. 4 * Limit <= Limit * Limit
    BY <1>1
  <2> QED
    BY <1>1, <2>1
<1> HIDE DEF x, y
<1>3. A \in Nat /\ B \in Nat /\ C \in Nat /\ 1 <= A /\ A <= C /\ C <= 2 * One /\ B <= Limit
  <2>1. A \in Nat /\ B \in Nat /\ C \in Nat
    BY <1>1, <1>2, FloatNear
  <2>2. Float(1) <= A /\ A <= C /\ C <= Float(2 * One) /\ B <= Float(Limit)
    BY <1>1, <1>2, FloatMonotone
  <2> HIDE DEF A, B, C
  <2> QED
    BY <2>1, <2>2, Widths
<1> HIDE DEF A, B, C
<1>4. A * B \in Nat /\ C * B \in Nat /\ A * B <= C * B /\ C * B < Limit * Limit
  <2>1. A * B <= C * B /\ C * B <= (2 * One) * Limit /\ A * B \in Nat /\ C * B \in Nat
    BY <1>1, <1>3, ProductOrder
  <2>2. (4 * One) * Limit <= Limit * Limit /\ (4 * One) * Limit = 2 * ((2 * One) * Limit)
        /\ (2 * One) * Limit \in Nat \ {0}
    BY <1>1
  <2>3. (2 * One) * Limit < Limit * Limit
    BY <1>1, <2>2
  <2> QED
    BY <1>1, <2>1, <2>3
<1>5. F \in Nat /\ G \in Nat /\ F <= G
  <2> DEFINE a == A * B
             b == C * B
  <2>1. a \in Nat /\ b \in Nat /\ a <= b /\ b < 2 ^ (2 * Width) /\ a < 2 ^ (2 * Width)
    BY <1>1, <1>4
  <2> HIDE DEF a, b
  <2>2. Float(a) \in Nat /\ Float(b) \in Nat /\ Float(a) <= Float(b)
    BY <2>1, FloatNear, FloatMonotone
  <2> QED
    BY <2>2 DEF a, b
<1> QED
  BY <1>1, <1>3, <1>4, <1>5 DEF A, B, C, x, y

\* As long as the upper end is a number of seconds, Range says which TTLs there
\* are, and its ends are those of the percentage, rounded.
THEOREM RangeWithinRounding ==
  ASSUME NEW value \in 0 .. Limit - 1, NEW percent \in 0 .. One - 1,
         Fits(value, percent), NEW j \in NewTTLJitterer(value, percent)
  PROVE  /\ TTLs(j) = Lowest(j) .. Highest(j)
         /\ Lowest(j) \in Rounded((One - percent) * value)
         /\ Highest(j) \in Rounded((One + percent) * value)
<1> DEFINE x == One - percent
           y == One + percent
           A == Float(x)
           B == Float(value)
           C == Float(y)
           F == Float(A * B)
           G == Float(C * B)
           lo == F \div One
           hi == G \div One
<1>1. /\ Limit \in Nat /\ One \in Nat \ {0} /\ 4 * One <= Limit /\ value \in Nat
      /\ 2 ^ (2 * Width) = Limit * Limit /\ Limit >= 4
  BY Widths
<1>2. /\ x \in 1 .. One /\ y \in One .. 2 * One - 1 /\ x <= y
      /\ Limit < Limit * Limit /\ 2 * One < Limit * Limit
  <2>1. 4 * Limit <= Limit * Limit
    BY <1>1
  <2> QED
    BY <1>1, <2>1
<1> HIDE DEF x, y
<1>3. A \in Nat \ {0} /\ B \in Nat /\ C \in Nat /\ C <= 2 * One
  BY <1>1, ProductsTyped, Zenon DEF x, y
<1>4. A * B \in Nat /\ C * B \in Nat /\ A * B <= C * B /\ C * B < Limit * Limit
  BY <1>1, ProductsTyped, Zenon DEF x, y
<1>5. F \in Nat /\ G \in Nat /\ F <= G
  BY <1>1, ProductsTyped, Zenon DEF x, y
<1> HIDE DEF A, B, C
<1>6. G < Limit * One
  BY DEF Fits, G, C, B, y
<1>7. /\ Float(A * B) \div One \in Rounded(x * value)
      /\ Float(C * B) \div One \in Rounded(y * value)
  <2>1. x \in Nat /\ y \in Nat /\ x < 2 ^ (2 * Width) /\ y < 2 ^ (2 * Width) /\ value < 2 ^ (2 * Width)
    BY <1>1, <1>2
  <2>2. A * B < 2 ^ (2 * Width) /\ C * B < 2 ^ (2 * Width)
    BY <1>1, <1>4
  <2> QED
    BY <1>1, <2>1, <2>2, ThreeRoundings DEF A, B, C
<1>8. lo \in Nat /\ hi \in Nat /\ lo <= hi /\ hi < Limit
  <2> HIDE DEF F, G
  <2>1. lo \in Nat /\ hi \in Nat /\ lo <= hi
    BY <1>1, <1>5, Division
  <2>2. hi <= Limit - 1
    <3>1. Limit - 1 \in Nat /\ (Limit - 1) + 1 = Limit /\ One * Limit = Limit * One
      BY <1>1
    <3>2. G < One * ((Limit - 1) + 1)
      BY <1>6, <3>1
    <3> QED
      BY <1>1, <1>5, <3>1, <3>2, QuotientOrder
  <2> HIDE DEF lo, hi
  <2> QED
    BY <1>1, <2>1, <2>2
<1>9. ASSUME lo = 0
      PROVE  hi <= 2 * One
  <2> DEFINE a == A * B
             b == C * B
             k == 2 * (One * One)
  <2>1. F < One
    <3> HIDE DEF F
    <3> SUFFICES ASSUME One * 1 <= F
                 PROVE  FALSE
      BY <1>1, <1>5
    <3>1. 1 <= lo
      BY <1>1, <1>5, QuotientOrder
    <3> QED
      BY <1>9, <3>1
  <2>2. a \in Nat /\ b \in Nat /\ b < 2 ^ (2 * Width) /\ a < 2 ^ (2 * Width) /\ F = Float(a) /\ G = Float(b)
    BY <1>1, <1>4
  <2> HIDE DEF F, G, a, b
  <2>3. a < One
    <3> SUFFICES ASSUME One <= a
                 PROVE  FALSE
      BY <1>1, <2>2
    <3>1. Float(One) <= Float(a)
      BY <1>1, <2>2, FloatMonotone
    <3> QED
      BY <1>1, <1>5, <2>1, <2>2, <3>1, Widths
  <2>4. B <= One
    <3>1. 1 * B <= a
      BY <1>3, ProductOrder DEF a
    <3> QED
      BY <1>1, <1>3, <2>2, <2>3, <3>1
  <2>5. b <= k /\ k < 2 ^ (2 * Width) /\ k \in Nat
    <3>1. b <= (2 * One) * One /\ (2 * One) * One = k
      BY <1>1, <1>3, <2>4, ProductOrder DEF b
    <3>2. (4 * One) * (4 * One) <= Limit * Limit
      <4>1. 4 * One \in Nat
        BY <1>1
      <4> QED
        BY <1>1, <4>1, ProductOrder
    <3>3. (4 * One) * (4 * One) = 16 * (One * One) /\ One * One \in Nat \ {0}
      BY <1>1
    <3>4. Limit * Limit \in Nat
      BY <1>1
    <3> QED
      BY <1>1, <3>1, <3>2, <3>3, <3>4
  <2>6. G <= k
    <3>1. Float(b) <= Float(k)
      BY <2>2, <2>5, FloatMonotone
    <3> QED
      BY <2>2, <3>1, Widths
  <2>7. G < One * (2 * One + 1)
    <3>1. One * (2 * One + 1) = k + One /\ k \in Nat
      BY <1>1
    <3> HIDE DEF k
    <3> QED
      BY <1>1, <1>5, <2>6, <3>1
  <2>8. 2 * One \in Nat
    BY <1>1
  <2> DEFINE t == 2 * One
  <2>9. t \in Nat /\ G < One * (t + 1)
    BY <2>7, <2>8
  <2> HIDE DEF t, k
  <2>10. G \div One <= t
    BY <1>1, <1>5, <2>9, QuotientOrder
  <2> QED
    BY <2>10 DEF t
<1>10. hi - lo + 1 < Limit
  <2> HIDE DEF lo, hi
  <2> QED
    BY <1>1, <1>8, <1>9
<1>11. CASE percent = 0 \/ value = 0
  <2>1. j = [base |-> value, choose |-> 0]
    BY <1>1, <1>11 DEF NewTTLJitterer
  <2>2. TTLs(j) = Lowest(j) .. Highest(j) /\ Lowest(j) = value /\ Highest(j) = value
    BY <1>1, <2>1 DEF TTLs, Lowest, Highest
  <2>3. x * value = One * value /\ y * value = One * value
    BY <1>1, <1>11 DEF x, y
  <2>4. value \in Rounded(One * value)
    BY <1>1, ValueIsRounded
  <2> QED
    BY <2>2, <2>3, <2>4 DEF x, y
<1>12. CASE percent > 0 /\ value > 0
  <2>1. Uint(lo) = {lo} /\ Uint(hi) = {hi}
    BY <1>1, <1>8 DEF Uint
  <2>2. j = [base |-> lo, choose |-> (hi - lo + 1) % Limit]
    <3>1. j \in {[base |-> l, choose |-> (h - l + 1) % Limit] : l \in Uint(lo), h \in Uint(hi)}
      BY <1>1, <1>12 DEF NewTTLJitterer, lo, hi, F, G, A, B, C, x, y
    <3> HIDE DEF lo, hi
    <3> QED
      BY <2>1, <3>1
  <2> HIDE DEF lo, hi
  <2>3. Lowest(j) = lo /\ Highest(j) = hi /\ TTLs(j) = lo .. hi
    BY <1>8, <1>10, <2>2, Unwrapped
  <2> QED
    BY <1>7, <2>3 DEF lo, hi, F, G, x, y
<1> QED
  BY <1>1, <1>11, <1>12

\* While float32 is exact, the TTLs are those within the percentage of the
\* value, both ends included, and Range says so.
THEOREM ExactRange ==
  ASSUME NEW value \in Nat, NEW percent \in 0 .. One - 1,
         (One + percent) * value < 2 ^ Precision,
         NEW j \in NewTTLJitterer(value, percent)
  PROVE  /\ Lowest(j) = ((One - percent) * value) \div One
         /\ Highest(j) = ((One + percent) * value) \div One
         /\ TTLs(j) = Lowest(j) .. Highest(j)
<1> DEFINE a == (One - percent) * value
           b == (One + percent) * value
           lo == a \div One
           hi == b \div One
<1>1. One \in Nat \ {0} /\ Limit \in Nat /\ 2 ^ Precision \in 2 .. Limit
  BY Widths
<1>2. value <= b
  BY <1>1
<1>3. CASE percent = 0 \/ value = 0
  <2>1. j = [base |-> value, choose |-> 0]
    BY <1>1, <1>3 DEF NewTTLJitterer
  <2>2. lo = value /\ hi = value
    BY <1>1, <1>3, Z3
  <2> QED
    BY <2>1, <2>2 DEF TTLs, Lowest, Highest
<1>4. CASE percent > 0 /\ value > 0
  <2>1. /\ a \in Nat /\ b \in Nat /\ a <= b /\ b < 2 ^ Precision
        /\ One >= 2 /\ One - percent <= a /\ One + percent <= b
    BY <1>1, <1>4, Z3
  <2>2. /\ Float(One - percent) = One - percent /\ Float(One + percent) = One + percent
        /\ Float(value) = value /\ Float(a) = a /\ Float(b) = b
    <3>1. \A n \in Nat : n < 2 ^ Precision => Float(n) = n
      BY DEF Float
    <3> QED
      BY <1>1, <1>2, <1>4, <2>1, <3>1
  <2>3. lo \in Nat /\ hi \in Nat /\ lo <= hi /\ 2 * hi <= b
    BY <1>1, <2>1, Division
  <2>4. Uint(lo) = {lo} /\ Uint(hi) = {hi} /\ hi - lo + 1 \in 1 .. Limit - 1 /\ hi < Limit
    BY <1>1, <2>1, <2>3 DEF Uint
  <2>5. j = [base |-> lo, choose |-> (hi - lo + 1) % Limit]
    <3>1. /\ Float(Float(One - percent) * Float(value)) = a
          /\ Float(Float(One + percent) * Float(value)) = b
      BY <2>2
    <3> HIDE DEF a, b
    <3>2. j \in {[base |-> l, choose |-> (h - l + 1) % Limit] : l \in Uint(lo), h \in Uint(hi)}
      BY <1>1, <1>4, <3>1 DEF NewTTLJitterer
    <3> HIDE DEF lo, hi
    <3> QED
      BY <2>4, <3>2
  <2> HIDE DEF lo, hi
  <2>6. Lowest(j) = lo /\ Highest(j) = hi /\ TTLs(j) = lo .. hi
    <3>1. hi - lo + 1 < Limit
      BY <1>1, <2>4
    <3> QED
      BY <2>3, <2>4, <2>5, <3>1, Unwrapped
  <2> QED
    BY <2>6 DEF lo, hi
<1> QED
  BY <1>1, <1>3, <1>4

(***************************************************************************)
(* Types and settings.                                                     *)
(***************************************************************************)

\* The settings that main and the command line give: more than one if the TTL
\* of the file is too long for a uint32.
Given ==
  LET groups == DecorateGroups(input.cl, main.groups)
  IN {[globs |-> WithGlobs(groups.zoneFiles),
       ttl |-> ttl,
       interval |-> CheckInterval(groups.checkInterval),
       level |-> DecorateSallust(input.cl, main.level)] :
        ttl \in FileTTL(groups.defaultTTL)}

\* Once there are settings, they stay those of the configuration that was read.
Settled ==
  /\ app \in {"parsing", "constructing"} => settings = Unset
  /\ settings # Unset =>
       settings \in Given /\ main \in NewViper(input.cl, input.searched)
  /\ app \in {"ingesting", "bundling"} \/ Constructed => settings \in Given

Types ==
  /\ Constructed => jitterer \in [base : 0 .. Limit - 1, choose : 0 .. Limit - 1]
  /\ DOMAIN bundle \subseteq Names
  /\ checking \in BOOLEAN /\ requested \in BOOLEAN

\* Globs are expanded one by one.
LEMMA GlobsExpanded ==
  ASSUME NEW S, NEW R, NEW a \in Seq(S), NEW b \in Seq(R)
  PROVE  /\ WithGlobs(a \o b) = WithGlobs(a) \o WithGlobs(b)
         /\ Sequence(WithGlobs(a \o b))
<1> DEFINE c == a \o b
           w == WithGlobs(c)
           X == {ExpandEnv(c[i]) : i \in DOMAIN c}
           u == WithGlobs(a)
           v == WithGlobs(b)
<1>1. /\ Len(a) \in Nat /\ Len(b) \in Nat /\ c \in Seq(S \union R)
      /\ Len(c) = Len(a) + Len(b) /\ DOMAIN c = 1 .. Len(c)
      /\ \A i \in 1 .. Len(a) : c[i] = a[i]
      /\ \A i \in 1 .. Len(b) : c[Len(a) + i] = b[i]
  <2>1. a \in Seq(S \union R) /\ b \in Seq(S \union R)
    OBVIOUS
  <2> QED
    BY <2>1
<1>2. w = [i \in 1 .. Len(c) |-> ExpandEnv(c[i])] /\ w \in Seq(X) /\ Len(w) = Len(c)
  BY <1>1 DEF WithGlobs
<1>3. /\ u = [i \in 1 .. Len(a) |-> ExpandEnv(a[i])] /\ u \in Seq({ExpandEnv(a[i]) : i \in DOMAIN a})
      /\ Len(u) = Len(a)
  BY DEF WithGlobs
<1>4. /\ v = [i \in 1 .. Len(b) |-> ExpandEnv(b[i])] /\ v \in Seq({ExpandEnv(b[i]) : i \in DOMAIN b})
      /\ Len(v) = Len(b)
  BY DEF WithGlobs
<1> HIDE DEF c, w, u, v, X
<1>5. /\ u \o v = [i \in 1 .. Len(u) + Len(v) |-> IF i <= Len(u) THEN u[i] ELSE v[i - Len(u)]]
  BY <1>3, <1>4
<1>6. \A i \in 1 .. Len(c) : w[i] = (u \o v)[i]
  <2> SUFFICES ASSUME NEW i \in 1 .. Len(c)
               PROVE  w[i] = (u \o v)[i]
    OBVIOUS
  <2>1. CASE i <= Len(a)
    BY <1>1, <1>2, <1>3, <1>4, <1>5, <2>1
  <2>2. CASE ~(i <= Len(a))
    <3> DEFINE k == i - Len(a)
    <3>1. k \in 1 .. Len(b) /\ Len(a) + k = i
      BY <1>1, <2>2
    <3>2. w[i] = ExpandEnv(b[k]) /\ v[k] = ExpandEnv(b[k])
      BY <1>1, <1>2, <1>4, <3>1
    <3>3. (u \o v)[i] = v[k]
      BY <1>1, <1>3, <1>4, <1>5, <2>2
    <3> QED
      BY <3>2, <3>3
  <2> QED
    BY <2>1, <2>2
<1>7. w = u \o v
  <2>1. DOMAIN w = 1 .. Len(c) /\ DOMAIN (u \o v) = 1 .. Len(c)
    BY <1>1, <1>2, <1>3, <1>4, <1>5
  <2>2. w = [i \in 1 .. Len(c) |-> w[i]] /\ u \o v = [i \in 1 .. Len(c) |-> (u \o v)[i]]
    BY <1>1, <1>2, <1>3, <1>4, <1>5
  <2> QED
    BY <1>6, <2>2
<1>8. Sequence(w)
  BY <1>2, OwnElements DEF Sequence
<1> QED
  BY <1>7, <1>8 DEF w, c, u, v

\* What Given is made of.
LEMMA GivenFields ==
  ASSUME Inv, main \in NewViper(input.cl, input.searched), NEW given \in Given
  PROVE  LET groups == main.groups
         IN /\ given.interval = IF input.cl.checkInterval > 0 THEN input.cl.checkInterval
                                ELSE IF groups.checkInterval > 0 THEN groups.checkInterval
                                ELSE DefaultCheckInterval
            /\ given.interval \in Nat \ {0}
            /\ given.ttl \in FileTTL(groups.defaultTTL) /\ groups.defaultTTL \in Int
            /\ groups.checkInterval \in Int /\ input.cl.checkInterval \in Int
            /\ given.level = IF input.cl.debug = "unset" THEN main.level ELSE input.cl.debug
            /\ given.globs = WithGlobs(groups.zoneFiles) \o WithGlobs(input.cl.zoneFiles)
            /\ Sequence(given.globs)
<1> DEFINE groups == DecorateGroups(input.cl, main.groups)
           a == main.groups.zoneFiles
           b == input.cl.zoneFiles
<1>1. /\ DOMAIN main.groups = {"zoneFiles", "checkInterval", "defaultTTL"}
      /\ main.groups.checkInterval \in Int /\ main.groups.defaultTTL \in Int
      /\ Sequence(a) /\ Sequence(b) /\ input.cl.checkInterval \in Int
  BY FileRead, ProgramAssumption DEF Inv, Typed
<1>2. /\ groups.zoneFiles = a \o b /\ groups.defaultTTL = main.groups.defaultTTL
      /\ groups.checkInterval = IF input.cl.checkInterval > 0 THEN input.cl.checkInterval
                                ELSE main.groups.checkInterval
  BY <1>1 DEF DecorateGroups
<1>3. /\ given.globs = WithGlobs(groups.zoneFiles) /\ given.ttl \in FileTTL(groups.defaultTTL)
      /\ given.interval = CheckInterval(groups.checkInterval)
      /\ given.level = DecorateSallust(input.cl, main.level)
  BY DEF Given
<1> HIDE DEF groups, a, b
<1>4. /\ given.interval = IF input.cl.checkInterval > 0 THEN input.cl.checkInterval
                          ELSE IF main.groups.checkInterval > 0 THEN main.groups.checkInterval
                          ELSE DefaultCheckInterval
      /\ given.interval \in Nat \ {0}
  BY <1>1, <1>2, <1>3, ConfigurationAssumption DEF CheckInterval
<1>5. given.level = IF input.cl.debug = "unset" THEN main.level ELSE input.cl.debug
  BY <1>3 DEF DecorateSallust
<1>6. a \in Seq(ToSet(a)) /\ b \in Seq(ToSet(b))
  BY <1>1 DEF Sequence
<1>7. WithGlobs(a \o b) = WithGlobs(a) \o WithGlobs(b) /\ Sequence(WithGlobs(a \o b))
  BY <1>6, GlobsExpanded
<1> QED
  BY <1>1, <1>2, <1>3, <1>4, <1>5, <1>7 DEF a, b

\* A jitterer holds unsigned integers.
LEMMA JittererTyped ==
  ASSUME NEW value \in 0 .. Limit - 1, NEW percent \in Int,
         NEW j \in NewTTLJitterer(value, percent)
  PROVE  j \in [base : 0 .. Limit - 1, choose : 0 .. Limit - 1]
<1>1. Limit \in Nat /\ Limit >= 4 /\ One \in Nat \ {0} /\ percent \in 0 .. One - 1
  BY Widths DEF NewTTLJitterer
<1>2. \A n \in Nat : Uint(n) \subseteq 0 .. Limit - 1
  <2> SUFFICES ASSUME NEW n \in Nat
               PROVE  Uint(n) \subseteq 0 .. Limit - 1
    OBVIOUS
  <2>1. n % Limit \in 0 .. Limit - 1
    BY <1>1
  <2> QED
    BY <1>1, <2>1 DEF Uint
<1>3. CASE percent = 0 \/ value = 0
  BY <1>1, <1>3 DEF NewTTLJitterer
<1>4. CASE ~(percent = 0 \/ value = 0)
  <2> DEFINE F == Float(Float(One - percent) * Float(value))
             G == Float(Float(One + percent) * Float(value))
             lo == F \div One
             hi == G \div One
  <2>1. F \in Nat /\ G \in Nat
    BY <1>1, ProductsTyped
  <2>2. j \in {[base |-> l, choose |-> (h - l + 1) % Limit] : l \in Uint(lo), h \in Uint(hi)}
    BY <1>1, <1>4 DEF NewTTLJitterer
  <2> HIDE DEF F, G
  <2>3. lo \in Nat /\ hi \in Nat
    BY <1>1, <2>1, Remainder
  <2> HIDE DEF lo, hi
  <2>4. PICK l \in Uint(lo), h \in Uint(hi) : j = [base |-> l, choose |-> (h - l + 1) % Limit]
    BY <2>2
  <2>5. l \in 0 .. Limit - 1 /\ h \in 0 .. Limit - 1
    BY <1>2, <2>3
  <2>6. (h - l + 1) % Limit \in 0 .. Limit - 1
    BY <1>1, <2>5
  <2> QED
    BY <2>4, <2>5, <2>6
<1> QED
  BY <1>3, <1>4

\* Seconds are unsigned integers, and the nearest ones as long as they can be.
LEMMA SecondsTyped ==
  ASSUME NEW quarters \in Int, NEW value \in DurationToSeconds(quarters)
  PROVE  /\ value \in 0 .. Limit - 1
         /\ (value = 0) <=> (quarters <= 0)
         /\ quarters = 1 => value = 1
         /\ quarters \in 2 .. 4 * Limit - 3 => quarters - 4 * value \in -2 .. 1
<1>1. Limit \in Nat /\ Limit >= 4
  BY Widths
<1>2. CASE quarters <= 0
  BY <1>1, <1>2 DEF DurationToSeconds
<1>3. CASE ~(quarters <= 0)
  <2> DEFINE n == (quarters + 2) \div 4
  <2>1. n \in Nat /\ quarters - 4 * n \in -2 .. 1
    BY <1>3
  <2>2. value \in {IF m = 0 THEN 1 ELSE m : m \in Uint(n)}
    BY <1>3 DEF DurationToSeconds, n
  <2> HIDE DEF n
  <2>3. n % Limit \in 0 .. Limit - 1
    BY <1>1, <2>1
  <2>4. Uint(n) \subseteq 0 .. Limit - 1
    BY <1>1, <2>1, <2>3 DEF Uint
  <2>5. value \in 1 .. Limit - 1
    BY <1>1, <2>2, <2>4
  <2>6. ASSUME quarters = 1
        PROVE  value = 1
    <3>1. n = 0
      BY <2>1, <2>6
    <3>2. Uint(n) = {0}
      BY <1>1, <3>1 DEF Uint
    <3> QED
      BY <2>2, <3>2
  <2>7. ASSUME quarters \in 2 .. 4 * Limit - 3
        PROVE  value = n
    <3>1. n \in 1 .. Limit - 1
      BY <1>1, <2>1, <2>7
    <3>2. Uint(n) = {n}
      BY <1>1, <3>1 DEF Uint
    <3> QED
      BY <2>2, <3>1, <3>2
  <2> QED
    BY <1>1, <1>3, <2>1, <2>5, <2>6, <2>7
<1> QED
  BY <1>2, <1>3

\* The TTL of the ingester: the file's if there is one, else the default.
LEMMA FileTTLTyped ==
  ASSUME NEW v \in Int, NEW ttl \in FileTTL(v)
  PROVE  LET duration == IF v > 0 THEN v ELSE DefaultFileTTL
         IN /\ ttl \in 1 .. Limit - 1
            /\ duration = 1 => ttl = 1
            /\ duration \in 2 .. 4 * Limit - 3 => duration - 4 * ttl \in -2 .. 1
<1>1. PICK seconds \in DurationToSeconds(v), default \in DurationToSeconds(DefaultFileTTL) :
        ttl = IF seconds = 0 THEN default ELSE seconds
  BY DEF FileTTL
<1>2. Limit \in Nat /\ DefaultFileTTL \in Nat \ {0}
  BY Widths, ConfigurationAssumption
<1>3. CASE v > 0
  <2>1. seconds # 0 /\ ttl = seconds
    BY <1>1, <1>3, SecondsTyped
  <2> QED
    BY <1>2, <1>3, <2>1, SecondsTyped
<1>4. CASE ~(v > 0)
  <2>1. seconds = 0 /\ ttl = default
    BY <1>1, <1>4, SecondsTyped
  <2>2. default # 0
    BY <1>2, SecondsTyped
  <2> QED
    BY <1>2, <1>4, <2>1, <2>2, SecondsTyped
<1> QED
  BY <1>3, <1>4

LEMMA InitTypes == Init => Settled /\ Types
<1>1. DOMAIN <<>> = {}
  OBVIOUS
<1> QED
  BY <1>1 DEF Init, Settled, Types, Constructed

\* Settings are made once, and main is not changed after that.
LEMMA SettledInv ==
  ASSUME Inv, Settled, Next
  PROVE  Settled'
<1> USE DEF Settled, Constructed
<1>1. CASE AfterApply
  BY <1>1 DEF AfterApply, Fail, construction
<1>2. CASE ProvideIngester
  BY <1>2 DEF ProvideIngester, Fail, construction, Given, Inv, ConfigurationChecked
<1>3. CASE ProvideChecker \/ ProvideServers
  BY <1>3 DEF ProvideChecker, ProvideServers, Fail, construction, Given
<1>4. CASE StartHook \/ StartReturns \/ StopHook \/ StopReturns
  BY <1>4 DEF StartHook, StartReturns, StopHook, StopReturns, construction, Given
<1>5. CASE \/ \E os \in BOOLEAN : ReceiveSignal(os)
           \/ \E n \in Names : Listen(n) \/ ServerEnds(n)
  BY <1>5 DEF ReceiveSignal, Listen, ServerEnds, construction, Given
<1> QED
  BY <1>1, <1>2, <1>3, <1>4, <1>5 DEF Next, Run

LEMMA TypesInv ==
  ASSUME Inv, Types, Next
  PROVE  Types'
<1> USE DEF Types, Constructed
<1>1. CASE AfterApply \/ ProvideIngester \/ ProvideChecker
  BY <1>1 DEF AfterApply, ProvideIngester, ProvideChecker, Fail, construction, lifecycle
<1>2. CASE ProvideServers
  <2>1. CASE Fail
    BY <1>2, <2>1 DEF Fail, construction, lifecycle
  <2>2. CASE ~Fail
    <3>1. PICK value \in DurationToSeconds(main.dns.zone.ttl), b \in NewBundle(main) :
            /\ jitterer' \in NewTTLJitterer(value, main.dns.zone.jitter)
            /\ bundle' = UseHandler(b)
            /\ app = "bundling"
            /\ UNCHANGED lifecycle
      BY <1>2, <2>2 DEF ProvideServers
    <3>2. /\ main.dns.zone.ttl \in Int /\ main.dns.zone.jitter \in Int
          /\ ServerNames(main) \subseteq Names
      BY <3>1, FileRead DEF Inv, Typed, ConfigurationChecked
    <3>3. jitterer' \in [base : 0 .. Limit - 1, choose : 0 .. Limit - 1]
      BY <3>1, <3>2, JittererTyped, SecondsTyped
    <3>4. DOMAIN bundle' \subseteq Names
      BY <3>1, <3>2 DEF NewBundle, UseLogger, UseHandler
    <3> QED
      BY <3>1, <3>3, <3>4 DEF lifecycle
  <2> QED
    BY <2>1, <2>2
<1>3. CASE StartHook \/ StartReturns \/ StopHook \/ StopReturns
  BY <1>3 DEF StartHook, StartReturns, StopHook, StopReturns, construction, lifecycle
<1>4. CASE \/ \E os \in BOOLEAN : ReceiveSignal(os)
           \/ \E n \in Names : Listen(n) \/ ServerEnds(n)
  BY <1>4 DEF ReceiveSignal, Listen, ServerEnds, construction, lifecycle
<1> QED
  BY <1>1, <1>2, <1>3, <1>4 DEF Next, Run

THEOREM TypesInvariance == Spec => [](Inv /\ Settled /\ Types)
<1>1. Inv /\ Settled /\ Types /\ [Next]_vars => (Settled /\ Types)'
  <2>1. CASE Next
    BY <2>1, SettledInv, TypesInv
  <2>2. ASSUME Settled, Types, UNCHANGED vars
        PROVE  (Settled /\ Types)'
    BY <2>2 DEF Settled, Types, Given, Constructed, vars, construction, lifecycle
  <2> QED
    BY <2>1, <2>2
<1> QED
  BY InitTypes, Invariance, <1>1, PTL DEF Spec

\* The values the state of the program can have: once it is constructed, its
\* settings are ones that the constructors of the service accept.
THEOREM TypeCorrect == Spec => []TypeOK
<1>1. Inv /\ Settled /\ Types => TypeOK
  <2> SUFFICES ASSUME Inv, Settled, Types
               PROVE  TypeOK
    OBVIOUS
  <2>1. ASSUME Constructed
        PROVE  /\ main \in Files(input)
               /\ settings.interval \in Nat \ {0} /\ settings.ttl \in 1 .. Limit - 1
               /\ Sequence(settings.globs)
    <3>1. main \in NewViper(input.cl, input.searched) /\ settings \in Given /\ input \in Inputs
      BY <2>1 DEF Inv, Typed, ConfigurationChecked, Settled, Constructed
    <3> QED
      BY <3>1, FileRead, GivenFields, FileTTLTyped
  <2> QED
    BY <2>1 DEF TypeOK, Inv, Typed, Types
<1> QED
  BY <1>1, TypesInvariance, PTL

\* What reaches the constructors is what was configured, the command line's
\* before the file's and the default only where neither sets a value, and a TTL
\* as the nearest second.
THEOREM Settings == Spec => []SettingsHonored
<1>1. Inv /\ Settled => SettingsHonored
  <2> SUFFICES ASSUME Inv, Settled, settings # Unset
               PROVE  SettingsHonored
    BY DEF SettingsHonored
  <2>1. settings \in Given /\ main \in NewViper(input.cl, input.searched)
    BY DEF Settled
  <2> DEFINE groups == main.groups
             cl == input.cl
             ttl == IF groups.defaultTTL > 0 THEN groups.defaultTTL ELSE DefaultFileTTL
  <2>2. /\ settings.interval = IF cl.checkInterval > 0 THEN cl.checkInterval
                               ELSE IF groups.checkInterval > 0 THEN groups.checkInterval
                               ELSE DefaultCheckInterval
        /\ groups.checkInterval \in Int /\ cl.checkInterval \in Int
        /\ settings.level = IF cl.debug = "unset" THEN main.level ELSE cl.debug
        /\ settings.globs = WithGlobs(groups.zoneFiles) \o WithGlobs(cl.zoneFiles)
    BY <2>1, GivenFields
  <2>3. /\ settings.ttl \in 1 .. Limit - 1
        /\ ttl = 1 => settings.ttl = 1
        /\ ttl \in 2 .. 4 * Limit - 3 => ttl - 4 * settings.ttl \in -2 .. 1
    <3>1. settings.ttl \in FileTTL(groups.defaultTTL) /\ groups.defaultTTL \in Int
      BY <2>1, GivenFields
    <3> QED
      BY <3>1, FileTTLTyped
  <2>4. settings.ttl > 0
    BY <2>3, Widths
  <2>5. /\ cl.checkInterval > 0 => settings.interval = cl.checkInterval
        /\ cl.checkInterval <= 0 /\ groups.checkInterval > 0 =>
             settings.interval = groups.checkInterval
        /\ cl.checkInterval <= 0 /\ groups.checkInterval <= 0 =>
             settings.interval = DefaultCheckInterval
    BY <2>2
  <2> QED
    BY <2>2, <2>3, <2>4, <2>5 DEF SettingsHonored
<1> QED
  BY <1>1, TypesInvariance, PTL

\* The TTLs of the answers are those within the percentage of the zone's TTL,
\* exactly or up to what float32 rounds.
THEOREM TTLsRange == Spec => []TTLsInRange
<1>1. Inv => TTLsInRange
  <2> SUFFICES ASSUME Inv, Constructed,
                      NEW value \in DurationToSeconds(main.dns.zone.ttl),
                      jitterer \in NewTTLJitterer(value, main.dns.zone.jitter)
               PROVE  LET percent == main.dns.zone.jitter
                          lowest == (One - percent) * value
                          highest == (One + percent) * value
                      IN /\ highest < 2 ^ Precision =>
                              TTLs(jitterer) = lowest \div One .. highest \div One
                         /\ Fits(value, percent) =>
                              /\ TTLs(jitterer) = Lowest(jitterer) .. Highest(jitterer)
                              /\ Lowest(jitterer) \in Rounded(lowest)
                              /\ Highest(jitterer) \in Rounded(highest)
    BY DEF TTLsInRange
  <2> DEFINE percent == main.dns.zone.jitter
  <2>1. percent \in 0 .. One - 1 /\ value \in 0 .. Limit - 1
    <3>1. main.dns.zone.ttl \in Int
      BY FileRead DEF Inv, Typed, ConfigurationChecked, Constructed
    <3> QED
      BY <3>1, SecondsTyped DEF Inv, ConfigurationChecked
  <2> HIDE DEF percent
  <2>2. jitterer \in NewTTLJitterer(value, percent) /\ value \in Nat
    BY <2>1, Widths DEF percent
  <2>3. (One + percent) * value < 2 ^ Precision =>
          TTLs(jitterer) = ((One - percent) * value) \div One .. ((One + percent) * value) \div One
    BY <2>1, <2>2, ExactRange
  <2>4. Fits(value, percent) =>
          /\ TTLs(jitterer) = Lowest(jitterer) .. Highest(jitterer)
          /\ Lowest(jitterer) \in Rounded((One - percent) * value)
          /\ Highest(jitterer) \in Rounded((One + percent) * value)
    BY <2>1, <2>2, RangeWithinRounding
  <2> QED
    BY <2>3, <2>4 DEF percent
<1> QED
  BY <1>1, Invariance, PTL

=============================================================================
