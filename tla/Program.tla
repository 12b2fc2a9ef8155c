------------------------------- MODULE Program -------------------------------
(***************************************************************************)
(* The program from its command line to its exit: the configuration it     *)
(* reads, the fx.App it constructs from it, and the lifecycle of the DNS   *)
(* servers (cmd/hashy/run.go, commandLine.go, config/, server/provide.go,  *)
(* bundle.go and servers.go).  Hashy.tla details what the boot ingest and  *)
(* the IngestChecker do meanwhile.                                         *)
(*                                                                         *)
(* fx runs OnStart hooks in the order they were appended in, OnStop hooks  *)
(* in the reverse order, and remembers a shutdown that is requested before *)
(* the app waits for one.                                                  *)
(***************************************************************************)
EXTENDS Configuration, Slices, FiniteSets

CONSTANTS
  Inputs,   \* pairs of a command line and the file its search finds
  Names,    \* the names of servers
  Checker,  \* stands for the IngestChecker among the hooks
  NoLogger, \* a nil *zap.Logger
  Nop,      \* zap.NewNop()
  Unset     \* what was not read or constructed yet

\* The configurations there are to choose from.
Files(i) == {i.cl.confFile, i.searched, DefaultFile}

ASSUME ProgramAssumption ==
  /\ IsFiniteSet(Names) /\ Names \intersect {Checker, NoLogger, Nop} = {}
  /\ DefaultFile.exists /\ DefaultFile.yaml
  /\ \A i \in Inputs :
       /\ i.cl.checkInterval \in Int /\ Sequence(i.cl.zoneFiles)
       /\ \A file \in Files(i) :
            file.exists /\ file.yaml =>
              /\ ServerNames(file) \subseteq Names
              /\ file.dns.zone.ttl \in Int /\ file.dns.zone.jitter \in Int
              /\ DOMAIN file.groups = {"zoneFiles", "checkInterval", "defaultTTL"}
              /\ file.groups.checkInterval \in Int /\ file.groups.defaultTTL \in Int
              /\ Sequence(file.groups.zoneFiles)

VARIABLES
  input,     \* the command line, and the file found by the search
  app,       \* what the program is doing
  main,      \* config.Main, as it was read
  settings,  \* what FileIngester, IngestChecker and the logger are created with
  jitterer,  \* the TTLJitterer
  bundle,    \* the Bundle: for each name, its server, logger and handler's logger
  hooks,     \* the hooks of the fx.Lifecycle, as appended
  started,   \* how many of them are started and not stopped
  checking,  \* the goroutine of the IngestChecker runs
  serving,   \* for each name, how far its goroutine is
  early,     \* servers that were shut down before they listened
  requested  \* a server has requested a shutdown

construction == <<input, main, settings, jitterer, bundle, hooks>>
lifecycle == <<started, checking, serving, early, requested>>
vars == <<app, construction, lifecycle>>

Init ==
  /\ input \in Inputs
  /\ app = "parsing"
  /\ main = Unset /\ settings = Unset /\ jitterer = Unset
  /\ bundle = <<>> /\ hooks = <<>>
  /\ started = 0 /\ checking = FALSE
  /\ serving = [n \in Names |-> "none"]
  /\ early = {} /\ requested = FALSE

(***************************************************************************)
(* Servers.                                                                *)
(***************************************************************************)

Networks(protocol) ==
  IF protocol = "udp" THEN {"udp", "udp4", "udp6"} ELSE {"tcp", "tcp4", "tcp6"}

\* NewUDPServer and NewTCPServer: the server, none if that is an error.
NewServer(cfg, protocol) ==
  {[net |-> net, reusePort |-> cfg.reusePort, reuseAddr |-> cfg.reusePort] :
     net \in Networks(protocol) \intersect
               {IF cfg.network = "" THEN protocol ELSE cfg.network}}

\* UseLogger: a sublogger for each server, named here as the server is.
UseLogger(servers) == [n \in DOMAIN servers |-> [servers[n] EXCEPT !.logger = n]]

\* The names that Add rejects: map keys only differ within one protocol.
Duplicates(dns) == DOMAIN dns.udp \intersect DOMAIN dns.tcp

\* NewBundle, none if a server cannot be created or two have the same name.
NewBundle(file) ==
  LET dns == file.dns
      created(n) ==
        (IF n \in DOMAIN dns.udp THEN NewServer(dns.udp[n], "udp") ELSE {})
        \union (IF n \in DOMAIN dns.tcp THEN NewServer(dns.tcp[n], "tcp") ELSE {})
  IN IF Duplicates(dns) # {} \/ \E n \in ServerNames(file) : created(n) = {}
     THEN {}
     ELSE {UseLogger([n \in ServerNames(file) |->
             [server |-> CHOOSE s \in created(n) : TRUE,
              logger |-> NoLogger, handler |-> Unset]])}

\* Handler.Clone: the logger of the clone.
Clone(logger) == IF logger = NoLogger THEN Nop ELSE logger

\* UseHandler: each server gets a clone of the handler, with its own logger.
UseHandler(servers) ==
  [n \in DOMAIN servers |-> [servers[n] EXCEPT !.handler = Clone(servers[n].logger)]]

\* Mutant: all hooks share one loop variable.
SharedVariable(servers) ==
  {hooks \o [i \in DOMAIN order |-> order[Len(order)]] :
     order \in SetToSeqs(DOMAIN servers)}

\* Mutant: the hooks of the servers come before the others.
ServersFirst(servers) == {order \o hooks : order \in SetToSeqs(DOMAIN servers)}

\* BindToLifecycle appends a hook for each server, in the order of a Go map.
BindToLifecycle(servers) == {hooks \o order : order \in SetToSeqs(DOMAIN servers)}

(***************************************************************************)
(* Construction.  Whatever fails, the program ends with the error.         *)
(***************************************************************************)

\* Mutant: the error is not looked at.
Ignore == app' = "starting" /\ UNCHANGED <<construction, lifecycle>>

\* The command or app.Run returns the error.
Fail == app' = "failed" /\ UNCHANGED <<construction, lifecycle>>

\* AfterApply reads the configuration before there is an fx.App.
AfterApply ==
  /\ app = "parsing"
  /\ LET read == NewViper(input.cl, input.searched)
     IN \/ read = {} /\ Fail
        \/ /\ main' \in read
           /\ app' = "constructing"
           /\ UNCHANGED <<input, settings, jitterer, bundle, hooks, lifecycle>>

\* fx.New unmarshals the configuration and creates the FileIngester, to invoke
\* its Ingest.
ProvideIngester ==
  /\ app = "constructing"
  /\ \/ ~Unmarshals(main) /\ Fail
     \/ /\ Unmarshals(main)
        /\ LET groups == DecorateGroups(input.cl, main.groups)
           IN \E ttl \in FileTTL(groups.defaultTTL) :
                settings' = [globs |-> WithGlobs(groups.zoneFiles),
                             ttl |-> ttl,
                             interval |-> CheckInterval(groups.checkInterval),
                             level |-> DecorateSallust(input.cl, main.level)]
        /\ app' = "ingesting"
        /\ UNCHANGED <<input, main, jitterer, bundle, hooks, lifecycle>>

\* The boot ingest returns; the IngestChecker is created and bound.
ProvideChecker ==
  /\ app = "ingesting"
  /\ hooks' = Append(hooks, Checker)
  /\ app' = "bundling"
  /\ UNCHANGED <<input, main, settings, jitterer, bundle, lifecycle>>

\* The jitterer, the handlers and the Bundle are created, in the last Invoke.
ProvideServers ==
  /\ app = "bundling"
  /\ \E value \in DurationToSeconds(main.dns.zone.ttl) :
       LET jitterers == NewTTLJitterer(value, main.dns.zone.jitter)
           bundles == NewBundle(main)
       IN \/ (jitterers = {} \/ bundles = {}) /\ Fail
          \/ \E b \in bundles :
               /\ jitterer' \in jitterers
               /\ bundle' = UseHandler(b)
               /\ hooks' \in BindToLifecycle(b)
               /\ app' = "starting"
               /\ UNCHANGED <<input, main, settings, lifecycle>>

(***************************************************************************)
(* Lifecycle.                                                              *)
(***************************************************************************)

\* The OnStart hooks: IngestChecker.Start, or a goroutine for a server.
StartHook ==
  /\ app = "starting"
  /\ started < Len(hooks)
  /\ started' = started + 1
  /\ LET hook == hooks[started + 1]
     IN IF hook = Checker
          THEN checking' = TRUE /\ UNCHANGED serving
          ELSE serving' = [serving EXCEPT ![hook] = "spawned"] /\ UNCHANGED checking
  /\ UNCHANGED <<app, construction, early, requested>>

StartReturns ==
  /\ app = "starting"
  /\ started = Len(hooks)
  /\ app' = "running"
  /\ UNCHANGED <<construction, lifecycle>>

\* Info.Start: ListenAndServe listens.  Whether a server that was shut down
\* before does, is not known.
Listen(n) ==
  /\ serving[n] = "spawned"
  /\ serving' = [serving EXCEPT ![n] = "up"]
  /\ UNCHANGED <<app, construction, started, checking, early, requested>>

\* Mutant: a server that ends without an error does not request a shutdown.
EndsQuietly(n) ==
  /\ serving[n] \in {"spawned", "up"}
  /\ serving' = [serving EXCEPT ![n] = "ended"]
  /\ requested' = (requested \/ serving[n] = "spawned")
  /\ UNCHANGED <<app, construction, started, checking, early>>

\* Info.Start: ListenAndServe returns, as it cannot listen or stops to, and the
\* deferred sh.Shutdown is called.
ServerEnds(n) ==
  /\ serving[n] \in {"spawned", "up"}
  /\ serving' = [serving EXCEPT ![n] = "ended"]
  /\ requested' = TRUE
  /\ UNCHANGED <<app, construction, started, checking, early>>

\* app.Run gets a signal of the operating system, or what a server requested.
ReceiveSignal(os) ==
  /\ app = "running"
  /\ os \/ requested
  /\ app' = "stopping"
  /\ UNCHANGED <<construction, lifecycle>>

\* Mutant: the hooks of servers have no OnStop.
StopsChecker ==
  /\ app = "stopping"
  /\ started > 0
  /\ started' = started - 1
  /\ checking' = (checking /\ hooks[started] # Checker)
  /\ UNCHANGED <<app, construction, serving, early, requested>>

\* The OnStop hooks: IngestChecker.Stop, or Info.Stop, which ends a server that
\* listens.
StopHook ==
  /\ app = "stopping"
  /\ started > 0
  /\ started' = started - 1
  /\ LET hook == hooks[started]
     IN IF hook = Checker
          THEN checking' = FALSE /\ UNCHANGED <<serving, early, requested>>
          ELSE /\ serving' = [serving EXCEPT ![hook] = IF @ = "up" THEN "ended" ELSE @]
               /\ early' = IF serving[hook] = "spawned" THEN early \union {hook} ELSE early
               /\ requested' = (requested \/ serving[hook] = "up")
               /\ UNCHANGED checking
  /\ UNCHANGED <<app, construction>>

StopReturns ==
  /\ app = "stopping"
  /\ started = 0
  /\ app' = "stopped"
  /\ UNCHANGED <<construction, lifecycle>>

(***************************************************************************)
(* Specification.                                                          *)
(***************************************************************************)

\* What app.Run and the constructors do when it is their turn.
Run ==
  \/ AfterApply \/ ProvideIngester \/ ProvideChecker \/ ProvideServers
  \/ StartHook \/ StartReturns
  \/ ReceiveSignal(FALSE)
  \/ StopHook \/ StopReturns

Next ==
  \/ Run
  \/ ReceiveSignal(TRUE)
  \/ \E n \in Names : Listen(n) \/ ServerEnds(n)

Spec == Init /\ [][Next]_vars

\* The main goroutine is scheduled, and so is each server's until it listens.
FairSpec ==
  /\ Spec
  /\ WF_vars(Run)
  /\ \A n \in Names : WF_vars(Listen(n))

(***************************************************************************)
(* Properties.                                                             *)
(***************************************************************************)

Constructed == app \in {"starting", "running", "stopping", "stopped"}

\* The values the state of the program can have.
TypeOK ==
  /\ input \in Inputs
  /\ app \in {"parsing", "constructing", "ingesting", "bundling", "starting",
              "running", "stopping", "stopped", "failed"}
  /\ Constructed =>
       /\ main \in Files(input)
       /\ settings.interval \in Nat \ {0} /\ settings.ttl \in 1 .. Limit - 1
       /\ Sequence(settings.globs)
       /\ jitterer \in [base : 0 .. Limit - 1, choose : 0 .. Limit - 1]
  /\ DOMAIN bundle \subseteq Names
  /\ hooks \in Seq(Names \union {Checker})
  /\ started \in 0 .. Len(hooks)
  /\ checking \in BOOLEAN /\ requested \in BOOLEAN
  /\ serving \in [Names -> {"none", "spawned", "up", "ended"}]
  /\ early \subseteq Names

\* A configuration that cannot be used as it is never leads to a program that
\* serves something else: not if the file that was named is missing
\* ("if a custom config file was specified but not found, we don't load the
\* default config", commandLine.go:48), and not if a file has an unknown key, a
\* jitter outside [0, 1), a wrong network or a name used for two servers.
UnusableNeverServes ==
  LET file == IF input.cl.named THEN input.cl.confFile ELSE input.searched
      usable ==
        /\ file.exists /\ file.yaml /\ file.exact
        /\ file.dns.zone.jitter \in 0 .. One - 1
        /\ \A n \in DOMAIN file.dns.udp :
             /\ n \notin DOMAIN file.dns.tcp
             /\ file.dns.udp[n].network \in {"", "udp", "udp4", "udp6"}
        /\ \A n \in DOMAIN file.dns.tcp :
             file.dns.tcp[n].network \in {"", "tcp", "tcp4", "tcp6"}
  IN ~usable /\ (file = Missing => input.cl.named)
       => \A n \in Names : serving[n] = "none"

\* When the app runs, each configured server was started, by a hook of its own
\* that also stops it, and its handler logs for it and not for another one.
\* Three passes over a Go map, each storing copies of its values, lead there.
EachServerOnce ==
  app = "running" =>
    /\ Len(hooks) = Cardinality(ServerNames(main)) + 1
    /\ \A n \in ServerNames(main) : serving[n] # "none" /\ bundle[n].handler = n

\* Requests are only served while the Groups they are answered from are kept up
\* to date: from the start of the IngestChecker, after the boot ingest, until
\* after the server was shut down.  The exception is a server that was shut
\* down before it listened, if it then does.
ServesOnlyWhileChecked ==
  \A n \in Names : serving[n] = "up" => checking \/ n \in early

\* A shutdown leaves no server listening, with the same exception: the goroutine
\* of a hook is not waited for, so Stop may come before ListenAndServe.
ShutdownLeavesNoServer ==
  app = "stopped" => \A n \in Names \ early : serving[n] \in {"none", "ended"}

\* "If any server's exit, the given shutdowner is used to shutdown the entire
\* app" (bundle.go:94-95): also if that is while the app still starts, and if
\* the server never listened.
OneDownAllDown == (\E n \in Names : serving[n] = "ended") ~> app = "stopped"

\* What reaches the constructors is what was configured: the interval of the
\* command line, else the file's, else the default, so that time.NewTicker never
\* gets one it panics for; the TTL of the file, else the default, as the nearest
\* second but at least one, as long as that is a uint32; the level that --debug
\* gives, else the file's; and the globs of the file, then those of the command
\* line, expanded.  Globs stay relative to the working directory, not to the conf file
\* as the help of --zone-files has it (commandLine.go:28).
SettingsHonored ==
  settings # Unset =>
    LET cl == input.cl
        groups == main.groups
        ttl == IF groups.defaultTTL > 0 THEN groups.defaultTTL ELSE DefaultFileTTL
        interval == settings.interval
    IN /\ cl.checkInterval > 0 => interval = cl.checkInterval
       /\ cl.checkInterval <= 0 /\ groups.checkInterval > 0 => interval = groups.checkInterval
       /\ cl.checkInterval <= 0 /\ groups.checkInterval <= 0 => interval = DefaultCheckInterval
       /\ settings.ttl > 0
       /\ ttl = 1 => settings.ttl = 1
       /\ ttl \in 2 .. 4 * Limit - 3 => ttl - 4 * settings.ttl \in -2 .. 1
       /\ settings.level = IF cl.debug = "unset" THEN main.level ELSE cl.debug
       /\ settings.globs = WithGlobs(groups.zoneFiles) \o WithGlobs(cl.zoneFiles)

\* The TTLs of the answers are exactly those within the percentage of the zone's
\* TTL, both ends included, while float32 is exact for these numbers; as long as
\* the upper end still is a uint32, its ends are off by what rounding changes, and
\* no unsigned operation wraps around.
TTLsInRange ==
  Constructed =>
    \A value \in DurationToSeconds(main.dns.zone.ttl) :
      jitterer \in NewTTLJitterer(value, main.dns.zone.jitter) =>
      LET percent == main.dns.zone.jitter
          lowest == (One - percent) * value
          highest == (One + percent) * value
      IN /\ highest < 2 ^ Precision =>
              TTLs(jitterer) = lowest \div One .. highest \div One
         /\ Fits(value, percent) =>
              /\ TTLs(jitterer) = Lowest(jitterer) .. Highest(jitterer)
              /\ Lowest(jitterer) \in Rounded(lowest)
              /\ Highest(jitterer) \in Rounded(highest)

=============================================================================
