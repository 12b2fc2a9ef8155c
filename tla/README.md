# A TLA+ model of hashy

hashy is a DNS server. It reads zone files, builds *groups* of *endpoints* from
them, keeps one consistent hash ring per group, and answers a question for
`{object}.endpoint.{zone}` with the addresses of the endpoints nearest to the
object, and a TXT question below `group.{zone}` with what it knows of the
groups. These modules model the program from its command line to its exit: the
configuration it reads, the servers it starts and stops, the goroutine that
re-reads the files, the reading itself, the collection of records, the locator
that requests share with updates, and the requests. TLC checks small instances;
theorems that TLAPS has proved hold for all values of the constants.

## The system

| Component | State | Operations | Used by / uses |
| --- | --- | --- | --- |
| `IngestChecker` (`service/ingester.go`) | `runLock`, `cancelFunc`; a goroutine with a context and a ticker | `Start`, `Stop`, `run` | fx hooks call it; it calls `Ingester.Ingest` |
| `FileIngester` (`service/fileIngester.go`) | atomics `first`, `checksum`; configuration (globs, discovery domain, listeners) | `Ingest` | the boot invoke and the checker call it; it calls `RRCollector` and its listeners |
| `RRCollector`, `Values`, `Deduper` (`service/collectors.go`, `values.go`, `dedupe.go`) | maps of groups, services and endpoints; slices of addresses | `AddRR`, `Build`, `Reset` | one per `Ingest`; returns a `Groups` |
| `Locator` (`service/locator.go`) | `groups`, `ringsByName`, `allRings` under an `RWMutex` | `OnIngest`, `Update`, `Find`, `FindString`, `Groups` | first listener of the ingester; asked by requests |
| `Handler`, `EndpointHandler`, `GroupHandler` (`server/`) | one operation per request | `ServeDNS`, `ServeRequest` | called by the DNS servers; asks the Locator |
| service wiring (`service/provide.go`) | none | boot ingest, start and stop hooks | fx |
| Group definitions (`service/groupDefinition.go`) | table of characters, filled once | `validateGroupName`, `ParseGroupDefinition` | called by the collector |
| DNS servers (`server/bundle.go`, `servers.go`, `provide.go`) | a `Bundle` of servers by name; listening sockets | `NewBundle`, `UseLogger`, `UseHandler`, `BindToLifecycle`, `Info.Start`, `Info.Stop` | fx; shut the application down when one ends |
| TTL jitter (`ttl.go`) | an immutable range | `NewTTLJitterer`, `Range`, `TTL` | created with the handlers, which ask it for TTLs |
| configuration and command line (`config/`, `cmd/hashy/`) | read once | `newViper`, `decorateGroups`, `decorateSallust`, `config.Provide` | everything |
| logging (`hashyzap/`) | none | formats fields | everything |

The hard behaviours, by component:

* *IngestChecker*: `Start` and `Stop` race; `Stop` does not wait for the
  goroutine; `select` picks at random between `Done` and a tick; an `Ingest` may
  last longer than the interval.
* *FileIngester*: files change between two reads of one `Ingest`; any file or
  glob may fail; the context may end between two files; two atomics are changed
  by separate instructions; events go out after the swap and outside of it.
* *RRCollector*: records come in any order and repeatedly; an `Endpoint` is
  copied with its slices, so that several groups share an array which
  `Values.Dedupe` changes in place.
* *Locator*: three fields are replaced while requests iterate over rings.
* *Handler*: requests use what the Locator returned after the lock is released;
  the Locator may have no `Groups` yet; a group may have no endpoints.
* *Group definitions*: loops over characters end one too early; the text of
  several definitions may fail after some were taken.
* *Servers*: hooks are made in a loop over a Go map and hold copies of its values;
  a hook does not wait for its server to listen, so that `Stop` may come first; a
  server may end at any time, also while the application starts.
* *TTL jitter*: `float32` rounds, `uint32` conversions and differences may wrap.
* *Configuration*: several sources and a default, each of which may be absent or
  broken; values of two sources are merged and then given defaults.

What makes it correct: no goroutine is lost; only changes and errors are
dispatched, and every change is; listeners end up with the files as they are; the
groups depend on the set of records only; every request is answered from
one Update; only a usable configuration is served, only while the groups are
kept up to date; one server that ends takes the program with it.

## Modules

| Module | Role |
| --- | --- |
| `IngestChecker` | `Start`, `Stop`, `run`, for any callers |
| `IngestCheckerProofs` | its theorems |
| `FileIngester` | `Ingest`, for serial or overlapping calls, with the files and contexts as environment |
| `IngestHistory` | `FileIngester` with a history of what was delivered, for calls that overlap |
| `FileIngesterProofs` | their theorems |
| `Slices` | loops that append, and sorting, for the modules below |
| `GroupDefinition` | the names a group may have, byte by byte, and the rules the errors state |
| `RRCollector` | `AddRR` and `Build` with slices and arrays, and a reference definition of what `Build` should return |
| `RRCollectorProofs` | its theorems |
| `LocatorService` | what a locator promises: every Update and request takes effect at one instant |
| `Locator` | the code of the locator, a refinement of `LocatorService` |
| `LocatorProofs` | its theorems, among them the refinement |
| `Handler` | `ServeDNS` on top of `LocatorService`, and itself a refinement of `LocatorService` with whole responses as replies |
| `HandlerProofs` | its theorems, among them that refinement |
| `Hashy` | `IngestChecker` and `FileIngester` composed under the fx lifecycle |
| `HashyProofs` | its theorems, which lift those of `FileIngesterProofs` to the application |
| `TTLJitter` | `NewTTLJitterer`, `Range`, `TTL` with scaled `uint32` and `float32` |
| `Configuration` | which configuration is read, what the command line changes, which defaults apply |
| `Program` | the program from parsing to exit, with the servers' hooks and goroutines, over `Configuration` and `TTLJitter` |
| `ProgramProofs` | its theorems, and those of `TTLJitter` |
| `SequenceLemmas` | what the proofs need to know of numbers, finite sets and sequences |
| `MC*` | the instances TLC checks |

`Hashy` instantiates the two components and shares their variables: a tick calls
`Ingest` with the goroutine's context (`CallIngest`), `Stop` cancels that context
in both (`StopHook`). `Handler` instantiates `LocatorService` twice: once as the
Locator it asks (`Locating`), once as the promise it keeps (`Serving`). So the
chain is `Locator` => `LocatorService`, and `Handler` over `LocatorService` =>
`LocatorService` with responses as replies. `Program` is the level above: the boot
ingest and the `IngestChecker` are one step and one flag in it, which `Hashy`
details.

### State and actions against the code

* **IngestChecker.** `runLock` and `cancelFunc` are the fields; a context stands
  for the goroutine that was started with it (`run[x]`, `tick[x]`, `x \in
  canceled`). A call of `Start` or `Stop` is `Lock`, one of the branches, and
  `Unlock`, so that the nil check and the assignment are separate steps and only
  the lock keeps them together. `run` is `NewTicker`, then `TakeDone` or
  `TakeTick`, and `IngestReturns`. A ticker holds at most one tick, as its channel
  does. The interval is abstracted: `Fire` may happen at any time.
* **FileIngester.** One action per step another call or an editor could come
  between: loading the checksum (`Begin`), expanding one glob (`ExpandGlob`,
  `GlobFails`), reading one file (`ReadFile`, `FileFails`), each atomic operation
  (`TakeFirst`, `NotFirst`, `StoreFirst`, `Changed`, `Unchanged`, `Swap`,
  `SwapFails`), each listener (`Tell`) and `Return`. A text is a model value; the
  `Groups` built from a reading is the reading. An included file is parsed but not
  hashed, as in the code. Opening a file and reading it is one step. `IngestHistory`
  adds `informed`, the listeners that were given groups of the checksum since it was
  recorded. No guard reads it, so the runs of `FileIngester` all use it.
* **RRCollector.** Names and addresses are small numbers, since `Build` sorts
  them. A slice is an array and a length; `Grow` doubles a full one; `Dedupe` is
  `slices.Delete` (which zeroes the tail) followed by `AppendTo` to what is left,
  in place if the capacity allows; its `left` is what the old array then begins with,
  zeros included, which is what another slice that shares the array sees. The name
  of a group is a sequence of bytes, so that `ValidGroupName` checks what the code's table of
  characters admits; splitting a text into fields is left to the instance. Sorting
  is `Slices!SortedBy`, which puts every element where as many come before it.
* **Locator.** A ring is the set of its endpoints, where an object falls on
  it is the constant `Nearest`. The three assignments of `Update` are three
  actions; a request visits one ring per action. The `RWMutex` is modelled by what
  it promises: a waiting writer holds up new readers.
* **Handler.** A name is a domain and labels, a label the sequence of its parts
  between hyphens. `StartOperation`, the three refusals, `AskLocator`,
  `LocatorReplies` and `LocatorReturns`, `Answer` or `Panic`, and the deferred
  `Finish`, which also runs before a panic ends the process. Whether the DNS
  library recovers panics cannot be told from this repository, so both are
  possible. The order that `Shuffle` gives is any order: `Orders` is the set of
  them, and two responses are the same reply if their orders are. Headers and
  TTLs are left out.
* **Hashy.** `app` is the phase of the fx application. A failed boot ingest does
  not keep it from starting, as `Provide` ignores what `Ingest` does.
* **Configuration, Program.** `app` is where the main goroutine is: `AfterApply`
  reads the configuration while kong parses, `ProvideIngester`, `ProvideChecker`
  and `ProvideServers` are the constructors and invokes of `fx.New` in their
  order, `StartHook` and `StopHook` run one hook each. `hooks` is what the
  lifecycle was given, the servers' in any order, as a Go map has none. A server's
  goroutine is `serving[n]`; it listens (`Listen`) and ends (`ServerEnds`), for
  whatever reason, at any time. A function that may return an error is a set: of
  its result, or empty. A TTL is configured in quarters of a second, of which
  `DurationToSeconds` makes seconds; a conversion out of range has several results.
* **TTLJitter.** `Width` and `Precision` stand for the 32 bits of `uint32` and the
  24 of a `float32`'s mantissa; `Float` rounds to nearest, ties to even. `Uint`
  wraps or saturates, as the language leaves a conversion that is out of range to
  the architecture.

What is assumed of fx: it runs OnStart hooks in the order they were appended and
OnStop hooks in reverse, and remembers a shutdown requested before the application
waits for one. What is assumed of the DNS library: `Shutdown` of a server that
does not listen yet fails; whether that server listens afterwards is open.

## Runs

| Run | Checks | Bounds |
| --- | --- | --- |
| `IngestChecker` | `NoOrphan`: a goroutine not yet canceled is the one `cancelFunc` ends. `TrustedCancelFunc`: a non-nil `cancelFunc` stands for a goroutine that runs. `StoppedReturns`, `KeepsChecking` | 2 callers, 3 goroutines alive at once |
| `IngestCheckerStop` | **violated**: `StopHaltsIngest` | the same |
| `IngestSerial` | `ListenerAgrees`: between calls the checksum stands for what every listener has. `OnlyChangesDispatched`. `Converges`, `FailureReported` | 1 caller, 2 paths, 3 texts of which 1 malformed, 3 edits, 2 listeners; globs that share a file, or a malformed pattern |
| `IngestOverlap` | `RecordedIsDelivered`: when no call is under way, every listener was given groups of the recorded checksum since it was recorded. `ChecksumConverges` | 2 overlapping callers, one can be canceled; 2 edits, 2 listeners |
| `IngestIncludes` | **violated**: `Converges` when a zone file includes another | 1 caller, 2 edits |
| `Collect` | `NamesMeetReference`, `AddressesMeetReference`: `Build` returns what the *set* of records defines. `BuiltNamesDocumented`: only names that follow the rules become groups | 7 records out of 17, in any order, repeated at will |
| `CollectDuplicates` | **violated**: `AddressesDeduped` | 6 records |
| `CollectNames` | **violated**: `DocumentedNamesAccepted` | 2 records |
| `Locator` | `ReadersSeeOneUpdate`; `Linearizable`: it refines `LocatorService`; `NobodyStarves` | 2 updaters, 2 readers, 2 groups, 4 requests |
| `Handler` | `OneUpdatePerResponse`: requests are linearizable end to end. `PanicsAreKnown`: panics only from a request that came before the first Update, or one that may meet a group without endpoints. `EveryRequestEnds` | 2 requests at a time, 8 kinds of request, 1 updater, 2 `Groups` |
| `Hashy` | `SerialIngest`: calls of `Ingest` never overlap. `LocatorAgrees`, `OnlyChangesDispatched`: so the guarantees of serial calls hold, also across failures and cancellation. `EditsReachLocator`, `ShutdownIsFinal` | 2 files, 2 texts, 2 listeners, 2 edits, 2 contexts |
| `Program` | `UnusableNeverServes`: a configuration that is missing, broken or contradictory is not served, nor another one in its place. `EachServerOnce`: one hook, server and logger for each name. `ServesOnlyWhileChecked`, `ShutdownLeavesNoServer`, but for a server that was shut down before it listened. `SettingsHonored`: interval, TTL, level and globs are the command line's, the file's or the defaults, in that order. `TTLsInRange`. `OneDownAllDown`: one server that ends takes the program down | 2 names of servers, 881 pairs of a command line and a file, durations on either side of every half second; TTLs of 5 bits, mantissas of 4, percentages in eighths |

The type invariant `TypeOK` of each module is checked once, by the first of its
runs.

Why these bounds are enough to be interesting: three contexts let one goroutine
end, one be canceled and one run; two paths are needed for a mixture of old and
new files, and two listeners for a moment at which one is told and the other is
not; seven records are enough for two groups that share a target whose addresses repeat,
which is where arrays are shared and where capacities 1, 2 and 4 occur;
two updaters and two readers bring about every state of the `RWMutex`; workers
of `Handler` only meet in the Locator and in the end of the process, so two do.
Two servers, of one protocol or of both, with equal or different names, give every
case of `Add` and two orders of hooks. With 5 bits and a mantissa of 4, all TTLs and
percentages are tried, among them those that are rounded up, rounded down and too large.

`MaxEdits` and `MaxRecords` bound the environment. `Contexts` bounds the
goroutines alive at once: a context is used again after its goroutine has ended.

`CHECK_DEADLOCK FALSE` is said where the system may stop: a collector whose
`Build` has returned or whose record was rejected (`Collect*`), an application
that was shut down or failed (`Hashy`, `Program`), a process that a panic ended (`Handler`).

### Fairness

* A goroutine that can go on does: weak fairness of its steps. Calls of `Start`,
  `Stop`, `Update` and requests, edits, cancellations and shutdowns need not happen.
* `TakeDone` has strong fairness: `select` picks at random among the cases that
  are ready, so `Done`, which stays ready, is picked in the end although a tick is
  ready each time too. `StoppedReturns` and `ShutdownIsFinal` need it.
* `Locator`'s `Lock` has strong fairness: writers queue on a `sync.Mutex`, whose
  starvation mode hands it to the longest waiter.
* `Fairness` of `FileIngester` has `Begin` fair: the ticker goes on calling
  `Ingest`. `Hashy` derives it from the ticker and the goroutine.
* `Program` has the main goroutine's steps and each server's `Listen` weakly fair;
  signals and failures need not happen. That the program stops after a server has
  ended rests on the main goroutine alone, as fx remembers the request.
* `Handler` takes from `Locator` that its calls return, which `NobodyStarves` shows
  of requests and updates alike.

## Findings

1. `IngestChecker.Stop` says it "atomically halts invoking Ingest"; an `Ingest`
   can begin after it has returned (`IngestCheckerStop`). For the same reason, and
   as `Stop` does not wait, `Stop` and then `Start` can leave two goroutines alive
   at once, against the comment of the type.
2. Files read through `$INCLUDE` are not covered by the checksum: their changes
   are not dispatched (`IngestIncludes`).
3. `Values.Dedupe` appends the distinct values to the first ones instead of
   replacing them (`CollectDuplicates`), and zeroes elements of an array another
   group's endpoint uses. Both need an address record that occurs twice.
4. Names of groups with a `z` or a `9` are rejected, against the texts of the
   errors, and with them the whole `Ingest` (`CollectNames`).

Seen while modelling, without a run of their own:

* overlapping first calls of `Ingest` dispatch the same groups twice, against the
  comment of `IngestListener` (`ingester.go:32`), as `first` is set before the
  checksum is stored; the application never overlaps calls;
* the help of `--zone-files` says that "relative paths are resolved relative to the
  conf file" (`commandLine.go:28`). No code does so: `decorateGroups` appends them and
  `WithGlobs` only expands variables, so `filepath.Glob` matches them in the working
  directory. `SettingsHonored` says what is done, not what the help says;
* `endpointsFor` leaves out targets without addresses although its comment calls
  the output 1-1 with the names (`SkipTarget`; `NamesMeetReference` has it as the code does);
* group requests panic as long as no `Ingest` has succeeded;
* both constructors of servers set `ReuseAddr` from `ReusePort`
  (`servers.go:54`, `91`), so that the setting of its own has no effect;
* a server that cannot listen shuts the program down as if it were asked to;
* an object that contains a hyphen is split, and the second part is hashed, whether
  or not the first was meant as a prefix: the documents leave that open.

## Proofs

| Theorem | Says |
| --- | --- |
| `IngestCheckerProofs!TypeCorrect`, `NoGoroutineLeaks`, `CancelFuncIsTrusted` | `TypeOK`, `NoOrphan`, `TrustedCancelFunc` for any callers and contexts |
| `FileIngesterProofs!TypeCorrect` | `TypeOK` for any number of overlapping calls |
| `FileIngesterProofs!Agreement`, `OnlyChanges` | `ListenerAgrees`, `OnlyChangesDispatched` as long as calls do not overlap, for any files, texts, includes, checksum (also one with collisions), listeners, edits and cancellations |
| `FileIngesterProofs!Delivered` | `RecordedIsDelivered` for any number of overlapping calls |
| `RRCollectorProofs!CollectedInvariance`, `TypeCorrect` | what was collected and built so far is what the records say; no slice reaches beyond its array (`TypeOK`) |
| `RRCollectorProofs!NamesMeet`, `AddressesMeet` | `NamesMeetReference`, `AddressesMeetReference`: `Build` returns what the *set* of records defines, for any records, in any order, repeated at will |
| `RRCollectorProofs!NamesDocumented` | `BuiltNamesDocumented` for any records |
| `LocatorProofs!TypeCorrect`, `NoTornRead` | `TypeOK`, `ReadersSeeOneUpdate` for any updaters, readers and groups |
| `LocatorProofs!Refinement` | `Spec => Linearizable`: the locator implements `LocatorService` |
| `HandlerProofs!Linearizable` | `Spec => OneUpdatePerResponse`: whole requests do too |
| `HandlerProofs!TypeCorrect`, `OnlyKnownPanics` | `TypeOK`, in particular a response only has records of the type that was asked for; `PanicsAreKnown`: nothing else panics |
| `HashyProofs!CallsAreSerial` | `SerialIngest`: the application keeps calls of `Ingest` apart |
| `HashyProofs!ImplementsIngester`, `Agreement`, `OnlyChanges` | the application is a `FileIngester`, so `LocatorAgrees` and `OnlyChangesDispatched` hold in it |
| `HashyProofs!ImplementsChecker`, `NoGoroutineLeaks`, `TypeCorrect` | it is an `IngestChecker` too, so no goroutine is lost; with both, its `TypeOK` |
| `ProgramProofs!Checked`, `Shutdown`, `Unusable`, `ServersOnce` | `ServesOnlyWhileChecked`, `ShutdownLeavesNoServer`, `UnusableNeverServes`, `EachServerOnce` for any configurations and servers |
| `ProgramProofs!TypeCorrect`, `Settings`, `TTLsRange` | `TypeOK`, `SettingsHonored`, `TTLsInRange` likewise |
| `ProgramProofs!RangeWithinRounding`, `ExactRange` | for any width, precision, percentage and TTL: the bounds of the range are those of the percentage up to three roundings, and exactly those while `float32` is exact; nothing wraps |

The arguments:

* *IngestChecker.* `NoOrphan` alone is not inductive. The invariant also says
  who holds `runLock` and what each place inside `Start` and `Stop` knows of
  `cancelFunc`: that it is nil before a spawn, and canceled before it is cleared.
* *FileIngester.* `ListenerAgrees` speaks of moments between calls. `Serial`
  says for each place of the call under way what it preserves: up to the swap the
  listeners still have what the checksum stands for and `old` is the checksum;
  while groups are dispatched, the listeners told have the new groups and the
  others have groups of another checksum, or none. The premise is `[]SerialCalls`,
  not a single caller: the application calls from the boot invoke and from
  goroutines. For overlapping calls that invariant is
  of no use. `Delivery` says instead that a listener without groups of the recorded
  checksum is still to be told by a call that dispatches such groups, or that a
  first call has yet to store its checksum: so once no call is under way nothing is
  owed (`StillOwed`, `DeliveryStep`).
* *RRCollector.* The invariant `Collected` relates the maps and slices to the
  history `added`, and what is built to the reference. While records are added, the
  services of a group, the targets of a service and the addresses of a target are,
  as sets, those of the records; a slice has its own array and a length within it.
  While `Build` runs, the groups in `gps` are the first ones of `SortedNames`,
  each with its endpoints, the last up to those whose names are left, all of which
  come after the ones it has. That this ends in `Reference` needs that sorting
  depends on the set alone: `SortedBy` is increasing for a strict order and a slice
  without duplicates, and there is only one increasing sequence of a set's elements
  (`SequenceLemmas!SortedElements`, `SameInOrder`); strings are strictly ordered
  (`NamesOrdered`). The addresses are the delicate part. A slice without duplicates
  is deduped where it is, so that the copy, the collector's slice and the copies of
  earlier groups share one array, with elements that a later copy sorts again, which
  changes nothing. A slice with duplicates may move to an array that is named for
  its group, which nobody else uses; the types (`SliceBuilt`) hold for it also.
  `NamesDocumented` rests on another invariant: the names in `groups` are valid when
  they are added; that the checks of the first, the last and the inner bytes cover
  all of them is the lemma `ValidIsDocumented`.
* *Locator.* The invariant adds mutual exclusion of the `RWMutex` (no reader is
  inside while a writer is past `Locked`), that each place in `Update` knows which
  fields are already those of `given`, and that what a reader has found so far is a
  prefix of the answer from the current `groups`. Update takes effect when it
  assigns `l.groups`, a request when it comes to its end inside the lock; every
  other step is a stutter of `LocatorService`.
* *Handler.* A request takes effect when the Locator replies. What remains until the
  response is written is fixed but for the order of its records, and any order of
  the records has the same set of orders (`ShuffledAgain`). The invariant says that a
  worker asks for its own request and that nothing was answered before. For the
  types and the panics, `Types` adds that what the Locator replied comes from
  Groups that were published, if the request came after the first Update. What the
  answer then can hold is told by lemmas on the loops that collect records
  (`SequenceLemmas!FlattenProperties`, `KeepProperties`).
* *Hashy.* `CallsAreSerial` cannot come from either component: the checker spawns
  as many goroutines as it is told to, and the ingester takes any number of calls.
  The invariant follows the phases: the boot ingest is over when the start hook
  runs, the hook runs once, and a call with a context lasts no longer than the
  goroutine's tick. With it, the application's steps are steps of `FileIngester` that
  satisfy `SerialCalls`, and its theorems are instances of `FileIngesterProofs`'; they
  are steps of `IngestChecker`, with one caller, by their definition.
* *Program.* The invariant says that nothing runs before the hooks, that the
  checker's hook comes first, and so stops last, and that whatever runs belongs to a
  hook that is started; for the others, what each phase knows of the configuration
  it has passed, and of what was made of it.
* *TTLJitter.* Rounding is monotone and changes a number by no more than one part in
  `2 ^ Precision`. So the lower bound is not above the upper one, both are within
  three roundings of the exact ones (of the factor, of the value and of their
  product), and the difference is less than `Limit`. Below `2 ^ Precision` nothing is
  rounded.

### Assumptions

The theorems assume the named `ASSUME`s of the modules, which TLC evaluates in the
runs; none restricts what the code allows, but for the percentages named below.

* `CheckerAssumption`, `LocatorAssumption`, `IngesterAssumption`, `HashyAssumption`:
  values that stand for nil or for nothing are none of the others; constants have
  the type the code gives them; names of a `Groups` are distinct, as `RRCollector`
  makes them.
* `CollectorAssumption`: a record of a type has the fields of that type. A name of
  a group is any sequence of bytes.
* `HandlerAssumption`: `Groups` and messages are built of sequences. `RingAssumption`
  is what medley promises: an object falls on an endpoint of the ring, or on nil if
  the ring is empty.
* `ConfigurationAssumption`, `ProgramAssumption`: the embedded configuration can be
  parsed, and what is parsed has the types of the fields of `config.Config`.
* `JitterAssumption`: a mantissa is not longer than a TTL, and a percentage is a
  number of parts of a power of two, no more than a quarter of `Limit`, which is
  2^32 in the code; with 2^30 parts, every `float32` from 1/64 up is such a number,
  and smaller ones, which have finer parts, are left out. `PowerAssumption` says
  what `2 ^ i` is, which no prover knows.

### Only model-checked

Every invariant and every action property of a passing run is proved. What remains
with TLC is what needs fairness, which the prover does not handle: `StoppedReturns`,
`KeepsChecking`, `Converges`, `FailureReported`, `ChecksumConverges`,
`NobodyStarves`, `EditsReachLocator`, `ShutdownIsFinal`, `EveryRequestEnds`,
`OneDownAllDown`; and the violations. Where a proof needs induction over a sequence or a number (what a loop
collects, that sorting places every element), it goes through a set of numbers and
its least element (`SequenceLemmas!Induction`, `LeastElement`), since the library's
induction theorems cannot be applied.

## Not modelled

* The DNS message library, the zone parser, fx, medley and `time.Ticker` are
  external and modelled by how the code uses them.
* Logging; the addresses, sizes and timeouts of servers, which are passed on to the
  DNS library and come down to what `Listen` and `ServerEnds` may do; how kong and
  viper parse; `MergeGroupDefinitions`, which nothing calls; iterators and
  accessors, as far as nothing above uses them.
* Which TTL of the range a record gets: `rand` is any choice.
* The binary hash protocol, group hashes and the Talaria flows of `README.md`
  and `DESIGN.md` are not in the code.
* Memory below the level of the fields: `Locator`'s fields are only touched
  under the lock, `FileIngester`'s are atomics, so there is no data race to model.

## Left

* The whole application in one module, with `Handler`'s requests in `Hashy` and
  `Program`, so that a group request that meets a nil `Groups` is shown from the
  command line on. The parts meet in `LocatorService` and in the flag `checking`.
* The reading of `FileIngester` and the records of `RRCollector` meet in the `Groups`
  of an event: that an `Ingest` of the same texts builds the same `Groups` follows
  from `NamesMeetReference` and `AddressesMeetReference`, but is not stated across the
  two modules.
