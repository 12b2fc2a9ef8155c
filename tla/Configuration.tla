--------------------------- MODULE Configuration ---------------------------
(***************************************************************************)
(* How the settings of cmd/hashy/commandLine.go and config/config.go reach *)
(* the constructors: which configuration is read, what the command line    *)
(* changes of it, and which defaults the constructors put in.  Durations   *)
(* are integers, 0 if they are not set: TTLs are quarters of a second, of  *)
(* which TTLJitter.tla makes seconds, and the unit of intervals is any.    *)
(***************************************************************************)
EXTENDS TTLJitter, Sequences

CONSTANTS
  DefaultFile,           \* config.Default, embedded in the program
  DefaultCheckInterval,  \* service.DefaultCheckInterval
  DefaultFileTTL,        \* service.DefaultFileIngesterTTL
  ExpandEnv(_)           \* os.ExpandEnv

ASSUME ConfigurationAssumption ==
  DefaultCheckInterval \in Nat \ {0} /\ DefaultFileTTL \in Nat \ {0}

\* A file that is not there, and one that cannot be parsed as YAML.
Missing == [exists |-> FALSE]
Unreadable == [exists |-> TRUE, yaml |-> FALSE]

\* Mutant: the embedded configuration stands in for any file not found.
AlwaysDefault(cl, searched) ==
  IF cl.confFile.exists /\ cl.confFile.yaml THEN {cl.confFile}
  ELSE IF cl.confFile = Missing /\ searched = Missing THEN {DefaultFile}
  ELSE IF searched.exists /\ searched.yaml THEN {searched} ELSE {}

\* newViper: the configuration that is read, none if that is an error.  The
\* file that --conf-file names is the only one looked at, otherwise the file
\* searched for; without one, the embedded configuration is used.
NewViper(cl, searched) ==
  LET file == IF cl.named THEN cl.confFile ELSE searched
  IN IF file = Missing /\ ~cl.named THEN {DefaultFile}
     ELSE IF file.exists /\ file.yaml THEN {file} ELSE {}

\* config.Provide: UnmarshalExact does not accept a key it does not know.
Unmarshals(file) == file.exact

\* The keys of dns.udp and dns.tcp.
ServerNames(file) == DOMAIN file.dns.udp \union DOMAIN file.dns.tcp

\* decorateGroups: the globs of the command line come after those of the file,
\* and its interval, if there is one, instead of the file's.
DecorateGroups(cl, groups) ==
  [groups EXCEPT
     !.zoneFiles = @ \o cl.zoneFiles,
     !.checkInterval = IF cl.checkInterval > 0 THEN cl.checkInterval ELSE @]

\* WithGlobs expands the environment's variables.
WithGlobs(zoneFiles) == [i \in DOMAIN zoneFiles |-> ExpandEnv(zoneFiles[i])]

\* Mutant: only an interval that was left out is replaced.
KeepsNegative(v) == IF v = 0 THEN DefaultCheckInterval ELSE v

\* NewIngestChecker: the interval the ticker gets.
CheckInterval(v) == IF v <= 0 THEN DefaultCheckInterval ELSE v

\* WithTTL, then NewFileIngester: the TTL, in seconds, of zone files that state
\* none.
FileTTL(v) ==
  {IF seconds = 0 THEN default ELSE seconds :
     seconds \in DurationToSeconds(v), default \in DurationToSeconds(DefaultFileTTL)}

\* decorateSallust: the level of the log, as the file says if the command line
\* does not.
DecorateSallust(cl, level) == IF cl.debug = "unset" THEN level ELSE cl.debug

=============================================================================
