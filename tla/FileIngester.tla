---------------------------- MODULE FileIngester ----------------------------
(***************************************************************************)
(* service.FileIngester: Ingest expands the configured globs, parses every *)
(* zone file they match, and tells its listeners of a failure, of the      *)
(* first groups, or of groups read from changed files.  Whether files have *)
(* changed is told by one checksum over their bytes, kept with the first   *)
(* flag in two atomics that all calls of Ingest share.                     *)
(*                                                                         *)
(* The files are edited by others at any time, also between two reads of   *)
(* one Ingest.  A file's text is a member of Contents; a partly written    *)
(* file is one more text.  The Groups built from a reading are represented *)
(* by the reading itself, the sequence of texts parsed.                    *)
(***************************************************************************)
EXTENDS Naturals, Slices

CONSTANTS
  Calls,         \* goroutines that call Ingest, one call each at a time
  Cancelable,    \* the calls whose context may be canceled
  Paths,         \* paths of zone files and of files they include
  Contents,      \* texts a file may hold
  Malformed,     \* the texts whose parsing, or whose AddRR, returns an error
  Includes,      \* Includes[v]: the path text v includes, or NoPath
  NoPath,
  NoContent,     \* what is at a path without a file
  Configurations, \* values of fi.globs: the paths each pattern matches, sorted
  BadPattern,    \* a pattern filepath.Glob rejects
  Checksum(_),   \* checksum of a sequence of texts (Adler-32 by default)
  NoEvent,       \* zero IngestEvent
  Failure,       \* an IngestEvent with Err set
  NumListeners,  \* length of fi.listeners
  MaxEdits       \* bound on the edits of files, for model checking

\* One file as read: its own text, which is hashed, and that of the file it
\* includes, which the parser opens by itself and nobody hashes.
Reading == [file : Contents, included : Contents \union {NoContent}]

IngesterConstants ==
  /\ Cancelable \subseteq Calls
  /\ Malformed \subseteq Contents
  /\ NoContent \notin Contents
  /\ NoPath \notin Paths
  /\ Includes \in [Contents -> Paths \union {NoPath}]
  /\ NumListeners \in Nat
  /\ MaxEdits \in Nat
  /\ Failure # NoEvent
  /\ Configurations \subseteq Seq({BadPattern} \union Seq(Paths))
  /\ NoEvent \notin Seq(Reading) /\ Failure \notin Seq(Reading)

ASSUME IngesterAssumption == IngesterConstants

VARIABLES
  globs,     \* fi.globs, set once
  disk,      \* disk[p]: the text at path p, or NoContent
  edits,     \* number of edits so far, up to MaxEdits
  expired,   \* the calls whose context is canceled
  first,     \* fi.first: a first Ingest has succeeded
  checksum,  \* fi.checksum
  pc,        \* pc[c]: where call c is in Ingest
  old,       \* old[c]: oldChecksum
  globsLeft, \* globsLeft[c]: the globs not expanded yet
  files,     \* files[c]: the rest of the matches of the current glob
  seen,      \* seen[c]: the texts read, as hashed and as parsed
  event,     \* event[c]: the IngestEvent to dispatch
  told,      \* told[c]: how many listeners got event[c]
  heard,     \* heard[l]: the last groups listener l was given, or NoEvent
  lastEvent  \* lastEvent[l]: the last event listener l was given

env == <<globs, disk, edits, expired>>
shared == <<first, checksum>>
locals == <<pc, old, globsLeft, files, seen, event, told>>
sinks == <<heard, lastEvent>>
ingesterVars == <<env, shared, locals, sinks>>

Listeners == 1 .. NumListeners

\* The bytes of a reading that the checksum covers.
Hashed(reading) == [i \in DOMAIN reading |-> reading[i].file]
Sum(reading) == Checksum(Hashed(reading))

Init ==
  /\ globs \in Configurations
  /\ disk \in [Paths -> Contents \union {NoContent}]
  /\ edits = 0
  /\ expired = {}
  /\ first = FALSE
  /\ checksum = 0
  /\ pc = [c \in Calls |-> "idle"]
  /\ old = [c \in Calls |-> 0]
  /\ globsLeft = [c \in Calls |-> <<>>]
  /\ files = [c \in Calls |-> <<>>]
  /\ seen = [c \in Calls |-> <<>>]
  /\ event = [c \in Calls |-> NoEvent]
  /\ told = [c \in Calls |-> 0]
  /\ heard = [l \in Listeners |-> NoEvent]
  /\ lastEvent = [l \in Listeners |-> NoEvent]

(***************************************************************************)
(* The environment: files change, contexts end.                            *)
(***************************************************************************)

\* Somebody writes, replaces or removes the file at path p.
Edit(p) ==
  /\ edits < MaxEdits
  /\ \E v \in Contents \union {NoContent} :
       /\ v # disk[p]
       /\ disk' = [disk EXCEPT ![p] = v]
  /\ edits' = edits + 1
  /\ UNCHANGED <<globs, expired, shared, locals, sinks>>

\* The context that call c was given is canceled.
Cancel(c) ==
  /\ c \in Cancelable \ expired
  /\ pc[c] # "idle"
  /\ expired' = expired \union {c}
  /\ UNCHANGED <<globs, disk, edits, shared, locals, sinks>>

(***************************************************************************)
(* Ingest, with c for the calling goroutine.                               *)
(***************************************************************************)

Goto(c, label) == pc' = [pc EXCEPT ![c] = label]

\* Ingest starts with an empty collector and loads the checksum.  The context
\* it is given may have been canceled already.
Begin(c) ==
  /\ pc[c] = "idle"
  /\ Goto(c, "files")
  /\ old' = [old EXCEPT ![c] = checksum]
  /\ globsLeft' = [globsLeft EXCEPT ![c] = globs]
  /\ \E canceled \in SUBSET ({c} \intersect Cancelable) :
       expired' = (expired \ {c}) \union canceled
  /\ UNCHANGED <<globs, disk, edits, shared, files, seen, event, told, sinks>>

\* The end of a call: its variables are gone.
Finish(c) ==
  /\ Goto(c, "idle")
  /\ old' = [old EXCEPT ![c] = 0]
  /\ globsLeft' = [globsLeft EXCEPT ![c] = <<>>]
  /\ files' = [files EXCEPT ![c] = <<>>]
  /\ seen' = [seen EXCEPT ![c] = <<>>]
  /\ event' = [event EXCEPT ![c] = NoEvent]
  /\ told' = [told EXCEPT ![c] = 0]

\* The event is ready for the listeners.
Dispatch(c, e) ==
  /\ event' = [event EXCEPT ![c] = e]
  /\ Goto(c, "dispatch")

\* The files there are of the paths a glob may match, in their order.
Existing(paths) == Keep(paths, {p \in Paths : disk[p] # NoContent})

\* zoneFiles expands the next glob, when the files of the one before it
\* have been read, and sorts the matches.
ExpandGlob(c) ==
  /\ pc[c] = "files" /\ files[c] = <<>> /\ globsLeft[c] # <<>>
  /\ Head(globsLeft[c]) # BadPattern
  /\ files' = [files EXCEPT ![c] = Existing(Head(globsLeft[c]))]
  /\ globsLeft' = [globsLeft EXCEPT ![c] = Tail(@)]
  /\ UNCHANGED <<env, shared, pc, old, seen, event, told, sinks>>

\* Mutant: a pattern that filepath.Glob rejects is passed over.
GlobIgnored(c) ==
  /\ pc[c] = "files" /\ files[c] = <<>> /\ globsLeft[c] # <<>>
  /\ Head(globsLeft[c]) = BadPattern
  /\ globsLeft' = [globsLeft EXCEPT ![c] = Tail(@)]
  /\ UNCHANGED <<env, shared, pc, old, files, seen, event, told, sinks>>

\* filepath.Glob rejects the pattern.
GlobFails(c) ==
  /\ pc[c] = "files" /\ files[c] = <<>> /\ globsLeft[c] # <<>>
  /\ Head(globsLeft[c]) = BadPattern
  /\ Dispatch(c, Failure)
  /\ UNCHANGED <<env, shared, old, globsLeft, files, seen, told, sinks>>

Readable(v) == v \in Contents \ Malformed

\* The text that v includes, NoContent if it includes nothing.
IncludedBy(v) ==
  IF Includes[v] = NoPath THEN NoContent ELSE disk[Includes[v]]

Parses(v) ==
  /\ Readable(v)
  /\ Includes[v] # NoPath => Readable(IncludedBy(v))

\* The context has ended, or os.Open, the parser or AddRR returns an error:
\* the loop over the files ends with that error.
FileFails(c) ==
  /\ pc[c] = "files" /\ files[c] # <<>>
  /\ c \in expired \/ ~Parses(disk[Head(files[c])])
  /\ Dispatch(c, Failure)
  /\ UNCHANGED <<env, shared, old, globsLeft, files, seen, told, sinks>>

\* Mutant: a file that cannot be read is passed over.
SkipFile(c) ==
  /\ pc[c] = "files" /\ files[c] # <<>>
  /\ c \in expired \/ ~Parses(disk[Head(files[c])])
  /\ files' = [files EXCEPT ![c] = Tail(@)]
  /\ UNCHANGED <<env, shared, pc, old, globsLeft, seen, event, told, sinks>>

\* The next file is opened, hashed, parsed and collected.
ReadFile(c) ==
  /\ pc[c] = "files" /\ files[c] # <<>>
  /\ c \notin expired
  /\ LET text == disk[Head(files[c])] IN
       /\ Parses(text)
       /\ seen' = [seen EXCEPT ![c] =
                     Append(@, [file |-> text, included |-> IncludedBy(text)])]
  /\ files' = [files EXCEPT ![c] = Tail(@)]
  /\ UNCHANGED <<env, shared, pc, old, globsLeft, event, told, sinks>>

FilesDone(c) == pc[c] = "files" /\ files[c] = <<>> /\ globsLeft[c] = <<>>

\* first.CompareAndSwap(false, true) succeeds.
TakeFirst(c) ==
  /\ FilesDone(c)
  /\ ~first
  /\ first' = TRUE
  /\ Goto(c, "store")
  /\ UNCHANGED <<env, checksum, old, globsLeft, files, seen, event, told, sinks>>

\* Mutant: the initial Ingest does not store its checksum.
ForgetStore(c) ==
  /\ pc[c] = "store"
  /\ Dispatch(c, seen[c])
  /\ UNCHANGED <<env, shared, old, globsLeft, files, seen, told, sinks>>

\* The initial Ingest builds its groups and stores its checksum.
StoreFirst(c) ==
  /\ pc[c] = "store"
  /\ checksum' = Sum(seen[c])
  /\ Dispatch(c, seen[c])
  /\ UNCHANGED <<env, first, old, globsLeft, files, seen, told, sinks>>

\* first.CompareAndSwap fails: a first Ingest has succeeded before.
NotFirst(c) ==
  /\ FilesDone(c)
  /\ first
  /\ Goto(c, "compare")
  /\ UNCHANGED <<env, shared, old, globsLeft, files, seen, event, told, sinks>>

\* The loaded checksum is the new one: no changes since the last Ingest.
Unchanged(c) ==
  /\ pc[c] = "compare"
  /\ checksum = Sum(seen[c])
  /\ Finish(c)
  /\ UNCHANGED <<env, shared, sinks>>

\* Mutant: groups are dispatched without a look at the checksum.
AlwaysChanged(c) ==
  /\ pc[c] = "compare"
  /\ Goto(c, "swap")
  /\ UNCHANGED <<env, shared, old, globsLeft, files, seen, event, told, sinks>>

\* The loaded checksum is another one.
Changed(c) ==
  /\ pc[c] = "compare"
  /\ checksum # Sum(seen[c])
  /\ Goto(c, "swap")
  /\ UNCHANGED <<env, shared, old, globsLeft, files, seen, event, told, sinks>>

\* Mutant: the checksum is swapped, but the groups are not dispatched.
SwapSilently(c) ==
  /\ pc[c] = "swap"
  /\ checksum = old[c]
  /\ checksum' = Sum(seen[c])
  /\ Finish(c)
  /\ UNCHANGED <<env, first, sinks>>

\* Mutant: changed groups are dispatched, but their checksum is not kept.
SwapNothing(c) ==
  /\ pc[c] = "swap"
  /\ checksum = old[c]
  /\ Dispatch(c, seen[c])
  /\ UNCHANGED <<env, shared, old, globsLeft, files, seen, told, sinks>>

\* checksum.CompareAndSwap(oldChecksum, newChecksum) succeeds: the change is
\* this call's to dispatch.
Swap(c) ==
  /\ pc[c] = "swap"
  /\ checksum = old[c]
  /\ checksum' = Sum(seen[c])
  /\ Dispatch(c, seen[c])
  /\ UNCHANGED <<env, first, old, globsLeft, files, seen, told, sinks>>

\* The swap fails: another call changed the checksum since this one began.
SwapFails(c) ==
  /\ pc[c] = "swap"
  /\ checksum # old[c]
  /\ Finish(c)
  /\ UNCHANGED <<env, shared, sinks>>

\* Mutant: the loop over the listeners goes one too far.
TellOneMore(c) ==
  /\ pc[c] = "dispatch" /\ told[c] <= NumListeners
  /\ told' = [told EXCEPT ![c] = @ + 1]
  /\ UNCHANGED <<env, shared, pc, old, globsLeft, files, seen, event, sinks>>

\* dispatchIngestEvent calls OnIngest of the next listener, which ignores
\* the groups of a failure.
Tell(c) ==
  /\ pc[c] = "dispatch" /\ told[c] < NumListeners
  /\ LET l == told[c] + 1 IN
       /\ told' = [told EXCEPT ![c] = l]
       /\ lastEvent' = [lastEvent EXCEPT ![l] = event[c]]
       /\ heard' = [heard EXCEPT ![l] =
                      IF event[c] = Failure THEN @ ELSE event[c]]
  /\ UNCHANGED <<env, shared, pc, old, globsLeft, files, seen, event>>

\* All listeners have been told: Ingest returns.
Return(c) ==
  /\ pc[c] = "dispatch" /\ told[c] = NumListeners
  /\ Finish(c)
  /\ UNCHANGED <<env, shared, sinks>>

(***************************************************************************)
(* Specification.                                                          *)
(***************************************************************************)

\* The steps of an Ingest that has begun.
Step(c) ==
  \/ ExpandGlob(c) \/ GlobFails(c) \/ FileFails(c) \/ ReadFile(c)
  \/ TakeFirst(c) \/ StoreFirst(c) \/ NotFirst(c)
  \/ Unchanged(c) \/ Changed(c) \/ Swap(c) \/ SwapFails(c)
  \/ Tell(c) \/ Return(c)

Next ==
  \/ \E p \in Paths : Edit(p)
  \/ \E c \in Calls : Cancel(c) \/ Begin(c) \/ Step(c)

Spec == Init /\ [][Next]_ingesterVars

\* Ingest runs to its end, and the ticker of the IngestChecker calls it
\* again and again.  Nobody has to edit a file or cancel a context.
Fairness == \A c \in Calls : WF_ingesterVars(Begin(c)) /\ WF_ingesterVars(Step(c))

(***************************************************************************)
(* Properties.                                                             *)
(***************************************************************************)

\* The values the state of the ingester can have; checksum and old hold 0 or
\* any value of Checksum.
TypeOK ==
  /\ globs \in Configurations
  /\ disk \in [Paths -> Contents \union {NoContent}]
  /\ edits \in 0 .. MaxEdits
  /\ expired \subseteq Cancelable
  /\ first \in BOOLEAN
  /\ pc \in [Calls -> {"idle", "files", "store", "compare", "swap", "dispatch"}]
  /\ files \in [Calls -> Seq(Paths)]
  /\ seen \in [Calls -> Seq(Reading)]
  /\ event \in [Calls -> Seq(Reading) \union {NoEvent, Failure}]
  /\ told \in [Calls -> 0 .. NumListeners]
  /\ heard \in [Listeners -> Seq(Reading) \union {NoEvent}]
  /\ lastEvent \in [Listeners -> Seq(Reading) \union {NoEvent, Failure}]

\* What an Ingest that nothing disturbs would read: for each glob the files
\* there are, a file that two globs match twice.
Matches == FlattenSeq([i \in DOMAIN globs |-> Existing(globs[i])])

CurrentReading ==
  [i \in DOMAIN Matches |->
     [file |-> disk[Matches[i]], included |-> IncludedBy(disk[Matches[i]])]]

AllReadable ==
  /\ \A i \in DOMAIN globs : globs[i] # BadPattern
  /\ \A i \in DOMAIN Matches : Parses(disk[Matches[i]])

\* When no Ingest is under way, the recorded checksum is that of the groups
\* every listener has: a later Ingest that finds it unchanged may keep quiet.
\* It needs calls that do not overlap.
ListenerAgrees ==
  (\A c \in Calls : pc[c] = "idle") /\ first =>
    \A l \in Listeners : heard[l] # NoEvent /\ Sum(heard[l]) = checksum

\* "Only errors and actual changes will be dispatched" (IngestListener): the
\* groups a listener is given never have the checksum of those it has.  It needs
\* calls that do not overlap: while the initial Ingest has set first and not yet
\* stored its checksum, another one swaps the zero and dispatches too.
OnlyChangesDispatched ==
  [][\A c \in Calls : \A l \in Listeners :
       told[c] = l - 1 /\ told'[c] = l /\ event[c] # Failure /\ heard[l] # NoEvent
         => Sum(event[c]) # Sum(heard[l])]_ingesterVars

\* Once the files are no longer edited, the checksum becomes and stays that of
\* the files, however many calls overlap.
ChecksumConverges == <>[](AllReadable => first /\ checksum = Sum(CurrentReading))

\* Once the files are no longer edited and can be read, every listener ends up
\* with the groups of exactly these files, whatever Ingest read in between.
Converges ==
  <>[](AllReadable => \A l \in Listeners : heard[l] = CurrentReading)

\* As long as the files cannot be read, the listeners are told so ("always
\* dispatch errors").
FailureReported ==
  <>[](~AllReadable => \A l \in Listeners : lastEvent[l] = Failure)

=============================================================================
