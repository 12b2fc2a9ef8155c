---------------------------- MODULE IngestHistory ----------------------------
(***************************************************************************)
(* FileIngester with a history variable, for what calls of Ingest promise  *)
(* when they overlap.  Calls may then deliver their groups in another      *)
(* order than they changed the checksum in, and what a listener has does   *)
(* not say what it was given before.  No guard reads the history, so the   *)
(* behaviours are those of FileIngester.                                   *)
(***************************************************************************)
EXTENDS FileIngester

VARIABLE
  informed  \* the listeners given groups of the checksum since it was recorded

historyVars == <<ingesterVars, informed>>

HistoryInit == Init /\ informed = {}

\* The listeners that a step gives groups of the checksum to.
GivenRecorded ==
  {l \in Listeners : \E c \in Calls :
     /\ told[c] = l - 1 /\ told'[c] = l
     /\ event[c] # Failure /\ Sum(event[c]) = checksum}

\* A checksum that is replaced makes everybody's groups old.
Remember ==
  informed' = IF checksum' # checksum THEN {} ELSE informed \union GivenRecorded

\* The steps of Next, each of them remembered.
HistoryNext ==
  \/ \E p \in Paths : Edit(p) /\ Remember
  \/ \E c \in Calls :
       \/ Cancel(c) /\ Remember
       \/ Begin(c) /\ Remember
       \/ ExpandGlob(c) /\ Remember
       \/ GlobFails(c) /\ Remember
       \/ FileFails(c) /\ Remember
       \/ ReadFile(c) /\ Remember
       \/ TakeFirst(c) /\ Remember
       \/ StoreFirst(c) /\ Remember
       \/ NotFirst(c) /\ Remember
       \/ Unchanged(c) /\ Remember
       \/ Changed(c) /\ Remember
       \/ Swap(c) /\ Remember
       \/ SwapFails(c) /\ Remember
       \/ Tell(c) /\ Remember
       \/ Return(c) /\ Remember

HistorySpec == HistoryInit /\ [][HistoryNext]_historyVars

HistoryFairSpec == HistorySpec /\ Fairness

\* A checksum is only recorded for groups that are then delivered: when no call
\* is under way, every listener was given groups of the recorded checksum after
\* it was recorded, whatever older groups another call may have given it since.
\* Otherwise these groups are lost, as the next Ingest finds nothing new.  Calls
\* may overlap anywhere: one may find first set while another has not stored
\* its checksum, swap a checksum that was replaced twice, or lose its swap.
RecordedIsDelivered ==
  (\A c \in Calls : pc[c] = "idle") /\ first => informed = Listeners

=============================================================================
