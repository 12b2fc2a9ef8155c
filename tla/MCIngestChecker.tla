-------------------------- MODULE MCIngestChecker --------------------------
(***************************************************************************)
(* Instances of IngestChecker for TLC.                                     *)
(***************************************************************************)
EXTENDS IngestChecker, TLC

\* Callers and contexts are interchangeable (for safety runs only).
CheckerSymmetry == Permutations(Callers) \union Permutations(Contexts)

=============================================================================
