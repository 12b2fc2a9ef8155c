------------------------------- MODULE Slices -------------------------------
(***************************************************************************)
(* Slices as several modules use them.  A slice is a sequence; what is     *)
(* appended to one after the other comes from a loop over another.         *)
(***************************************************************************)
EXTENDS Naturals, Sequences, FiniteSets, SequencesExt

\* The elements of s that are in T, in their order: a loop that appends them.
Keep(s, T) == FlattenSeq([i \in DOMAIN s |-> IF s[i] \in T THEN <<s[i]>> ELSE <<>>])

\* The place of s[i] in a sorted s, for an order as a set of pairs.
Place(s, less, i) ==
  Cardinality({j \in DOMAIN s : <<s[j], s[i]>> \in less \/ (s[j] = s[i] /\ j <= i)})

\* slices.SortFunc with that order.
SortedBy(s, less) ==
  [n \in DOMAIN s |-> s[CHOOSE i \in DOMAIN s : Place(s, less, i) = n]]

\* s is a sequence.
Sequence(s) == s \in Seq(ToSet(s))

=============================================================================
