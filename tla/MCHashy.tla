------------------------------- MODULE MCHashy -------------------------------
(***************************************************************************)
(* Instances of Hashy for TLC: one path, or two of which one glob matches  *)
(* both.                                                                   *)
(***************************************************************************)
EXTENDS Hashy, SequencesExt

CONSTANTS p, q, a, b, bad

OneFile == {<<<<p>>>>}
TwoFiles == {<<<<p, q>>>>}

NoIncludes == [v \in Contents |-> NoPath]

\* A checksum without collisions: the texts as digits to the base 4.
Digit(v) == CASE v = a -> 1 [] v = b -> 2 [] OTHER -> 3
DistinctSums(s) == FoldLeft(LAMBDA sum, v : 4 * sum + Digit(v), 1, s)

=============================================================================
