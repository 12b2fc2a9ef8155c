--------------------------- MODULE MCFileIngester ---------------------------
(***************************************************************************)
(* Instances of FileIngester for TLC, with its history: two paths, p read  *)
(* before q.                                                               *)
(***************************************************************************)
EXTENDS IngestHistory

CONSTANTS p, q, a, b, bad

\* Two globs that both match q, which is then read twice.
SharedGlobs == <<<<p, q>>, <<q>>>>

\* The second pattern is malformed.
BadGlobs == <<<<p>>, BadPattern>>

\* A configuration that can be read and one that cannot.
SerialConfigurations == {SharedGlobs, BadGlobs}

\* Only p is configured; q can be included.
OneGlob == {<<<<p>>>>}

NoIncludes == [v \in Contents |-> NoPath]

\* Text a includes the file q.
AIncludesQ == [v \in Contents |-> IF v = a THEN q ELSE NoPath]

\* A checksum without collisions: the texts as digits to the base 4.
Digit(v) == CASE v = a -> 1 [] v = b -> 2 [] OTHER -> 3
DistinctSums(s) == FoldLeft(LAMBDA sum, v : 4 * sum + Digit(v), 1, s)

=============================================================================
