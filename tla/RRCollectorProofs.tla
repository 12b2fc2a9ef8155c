------------------------- MODULE RRCollectorProofs -------------------------
(***************************************************************************)
(* Theorems about the collector, for any records.                          *)
(*                                                                         *)
(* Whatever text a TXT record carries, validateGroupName lets no name      *)
(* through that is against the rules, although it accepts less than they   *)
(* do (Inv).                                                               *)
(*                                                                         *)
(* In whatever order the records come, Build returns the groups that the   *)
(* set of records defines, with their services and their endpoints, and    *)
(* the addresses of every endpoint that none was repeated of, although     *)
(* the endpoints of several groups share the arrays of the collector.      *)
(* The invariant of that, Collected, says of the maps and slices that      *)
(* they hold what the records added say; of the groups, that they are      *)
(* the first ones of the reference, the last of them up to the names that  *)
(* are left; of a slice of an endpoint, that it is in the array of the     *)
(* collector, or in one of its own when Dedupe outgrew that, which only a  *)
(* repeated address does.  A later copy rewrites a shared array, but with  *)
(* the elements in the order they have been sorted into already.           *)
(***************************************************************************)
EXTENDS RRCollector, SequenceLemmas

\* The names of groups were valid when they were added.
Inv == \A name \in DOMAIN groups : name \in Seq(0 .. 255) /\ ValidGroupName(name)

\* validateGroupName checks the first, the last and the inner bytes, which are
\* all there are, also if there is only one or two.
LEMMA ValidIsDocumented ==
  ASSUME NEW name \in Seq(0 .. 255), ValidGroupName(name)
  PROVE  DocumentedName(name)
<1>1. /\ Len(name) \in Nat \ {0}
      /\ \A i \in DOMAIN name : i = 1 \/ i = Len(name) \/ i \in 2 .. Len(name) - 1
  BY DEF ValidGroupName
<1>2. GroupLeading \subseteq Lowercase /\ GroupTrailing \subseteq Lowercase \union Digits
  BY DEF GroupLeading, GroupTrailing, Lowercase, Digits
<1> QED
  BY <1>1, <1>2 DEF ValidGroupName, DocumentedName, Group

\* The names of definitions that are merged are those that were there or those
\* of the definitions.
LEMMA AddDefinitionsInv ==
  ASSUME Inv, NEW defs \in Seq(Texts),
         \A i \in DOMAIN defs : ParsesAsGroup(defs[i]),
         groups' = AddDefinitions(defs)
  PROVE  Inv'
<1>1. DOMAIN groups' = DOMAIN groups \union {defs[i].name : i \in DOMAIN defs}
  BY DEF AddDefinitions
<1>2. \A i \in DOMAIN defs : defs[i].name \in Seq(0 .. 255) /\ ValidGroupName(defs[i].name)
  <2> TAKE i \in DOMAIN defs
  <2>1. defs[i] \in Texts
    OBVIOUS
  <2> QED
    BY <2>1 DEF ParsesAsGroup, Texts
<1> QED
  BY <1>1, <1>2 DEF Inv

\* Every name of a group is valid, at any time.
THEOREM Invariance == Spec => []Inv
<1>1. Init => Inv
  BY DEF Init, Inv
<1>2. Inv /\ [Next]_collectorVars => Inv'
  <2> SUFFICES ASSUME Inv, [Next]_collectorVars
               PROVE  Inv'
    OBVIOUS
  <2>1. ASSUME NEW rr \in Records, AddTXT(rr)
        PROVE  Inv'
    <3>1. CASE rr.owner = DiscoveryDomain
      BY <2>1, <3>1, AddDefinitionsInv, CollectorAssumption DEF AddTXT
    <3>2. CASE rr.owner # DiscoveryDomain
      BY <2>1, <3>2 DEF AddTXT, Inv
    <3> QED
      BY <3>1, <3>2
  <2>2. ASSUME NEW rr \in Records, RejectTXT(rr)
        PROVE  Inv'
    <3>1. PICK i \in DOMAIN rr.txt :
            /\ \A k \in 1 .. i - 1 : ParsesAsGroup(rr.txt[k])
            /\ groups' = AddDefinitions(SubSeq(rr.txt, 1, i - 1))
      BY <2>2 DEF RejectTXT
    <3> DEFINE parsed == SubSeq(rr.txt, 1, i - 1)
    <3>2. rr.txt \in Seq(Texts)
      BY <2>2, CollectorAssumption DEF RejectTXT
    <3>3. /\ parsed \in Seq(Texts)
          /\ DOMAIN parsed = 1 .. i - 1 /\ \A k \in 1 .. i - 1 : parsed[k] = rr.txt[k]
      BY <3>2
    <3> QED
      BY <3>1, <3>3, AddDefinitionsInv
  <2>3. ASSUME NEW rr \in Records, AddSRV(rr) \/ AddAddress(rr) \/ IgnoreRR(rr)
        PROVE  Inv'
    BY <2>3 DEF AddSRV, AddAddress, IgnoreRR, Inv
  <2>4. CASE BeginBuild \/ NextGroup \/ SkipTarget \/ CopyEndpoint
    BY <2>4 DEF BeginBuild, NextGroup, SkipTarget, CopyEndpoint, Inv
  <2>5. CASE EndBuild
    BY <2>5 DEF EndBuild, Inv
  <2>6. CASE UNCHANGED collectorVars
    BY <2>6 DEF collectorVars, Inv
  <2> QED
    BY <2>1, <2>2, <2>3, <2>4, <2>5, <2>6 DEF Next
<1> QED
  BY <1>1, <1>2, PTL DEF Spec

\* Nothing but names that follow the rules becomes a group.
THEOREM NamesDocumented == Spec => []BuiltNamesDocumented
<1>1. Inv => BuiltNamesDocumented
  BY ValidIsDocumented DEF Inv, BuiltNamesDocumented
<1> QED
  BY <1>1, Invariance, PTL

(***************************************************************************)
(* The order of names.                                                     *)
(***************************************************************************)

\* Precedes, element by element.
LEMMA PrecedesElements ==
  ASSUME NEW s \in Seq(Nat), NEW t \in Seq(Nat)
  PROVE  Precedes(s, t) <=>
           \E n \in 0 .. Len(t) - 1 :
             /\ n <= Len(s)
             /\ \A k \in 1 .. n : s[k] = t[k]
             /\ n < Len(s) => s[n + 1] < t[n + 1]
<1>1. Len(s) \in Nat /\ Len(t) \in Nat
  OBVIOUS
<1>2. ASSUME NEW n \in Nat, n <= Len(s), n <= Len(t)
      PROVE  SubSeq(s, 1, n) = SubSeq(t, 1, n) <=> \A k \in 1 .. n : s[k] = t[k]
  <2>1. /\ SubSeq(s, 1, n) = [k \in 1 .. n |-> s[k]]
        /\ SubSeq(t, 1, n) = [k \in 1 .. n |-> t[k]]
    BY <1>2
  <2> QED
    BY <2>1
<1>3. \A n \in 0 .. Len(t) - 1 : n \in Nat /\ n <= Len(t)
  BY <1>1
<1> QED
  BY <1>2, <1>3 DEF Precedes

\* The order of strings is one.
LEMMA NamesOrdered ==
  ASSUME NEW S \in SUBSET Seq(Nat)
  PROVE  StrictOrder({pair \in S \X S : Precedes(pair[1], pair[2])}, S)
<1> DEFINE less == {pair \in S \X S : Precedes(pair[1], pair[2])}
           Differ(s, t, n) ==
             /\ n \in 0 .. Len(t) - 1 /\ n <= Len(s)
             /\ \A k \in 1 .. n : s[k] = t[k]
             /\ n < Len(s) => s[n + 1] < t[n + 1]
<1>1. \A s \in S : Len(s) \in Nat /\ DOMAIN s = 1 .. Len(s) /\ \A k \in 1 .. Len(s) : s[k] \in Nat
  OBVIOUS
<1>2. \A s \in S, t \in S : <<s, t>> \in less <=> \E n \in Nat : Differ(s, t, n)
  <2> SUFFICES ASSUME NEW s \in S, NEW t \in S
               PROVE  Precedes(s, t) <=> \E n \in Nat : Differ(s, t, n)
    OBVIOUS
  <2>1. s \in Seq(Nat) /\ t \in Seq(Nat) /\ \A n \in 0 .. Len(t) - 1 : n \in Nat
    BY <1>1
  <2> QED
    BY <2>1, PrecedesElements
<1> HIDE DEF less
<1>3. \A s \in S : <<s, s>> \notin less
  <2> SUFFICES ASSUME NEW s \in S, NEW n \in Nat, Differ(s, s, n)
               PROVE  FALSE
    BY <1>2
  <2> QED
    BY <1>1
<1>4. ASSUME NEW x \in S, NEW y \in S, NEW z \in S, <<x, y>> \in less, <<y, z>> \in less
      PROVE  <<x, z>> \in less
  <2>1. PICK m \in Nat : Differ(x, y, m)
    BY <1>2, <1>4
  <2>2. PICK n \in Nat : Differ(y, z, n)
    BY <1>2, <1>4
  <2>3. CASE m < n
    <3>1. Differ(x, z, m)
      <4>1. m \in 0 .. Len(z) - 1 /\ m <= Len(x) /\ \A k \in 1 .. m : x[k] = z[k]
        <5>1. Len(y) \in Nat /\ Len(z) \in Nat
          BY <1>1
        <5>2. m \in 0 .. Len(z) - 1
          BY <2>1, <2>2, <2>3, <5>1
        <5>3. m <= Len(x)
          BY <1>1, <2>1, <2>2, <2>3
        <5>4. \A k \in 1 .. m : k \in 1 .. m /\ k \in 1 .. n
          BY <2>3
        <5> QED
          BY <2>1, <2>2, <5>2, <5>3, <5>4
      <4>2. y[m + 1] = z[m + 1]
        BY <1>1, <2>2, <2>3
      <4> QED
        BY <2>1, <4>1, <4>2
    <3> QED
      BY <1>2, <3>1
  <2>4. CASE n < m
    <3>1. Differ(x, z, n)
      <4>1. n \in 0 .. Len(z) - 1 /\ n <= Len(x) /\ \A k \in 1 .. n : x[k] = z[k]
        <5>1. Len(y) \in Nat /\ Len(z) \in Nat
          BY <1>1
        <5>2. n \in 0 .. Len(z) - 1
          BY <2>1, <2>2, <2>4, <5>1
        <5>3. n <= Len(x)
          BY <1>1, <2>1, <2>2, <2>4
        <5>4. \A k \in 1 .. n : k \in 1 .. m /\ k \in 1 .. n
          BY <2>4
        <5> QED
          BY <2>1, <2>2, <5>2, <5>3, <5>4
      <4>2. x[n + 1] = y[n + 1] /\ n < Len(y)
        BY <1>1, <2>1, <2>4
      <4> QED
        BY <2>2, <4>1, <4>2
    <3> QED
      BY <1>2, <3>1
  <2>5. CASE n = m
    <3>1. Differ(x, z, n)
      <4>1. n \in 0 .. Len(z) - 1 /\ n <= Len(x) /\ \A k \in 1 .. n : x[k] = z[k]
        BY <1>1, <2>1, <2>2, <2>5
      <4>2. n < Len(x) => x[n + 1] < y[n + 1] /\ y[n + 1] < z[n + 1]
        BY <1>1, <2>1, <2>2, <2>5
      <4>3. n < Len(x) => x[n + 1] \in Nat /\ y[n + 1] \in Nat /\ z[n + 1] \in Nat
        BY <1>1, <2>1, <2>2, <2>5
      <4>4. n < Len(x) => x[n + 1] < z[n + 1]
        BY <4>2, <4>3
      <4> QED
        BY <4>1, <4>4
    <3> QED
      BY <1>2, <3>1
  <2> QED
    BY <2>3, <2>4, <2>5
<1>5. ASSUME NEW x \in S, NEW y \in S, x # y
      PROVE  <<x, y>> \in less \/ <<y, x>> \in less
  <2> DEFINE T == {n \in Nat : n >= Len(x) \/ n >= Len(y) \/ x[n + 1] # y[n + 1]}
  <2>1. PICK n \in T : \A m \in T : n <= m
    <3>1. Len(x) \in T /\ T \in SUBSET Nat
      BY <1>1
    <3> HIDE DEF T
    <3> QED
      BY <3>1, LeastElement
  <2>2. n <= Len(x) /\ n <= Len(y)
    BY <1>1, <2>1
  <2>3. \A k \in 1 .. n : x[k] = y[k]
    <3> SUFFICES ASSUME NEW k \in 1 .. n
                 PROVE  x[k] = y[k]
      OBVIOUS
    <3>1. n \in Nat /\ k - 1 \in Nat /\ (k - 1) + 1 = k /\ k - 1 < n
      BY <2>1
    <3>2. k - 1 \notin T
      <4> HIDE DEF T
      <4> QED
        BY <2>1, <3>1
    <3> QED
      BY <3>1, <3>2
  <2>4. CASE n = Len(x) /\ n = Len(y)
    <3>1. x = y
      <4>1. x \in Seq(Nat) /\ y \in Seq(Nat) /\ Len(x) = Len(y)
        BY <2>4
      <4>2. \A k \in 1 .. Len(x) : x[k] = y[k]
        BY <2>3, <2>4
      <4>3. /\ x = [k \in 1 .. Len(x) |-> x[k]]
            /\ y = [k \in 1 .. Len(x) |-> y[k]]
        BY <4>1
      <4> QED
        BY <4>2, <4>3
    <3> QED
      BY <1>5, <3>1
  <2>5. CASE n = Len(x) /\ n < Len(y)
    <3>1. Differ(x, y, n)
      BY <1>1, <2>2, <2>3, <2>5
    <3> QED
      BY <1>2, <2>1, <3>1
  <2>6. CASE n < Len(x) /\ n = Len(y)
    <3>1. Differ(y, x, n)
      BY <1>1, <2>2, <2>3, <2>6
    <3> QED
      BY <1>2, <2>1, <3>1
  <2>7. CASE n < Len(x) /\ n < Len(y)
    <3>1. n + 1 \in 1 .. Len(x) /\ n + 1 \in 1 .. Len(y) /\ x[n + 1] # y[n + 1]
      BY <1>1, <2>1, <2>7
    <3>2. x[n + 1] < y[n + 1] \/ y[n + 1] < x[n + 1]
      BY <1>1, <3>1
    <3>3. Differ(x, y, n) \/ Differ(y, x, n)
      BY <1>1, <2>2, <2>3, <2>7, <3>2
    <3> QED
      BY <1>2, <2>1, <3>3
  <2> QED
    BY <1>1, <2>2, <2>4, <2>5, <2>6, <2>7
<1> QED
  BY <1>3, <1>4, <1>5 DEF StrictOrder, less

(***************************************************************************)
(* Sorted sequences of numbers.                                            *)
(***************************************************************************)

\* q[1] < q[2] < ...
Increasing(q) == \A i, j \in DOMAIN q : i < j => q[i] < q[j]

\* Less is the order of the numbers of a sequence.
LEMMA LessOrders ==
  ASSUME NEW s \in Seq(Nat)
  PROVE  /\ ToSet(s) \in SUBSET Nat /\ s \in Seq(ToSet(s))
         /\ StrictOrder(Less(ToSet(s)), ToSet(s))
<1> DEFINE S == ToSet(s)
<1>1. S \in SUBSET Nat /\ s \in Seq(S)
  BY OwnElements
<1> HIDE DEF S
<1>2. StrictOrder(Less(S), S)
  BY <1>1, NumbersOrdered DEF Less
<1> QED
  BY <1>1, <1>2 DEF S

\* Sorted keeps the elements, and a sequence without duplicates becomes
\* increasing.
LEMMA SortedNumbers ==
  ASSUME NEW s \in Seq(Nat)
  PROVE  /\ Sorted(s) \in Seq(Nat) /\ Len(Sorted(s)) = Len(s) /\ ToSet(Sorted(s)) = ToSet(s)
         /\ IsInjective(s) => Increasing(Sorted(s))
<1> DEFINE S == ToSet(s)
           less == Less(S)
           q == Sorted(s)
<1>1. S \in SUBSET Nat /\ s \in Seq(S) /\ StrictOrder(less, S)
  BY LessOrders
<1>2. q = SortedBy(s, less)
  BY DEF Sorted
<1> HIDE DEF S, less, q
<1>3. /\ q \in Seq(S) /\ Len(q) = Len(s) /\ ToSet(q) = ToSet(s)
      /\ (\A i, j \in DOMAIN s : s[i] = s[j] => i = j) =>
           \A m, n \in DOMAIN s : m < n => <<q[m], q[n]>> \in less
  BY <1>1, <1>2, SortedElements
<1>4. q \in Seq(Nat)
  BY <1>1, <1>3, SequenceOfMore
<1>5. DOMAIN q = DOMAIN s
  BY <1>3
<1>6. ASSUME IsInjective(s)
      PROVE  Increasing(q)
  <2>1. \A i, j \in DOMAIN s : s[i] = s[j] => i = j
    BY <1>6 DEF IsInjective
  <2>2. \A m, n \in DOMAIN q : m < n => <<q[m], q[n]>> \in less
    BY <1>3, <1>5, <2>1
  <2>3. \A x, y : <<x, y>> \in less => x < y
    BY DEF less, Less
  <2> QED
    BY <2>2, <2>3 DEF Increasing
<1> QED
  BY <1>3, <1>4, <1>6 DEF q

\* The increasing sequence of the elements of a set is unique.
LEMMA IncreasingUnique ==
  ASSUME NEW p \in Seq(Nat), NEW q \in Seq(Nat), Increasing(p), Increasing(q), ToSet(p) = ToSet(q)
  PROVE  p = q
<1> DEFINE less == {pair \in Nat \X Nat : pair[1] < pair[2]}
<1>1. StrictOrder(less, Nat)
  BY NumbersOrdered
<1>2. /\ \A i, j \in DOMAIN p : i < j => <<p[i], p[j]>> \in less
      /\ \A i, j \in DOMAIN q : i < j => <<q[i], q[j]>> \in less
  <2>1. (\A i \in DOMAIN p : p[i] \in Nat) /\ \A i \in DOMAIN q : q[i] \in Nat
    OBVIOUS
  <2> QED
    BY <2>1 DEF Increasing
<1> HIDE DEF less
<1> QED
  BY <1>1, <1>2, SameInOrder

\* Ordered, for a finite set of numbers.
LEMMA OrderedSet ==
  ASSUME NEW S \in SUBSET Nat, IsFiniteSet(S)
  PROVE  /\ Ordered(S) \in Seq(Nat) /\ Len(Ordered(S)) = Cardinality(S)
         /\ ToSet(Ordered(S)) = S /\ Increasing(Ordered(S))
<1> DEFINE s == SetToSeq(S)
<1>1. /\ s \in Seq(S) /\ Len(s) = Cardinality(S) /\ ToSet(s) = S
      /\ \A i, j \in DOMAIN s : s[i] = s[j] => i = j
  BY SetEnumerated
<1>2. Ordered(S) = Sorted(s)
  BY DEF Ordered
<1> HIDE DEF s
<1>3. s \in Seq(Nat)
  BY <1>1, SequenceOfMore
<1>4. IsInjective(s)
  BY <1>1 DEF IsInjective
<1> QED
  BY <1>1, <1>2, <1>3, <1>4, SortedNumbers

\* An increasing sequence is the ordered one of its elements.
LEMMA IncreasingIsOrdered ==
  ASSUME NEW q \in Seq(Nat), Increasing(q)
  PROVE  q = Ordered(ToSet(q))
<1> DEFINE S == ToSet(q)
<1>1. S \in SUBSET Nat /\ IsFiniteSet(S)
  BY OwnElements, ElementsFinite
<1> HIDE DEF S
<1>2. Ordered(S) \in Seq(Nat) /\ ToSet(Ordered(S)) = S /\ Increasing(Ordered(S))
  BY <1>1, OrderedSet
<1>3. ToSet(q) = ToSet(Ordered(S))
  BY <1>2 DEF S
<1>4. q = Ordered(S)
  BY <1>2, <1>3, IncreasingUnique
<1> QED
  BY <1>4 DEF S

\* So is a sequence without duplicates, when it is sorted.
LEMMA SortedIsOrdered ==
  ASSUME NEW s \in Seq(Nat), IsInjective(s)
  PROVE  Sorted(s) = Ordered(ToSet(s))
BY SortedNumbers, IncreasingIsOrdered

\* The names of a finite set, in order.
LEMMA SortedNamesSet ==
  ASSUME NEW S \in SUBSET Seq(Nat), IsFiniteSet(S)
  PROVE  /\ SortedNames(S) \in Seq(S) /\ Len(SortedNames(S)) = Cardinality(S)
         /\ ToSet(SortedNames(S)) = S
<1> DEFINE s == SetToSeq(S)
           less == {pair \in S \X S : Precedes(pair[1], pair[2])}
<1>1. s \in Seq(S) /\ Len(s) = Cardinality(S) /\ ToSet(s) = S
  BY SetEnumerated
<1>2. StrictOrder(less, S)
  BY NamesOrdered
<1>3. SortedNames(S) = SortedBy(s, less)
  BY DEF SortedNames
<1> HIDE DEF s, less
<1> QED
  BY <1>1, <1>2, <1>3, SortedElements

(***************************************************************************)
(* The invariant: what was collected is what the records added say, and    *)
(* what was built of it so far is what the reference says.                 *)
(***************************************************************************)

\* The names of the groups of the reference.
GroupNames == {def.name : def \in Definitions}

\* Counters and histories.
Counted ==
  /\ phase \in {"collecting", "building", "built", "failed"}
  /\ count \in 0 .. MaxRecords
  /\ added \subseteq Records /\ repeated \subseteq added

\* The groups are those of the definitions, with their services.
GroupsCollected ==
  phase \in {"collecting", "building"} =>
    /\ IsFiniteSet(DOMAIN groups) /\ DOMAIN groups = GroupNames
    /\ \A name \in DOMAIN groups :
         /\ name \in Seq(0 .. 255) /\ groups[name] \in Seq(Nat)
         /\ ToSet(groups[name]) = ServicesOf(name)

TargetsOfService(s) ==
  {rr.target : rr \in {r \in added : r.type = "SRV" /\ r.owner = s}}

\* The services have the targets of their records.
ServicesCollected ==
  phase # "built" =>
    /\ \A rr \in added : rr.type = "SRV" => rr.owner \in DOMAIN services
    /\ \A s \in DOMAIN services :
         services[s] \in Seq(Nat) /\ ToSet(services[s]) = TargetsOfService(s)

\* Every slice is in an array of its own.
SlicesTyped ==
  /\ \A id \in DOMAIN arrays : arrays[id] \in Seq(Nat)
  /\ \A key \in DOMAIN slices :
       /\ key \in DOMAIN arrays
       /\ slices[key] = [array |-> key, len |-> slices[key].len]
       /\ slices[key].len \in 1 .. Len(arrays[key])

\* There is a slice for every target and type of a record, with its addresses,
\* once each, if none was repeated.
SlicesCollected ==
  phase # "built" =>
    /\ DOMAIN slices = {<<rr.owner, rr.type>> : rr \in {r \in added : r.type \in AddressTypes}}
    /\ phase # "building" => DOMAIN arrays = DOMAIN slices
    /\ \A key \in DOMAIN slices :
         Once(key[1], key[2]) =>
           /\ IsInjective(Elements(slices[key]))
           /\ ToSet(Elements(slices[key])) = Addresses(key[1], key[2])

\* The slice of an endpoint with the addresses of a type.
SliceOf(e, type) == IF type = "A" THEN e.ip4 ELSE e.ip6

SliceType ==
  [array : (Nat \X AddressTypes) \union (Nat \X Nat \X AddressTypes), len : Nat]
EndpointType == [originalName : Nat, ip4 : SliceType, ip6 : SliceType]
GroupType == [name : Seq(Nat), services : Seq(Nat), endpoints : Seq(EndpointType)]

OriginalNames(gp) == [j \in DOMAIN gp.endpoints |-> gp.endpoints[j].originalName]

\* What is left to do for group i.
Pending(i) == IF i = Len(gps) THEN names ELSE <<>>

\* Group i is the one of the reference, up to the endpoints whose names are
\* left, which are greater than those of the endpoints it has.
GroupBuilt(i) ==
  /\ gps[i].name = SortedNames(GroupNames)[i]
  /\ gps[i].services = Ordered(ServicesOf(gps[i].name))
  /\ Increasing(OriginalNames(gps[i]))
  /\ \A s \in ToSet(OriginalNames(gps[i])), t \in ToSet(Pending(i)) : s < t
  /\ ToSet(OriginalNames(gps[i])) \union {t \in ToSet(Pending(i)) : Reachable(t)}
       = {t \in TargetsOf(gps[i].name) : Reachable(t)}

\* The groups that are built, or being built, are the first ones of the
\* reference.
GroupsBuilt ==
  /\ gps \in Seq(GroupType) /\ names \in Seq(Nat) /\ Increasing(names)
  /\ phase \notin {"building", "built"} => gps = <<>>
  /\ phase \in {"building", "built"} =>
       /\ IsFiniteSet(GroupNames) /\ GroupNames \subseteq Seq(Nat)
       /\ Len(gps) <= Cardinality(GroupNames)
  /\ phase = "built" => Len(gps) = Cardinality(GroupNames) /\ names = <<>>
  /\ gps = <<>> => names = <<>>
  /\ \A i \in DOMAIN gps : GroupBuilt(i)

\* Slice s of an endpoint of group i for target t is in the array of the
\* collector or in one that was made for the endpoint, and has the addresses of
\* the records if none was repeated.
SliceBuilt(i, t, type, s) ==
  /\ s.array \in {<<t, type>>, <<i, t, type>>}
  /\ s.len > 0 => s.array \in DOMAIN arrays /\ s.len <= Len(arrays[s.array])
  /\ Once(t, type) =>
       s.array = <<t, type>> /\ Elements(s) = Ordered(Addresses(t, type))

\* An endpoint has a slice like that for each type of address.
EndpointBuilt(i, e) ==
  \A type \in AddressTypes : SliceBuilt(i, e.originalName, type, SliceOf(e, type))

\* So has every endpoint of every group.
AddressesBuilt ==
  \A i \in DOMAIN gps : \A j \in DOMAIN gps[i].endpoints :
    EndpointBuilt(i, gps[i].endpoints[j])

\* All of it, together inductive.
Collected ==
  /\ Counted /\ GroupsCollected /\ ServicesCollected /\ SlicesTyped /\ SlicesCollected
  /\ GroupsBuilt /\ AddressesBuilt

(***************************************************************************)
(* What is collected.                                                      *)
(***************************************************************************)

\* The definitions, targets and addresses change only with records of their
\* type.
LEMMA OtherRecords ==
  ASSUME NEW rr \in Records, added' = added \union {rr}
  PROVE  /\ ~(rr.type = "TXT" /\ rr.owner = DiscoveryDomain) => Definitions' = Definitions
         /\ rr.type # "SRV" => \A s : TargetsOfService(s)' = TargetsOfService(s)
<1>1. ASSUME ~(rr.type = "TXT" /\ rr.owner = DiscoveryDomain)
      PROVE  Definitions' = Definitions
  <2>1. {r \in added' : r.type = "TXT" /\ r.owner = DiscoveryDomain}
          = {r \in added : r.type = "TXT" /\ r.owner = DiscoveryDomain}
    BY <1>1
  <2> QED
    BY <2>1 DEF Definitions
<1>2. ASSUME rr.type # "SRV", NEW s
      PROVE  TargetsOfService(s)' = TargetsOfService(s)
  <2>1. {r \in added' : r.type = "SRV" /\ r.owner = s} = {r \in added : r.type = "SRV" /\ r.owner = s}
    BY <1>2
  <2> QED
    BY <2>1 DEF TargetsOfService
<1> QED
  BY <1>1, <1>2

\* While the definitions stay, so do the groups they define.
LEMMA SameDefinitions ==
  ASSUME Definitions' = Definitions
  PROVE  GroupNames' = GroupNames /\ \A name : ServicesOf(name)' = ServicesOf(name)
BY DEF GroupNames, ServicesOf

\* groupCollector.add collects the services of the definitions.
LEMMA DefinitionsCollected ==
  ASSUME NEW rr \in Records, GroupsCollected, phase = "collecting",
         rr.type = "TXT", rr.owner = DiscoveryDomain,
         added' = added \union {rr}, groups' = AddDefinitions(rr.txt)
  PROVE  GroupsCollected'
<1> DEFINE defs == rr.txt
           Own(name) == [i \in DOMAIN defs |->
                           IF defs[i].name = name THEN defs[i].services ELSE <<>>]
<1>1. /\ defs \in Seq(Texts) /\ Len(defs) \in Nat /\ DOMAIN defs = 1 .. Len(defs)
      /\ \A i \in DOMAIN defs : defs[i].name \in Seq(0 .. 255) /\ defs[i].services \in Seq(Nat)
  <2>1. defs \in Seq(Texts)
    BY CollectorAssumption
  <2>2. \A text \in Texts : text.name \in Seq(0 .. 255) /\ text.services \in Seq(Nat)
    BY DEF Texts
  <2> HIDE DEF defs
  <2> QED
    BY <2>1, <2>2
<1>2. /\ IsFiniteSet(DOMAIN groups) /\ DOMAIN groups = GroupNames
      /\ \A name \in DOMAIN groups :
           /\ name \in Seq(0 .. 255) /\ groups[name] \in Seq(Nat)
           /\ ToSet(groups[name]) = ServicesOf(name)
  BY DEF GroupsCollected
<1>3. Definitions' = Definitions \union ToSet(defs)
  <2>1. {r \in added' : r.type = "TXT" /\ r.owner = DiscoveryDomain}
          = {r \in added : r.type = "TXT" /\ r.owner = DiscoveryDomain} \union {rr}
    OBVIOUS
  <2> QED
    BY <2>1 DEF Definitions
<1>4. groups' = [name \in DOMAIN groups \union {defs[i].name : i \in DOMAIN defs} |->
                   Lookup(groups, name, <<>>) \o FlattenSeq(Own(name))]
  BY DEF AddDefinitions
<1>5. DOMAIN groups' = GroupNames'
  <2>1. GroupNames' = GroupNames \union {def.name : def \in ToSet(defs)}
    BY <1>3 DEF GroupNames
  <2>2. {def.name : def \in ToSet(defs)} = {defs[i].name : i \in DOMAIN defs}
    BY DEF ToSet
  <2> QED
    BY <1>2, <1>4, <2>1, <2>2
<1>6. IsFiniteSet(DOMAIN groups')
  <2> DEFINE T == {defs[i].name : i \in DOMAIN defs}
             D == DOMAIN defs
  <2>1. IsFiniteSet(D)
    <3>1. \A k \in Nat : IsFiniteSet(1 .. k)
      BY FS_Interval
    <3> QED
      BY <1>1, <3>1
  <2>2. T = {defs[i].name : i \in D}
    OBVIOUS
  <2>3. [i \in D |-> defs[i].name] \in Surjection(D, T)
    BY DEF Surjection
  <2>4. IsFiniteSet(T)
    <3> HIDE DEF T, D
    <3> QED
      BY <2>1, <2>3, FS_Surjection
  <2>5. IsFiniteSet(DOMAIN groups \union T)
    <3> HIDE DEF T
    <3> QED
      BY <1>2, <2>4, FS_Union
  <2> QED
    BY <1>4, <2>5
<1>7. ASSUME NEW name \in DOMAIN groups'
      PROVE  /\ name \in Seq(0 .. 255) /\ groups'[name] \in Seq(Nat)
             /\ ToSet(groups'[name]) = ServicesOf(name)'
  <2> DEFINE old == Lookup(groups, name, <<>>)
             own == Own(name)
  <2>1. name \in Seq(0 .. 255)
    <3>1. name \in DOMAIN groups \/ \E i \in DOMAIN defs : name = defs[i].name
      BY <1>4
    <3> HIDE DEF defs
    <3> QED
      BY <1>1, <1>2, <3>1
  <2>2. old \in Seq(Nat) /\ ToSet(old) = ServicesOf(name)
    <3>1. CASE name \in DOMAIN groups
      BY <1>2, <3>1 DEF Lookup
    <3>2. CASE name \notin DOMAIN groups
      <4>0. old = <<>>
        BY <3>2 DEF Lookup
      <4>1. old \in Seq(Nat) /\ ToSet(old) = {}
        <5> HIDE DEF old
        <5> QED
          BY <4>0, EmptySequence
      <4>2. {d \in Definitions : d.name = name} = {}
        BY <1>2, <3>2 DEF GroupNames
      <4>3. ServicesOf(name) = {}
        BY <4>2 DEF ServicesOf
      <4> QED
        BY <4>1, <4>3
    <3> QED
      BY <3>1, <3>2
  <2>3. own \in Seq(Seq(Nat)) /\ DOMAIN own = DOMAIN defs
    BY <1>1
  <2>4. FlattenSeq(own) \in Seq(Nat) /\ ToSet(FlattenSeq(own)) = UNION {ToSet(own[i]) : i \in DOMAIN own}
    <3> HIDE DEF own
    <3> QED
      BY <2>3, FlattenProperties
  <2>5. groups'[name] = old \o FlattenSeq(own)
    BY <1>4
  <2>6. groups'[name] \in Seq(Nat) /\ ToSet(groups'[name]) = ToSet(old) \union ToSet(FlattenSeq(own))
    <3> HIDE DEF own, old
    <3> QED
      BY <2>2, <2>4, <2>5, ConcatenatedSet
  <2>7. UNION {ToSet(own[i]) : i \in DOMAIN own}
          = UNION {ToSet(def.services) : def \in {d \in ToSet(defs) : d.name = name}}
    <3>1. \A x : (\E i \in DOMAIN own : x \in ToSet(own[i]))
                   <=> \E i \in DOMAIN defs : defs[i].name = name /\ x \in ToSet(defs[i].services)
      <4>1. ToSet(<<>>) = {}
        BY DEF ToSet
      <4>2. \A i \in DOMAIN defs : own[i] = IF defs[i].name = name THEN defs[i].services ELSE <<>>
        OBVIOUS
      <4> HIDE DEF own, defs
      <4> QED
        BY <2>3, <4>1, <4>2
    <3>2. \A x : (\E i \in DOMAIN defs : defs[i].name = name /\ x \in ToSet(defs[i].services))
                   <=> \E d \in ToSet(defs) : d.name = name /\ x \in ToSet(d.services)
      <4>1. ToSet(defs) = {defs[i] : i \in DOMAIN defs}
        BY DEF ToSet
      <4> HIDE DEF defs
      <4> QED
        BY <4>1
    <3> HIDE DEF own, defs
    <3> QED
      BY <3>1, <3>2
  <2>8. ServicesOf(name)' = ServicesOf(name) \union
          UNION {ToSet(def.services) : def \in {d \in ToSet(defs) : d.name = name}}
    <3> HIDE DEF defs
    <3> QED
      BY <1>3 DEF ServicesOf
  <2> QED
    BY <2>1, <2>2, <2>4, <2>6, <2>7, <2>8
<1> QED
  BY <1>5, <1>6, <1>7 DEF GroupsCollected

\* Only the merge of definitions changes the groups before they are built.
LEMMA GroupsPreserved ==
  ASSUME GroupsCollected, [Next]_collectorVars
  PROVE  GroupsCollected'
<1>1. ASSUME NEW rr \in Records, AddTXT(rr)
      PROVE  GroupsCollected'
  <2>0. phase = "collecting" /\ rr.type = "TXT" /\ added' = added \union {rr}
    BY <1>1 DEF AddTXT, Accept
  <2>1. CASE rr.owner = DiscoveryDomain
    <3>1. groups' = AddDefinitions(rr.txt)
      BY <1>1, <2>1 DEF AddTXT
    <3> QED
      BY <2>0, <2>1, <3>1, DefinitionsCollected
  <2>2. CASE rr.owner # DiscoveryDomain
    <3>1. UNCHANGED <<phase, groups>> /\ UNCHANGED Definitions
      BY <1>1, <2>0, <2>2, OtherRecords DEF AddTXT
    <3> QED
      BY <2>0, <3>1, SameDefinitions DEF GroupsCollected
  <2> QED
    BY <2>1, <2>2
<1>2. ASSUME NEW rr \in Records, RejectTXT(rr)
      PROVE  GroupsCollected'
  BY <1>2 DEF RejectTXT, GroupsCollected
<1>3. ASSUME NEW rr \in Records, AddSRV(rr) \/ AddAddress(rr) \/ IgnoreRR(rr)
      PROVE  GroupsCollected'
  <2>1. /\ phase = "collecting" /\ rr.type # "TXT" /\ added' = added \union {rr}
        /\ UNCHANGED <<phase, groups>>
    BY <1>3 DEF AddSRV, AddAddress, IgnoreRR, Accept, AddressTypes
  <2>2. UNCHANGED Definitions
    BY <2>1, OtherRecords
  <2> QED
    BY <2>1, <2>2, SameDefinitions DEF GroupsCollected
<1>4. CASE BeginBuild \/ NextGroup \/ SkipTarget \/ CopyEndpoint \/ UNCHANGED collectorVars
  <2>1. /\ phase' \in {"collecting", "building"} => phase \in {"collecting", "building"}
        /\ UNCHANGED <<added, groups>>
    BY <1>4 DEF BeginBuild, NextGroup, SkipTarget, CopyEndpoint, collectorVars
  <2>2. UNCHANGED Definitions
    BY <2>1 DEF Definitions
  <2> QED
    BY <2>1, <2>2, SameDefinitions DEF GroupsCollected
<1>5. CASE EndBuild
  BY <1>5 DEF EndBuild, GroupsCollected
<1> QED
  BY <1>1, <1>2, <1>3, <1>4, <1>5 DEF Next

\* servicesCollector.add collects the targets of the records.
LEMMA ServicesPreserved ==
  ASSUME ServicesCollected, [Next]_collectorVars
  PROVE  ServicesCollected'
<1>1. ASSUME NEW rr \in Records, AddSRV(rr)
      PROVE  ServicesCollected'
  <2>1. /\ phase = "collecting" /\ rr.type = "SRV" /\ added' = added \union {rr}
        /\ services' = Put(services, rr.owner, Append(Lookup(services, rr.owner, <<>>), rr.target))
        /\ rr.target \in Nat
    BY <1>1, CollectorAssumption DEF AddSRV, Accept
  <2>2. DOMAIN services' = DOMAIN services \union {rr.owner}
    BY <2>1 DEF Put
  <2>3. ASSUME NEW s \in DOMAIN services'
        PROVE  services'[s] \in Seq(Nat) /\ ToSet(services'[s]) = TargetsOfService(s)'
    <3>1. CASE s = rr.owner
      <4> DEFINE old == Lookup(services, s, <<>>)
      <4>1. old \in Seq(Nat) /\ ToSet(old) = TargetsOfService(s)
        <5>1. CASE s \in DOMAIN services
          BY <2>1, <5>1 DEF Lookup, ServicesCollected
        <5>2. CASE s \notin DOMAIN services
          <6>0. old = <<>>
            BY <5>2 DEF Lookup
          <6>1. old \in Seq(Nat) /\ ToSet(old) = {}
            <7> HIDE DEF old
            <7> QED
              BY <6>0, EmptySequence
          <6>2. TargetsOfService(s) = {}
            BY <2>1, <5>2 DEF ServicesCollected, TargetsOfService
          <6> QED
            BY <6>1, <6>2
        <5> QED
          BY <5>1, <5>2
      <4>2. services'[s] = Append(old, rr.target)
        BY <2>1, <3>1 DEF Put
      <4>3. services'[s] \in Seq(Nat) /\ ToSet(services'[s]) = ToSet(old) \union {rr.target}
        <5> DEFINE x == rr.target
        <5>1. x \in Nat
          BY <2>1
        <5> HIDE DEF old, x
        <5>2. Append(old, x) \in Seq(Nat) /\ ToSet(Append(old, x)) = ToSet(old) \union {x}
          BY <4>1, <5>1, AppendedSet
        <5> QED
          BY <4>2, <5>2, Zenon DEF x
      <4>4. TargetsOfService(s)' = TargetsOfService(s) \union {rr.target}
        BY <2>1, <3>1 DEF TargetsOfService
      <4> QED
        BY <4>1, <4>3, <4>4
    <3>2. CASE s # rr.owner
      <4>1. s \in DOMAIN services /\ services'[s] = services[s]
        BY <2>1, <2>2, <3>2 DEF Put
      <4>2. TargetsOfService(s)' = TargetsOfService(s)
        BY <2>1, <3>2 DEF TargetsOfService
      <4> QED
        BY <2>1, <4>1, <4>2 DEF ServicesCollected
    <3> QED
      BY <3>1, <3>2
  <2>4. \A r \in added' : r.type = "SRV" => r.owner \in DOMAIN services'
    BY <2>1, <2>2 DEF ServicesCollected
  <2> QED
    BY <2>3, <2>4 DEF ServicesCollected
<1>2. ASSUME NEW rr \in Records, AddTXT(rr) \/ RejectTXT(rr) \/ AddAddress(rr) \/ IgnoreRR(rr)
      PROVE  ServicesCollected'
  <2>1. /\ phase = "collecting" /\ rr.type # "SRV" /\ added' = added \union {rr}
        /\ UNCHANGED services
    BY <1>2 DEF AddTXT, RejectTXT, AddAddress, IgnoreRR, Accept, AddressTypes
  <2>2. \A s : TargetsOfService(s)' = TargetsOfService(s)
    BY <2>1, OtherRecords
  <2> QED
    BY <2>1, <2>2 DEF ServicesCollected
<1>3. CASE BeginBuild \/ NextGroup \/ SkipTarget \/ CopyEndpoint \/ UNCHANGED collectorVars
  <2>1. (phase' # "built" => phase # "built") /\ UNCHANGED <<added, services>>
    BY <1>3 DEF BeginBuild, NextGroup, SkipTarget, CopyEndpoint, collectorVars
  <2> QED
    BY <2>1 DEF ServicesCollected, TargetsOfService
<1>4. CASE EndBuild
  BY <1>4 DEF EndBuild, ServicesCollected
<1> QED
  BY <1>1, <1>2, <1>3, <1>4 DEF Next

(***************************************************************************)
(* Slices and arrays.                                                      *)
(***************************************************************************)

LEMMA ZerosTyped ==
  ASSUME NEW m \in Int
  PROVE  Zeros(m) \in Seq(Nat)
<1>1. CASE m \in Nat
  BY <1>1 DEF Zeros, Zero
<1>2. CASE m \notin Nat
  <2>1. 1 .. m = 1 .. 0
    BY <1>2
  <2> QED
    BY <2>1 DEF Zeros, Zero
<1> QED
  BY <1>1, <1>2

\* Dedupe stays within the capacity, or moves; a slice without duplicates is
\* sorted where it is.
LEMMA DedupeProperties ==
  ASSUME NEW elements \in Seq(Nat), NEW cap \in Nat, Len(elements) <= cap
  PROVE  /\ Dedupe(elements, cap).elements \in Seq(Nat)
         /\ Dedupe(elements, cap).left \in Seq(Nat)
         /\ Dedupe(elements, cap).inPlace \in BOOLEAN
         /\ Dedupe(elements, cap).inPlace => Len(Dedupe(elements, cap).elements) <= cap
         /\ IsInjective(elements) =>
              /\ Dedupe(elements, cap).inPlace
              /\ Dedupe(elements, cap).left = Dedupe(elements, cap).elements
              /\ Dedupe(elements, cap).elements = Ordered(ToSet(elements))
              /\ Len(Dedupe(elements, cap).elements) = Len(elements)
<1> DEFINE n == Len(elements)
           k == Cardinality(ToSet(elements))
           kept == SubSeq(elements, 1, k)
           distinct == SetToSeq(ToSet(elements))
           all == Sorted(kept \o distinct)
<1>1. n \in Nat /\ k \in Nat /\ k <= n
  <2>1. IsFiniteSet(ToSet(elements)) /\ k <= n
    BY ElementsFinite
  <2>2. k \in Nat
    BY <2>1, FS_CardinalityType
  <2> QED
    BY <2>1, <2>2
<1>2. CASE k = n
  <2>1. Dedupe(elements, cap) =
          [elements |-> Sorted(elements), left |-> Sorted(elements), inPlace |-> TRUE]
    BY <1>2 DEF Dedupe
  <2>2. /\ Dedupe(elements, cap).elements = Sorted(elements)
        /\ Dedupe(elements, cap).left = Sorted(elements) /\ Dedupe(elements, cap).inPlace = TRUE
    BY <2>1
  <2> HIDE DEF k
  <2> QED
    BY <2>2, SortedNumbers, SortedIsOrdered
<1>3. CASE k # n
  <2>1. kept \in Seq(Nat) /\ Len(kept) = k
    <3> HIDE DEF k
    <3> QED
      BY <1>1
  <2>2. distinct \in Seq(Nat) /\ Len(distinct) = k
    <3>1. IsFiniteSet(ToSet(elements)) /\ ToSet(elements) \subseteq Nat
      BY ElementsFinite, OwnElements
    <3>2. distinct \in Seq(ToSet(elements)) /\ Len(distinct) = k
      BY <3>1, SetEnumerated
    <3> HIDE DEF distinct, k
    <3> QED
      BY <3>1, <3>2, SequenceOfMore
  <2>3. all \in Seq(Nat) /\ Len(all) = 2 * k
    <3> HIDE DEF k, kept, distinct
    <3>1. k + k = 2 * k
      BY <1>1
    <3>2. kept \o distinct \in Seq(Nat) /\ Len(kept \o distinct) = 2 * k
      BY <2>1, <2>2, <3>1, Concatenated
    <3> QED
      BY <3>2, SortedNumbers
  <2>4. ~IsInjective(elements)
    BY <1>3, InjectiveCardinality
  <2>5. CASE 2 * k <= cap
    <3> DEFINE left == all \o Zeros(n - 2 * k)
    <3>1. Dedupe(elements, cap) = [elements |-> all, left |-> left, inPlace |-> TRUE]
      BY <1>3, <2>5 DEF Dedupe
    <3>2. left \in Seq(Nat)
      <4> HIDE DEF k, n, all
      <4>1. n - 2 * k \in Int
        BY <1>1
      <4>2. Zeros(n - 2 * k) \in Seq(Nat)
        BY <4>1, ZerosTyped
      <4> QED
        BY <2>3, <4>2, Concatenated
    <3> HIDE DEF left, all
    <3>3. /\ Dedupe(elements, cap).elements = all /\ Dedupe(elements, cap).left = left
          /\ Dedupe(elements, cap).inPlace = TRUE
      BY <3>1
    <3> HIDE DEF k
    <3> QED
      BY <2>3, <2>4, <2>5, <3>2, <3>3
  <2>6. CASE ~(2 * k <= cap)
    <3> DEFINE left == kept \o Zeros(n - k)
    <3>1. Dedupe(elements, cap) = [elements |-> all, left |-> left, inPlace |-> FALSE]
      BY <1>3, <2>6 DEF Dedupe
    <3>2. left \in Seq(Nat)
      <4> HIDE DEF k, n, kept
      <4>1. n - k \in Int
        BY <1>1
      <4>2. Zeros(n - k) \in Seq(Nat)
        BY <4>1, ZerosTyped
      <4> QED
        BY <2>1, <4>2, Concatenated
    <3> HIDE DEF left, all
    <3>3. /\ Dedupe(elements, cap).elements = all /\ Dedupe(elements, cap).left = left
          /\ Dedupe(elements, cap).inPlace = FALSE
      BY <3>1
    <3> QED
      BY <2>3, <2>4, <3>2, <3>3
  <2> QED
    BY <2>5, <2>6
<1> QED
  BY <1>2, <1>3

\* Overwriting keeps the length.
LEMMA OverwriteProperties ==
  ASSUME NEW a \in Seq(Nat), NEW q \in Seq(Nat)
  PROVE  /\ Overwrite(a, q) \in Seq(Nat) /\ Len(Overwrite(a, q)) = Len(a)
         /\ \A i \in 1 .. Len(a) : Overwrite(a, q)[i] = IF i <= Len(q) THEN q[i] ELSE a[i]
<1>1. /\ Len(a) \in Nat /\ DOMAIN a = 1 .. Len(a) /\ Len(q) \in Nat /\ DOMAIN q = 1 .. Len(q)
      /\ (\A i \in 1 .. Len(a) : a[i] \in Nat) /\ \A i \in 1 .. Len(q) : q[i] \in Nat
  OBVIOUS
<1> DEFINE f == Overwrite(a, q)
<1>2. f = [i \in 1 .. Len(a) |-> IF i <= Len(q) THEN q[i] ELSE a[i]]
  BY <1>1 DEF Overwrite
<1>3. f \in [1 .. Len(a) -> Nat]
  BY <1>1, <1>2
<1> HIDE DEF f
<1>4. f \in Seq(Nat) /\ Len(f) = Len(a)
  <2>1. Len(a) \in Nat
    OBVIOUS
  <2> QED
    BY <1>3, <2>1, ValuesSequence
<1> QED
  BY <1>2, <1>4 DEF f

\* A slice that grows has room for one more element.
LEMMA GrowProperties ==
  ASSUME NEW a \in Seq(Nat), NEW n \in 0 .. Len(a)
  PROVE  /\ Grow(a, n) \in Seq(Nat) /\ n < Len(Grow(a, n))
         /\ \A i \in 1 .. n : Grow(a, n)[i] = a[i]
<1>1. Len(a) \in Nat
  OBVIOUS
<1>2. CASE n < Len(a)
  BY <1>1, <1>2 DEF Grow
<1>3. CASE ~(n < Len(a))
  <2> DEFINE m == IF n = 0 THEN 1 ELSE n
             z == Zeros(m)
  <2>1. m \in Nat \ {0} /\ n = Len(a)
    BY <1>1, <1>3
  <2>2. z \in Seq(Nat) /\ Len(z) = m
    <3> HIDE DEF m
    <3> QED
      BY <2>1 DEF Zeros, Zero
  <2>3. Grow(a, n) = a \o z
    BY <1>3 DEF Grow
  <2> HIDE DEF m, z
  <2> QED
    BY <1>1, <2>1, <2>2, <2>3
<1> QED
  BY <1>2, <1>3

\* The elements of the collector's slices are in their arrays.
LEMMA ElementsTyped ==
  ASSUME SlicesTyped, NEW key \in DOMAIN slices
  PROVE  /\ Elements(slices[key]) \in Seq(Nat)
         /\ Len(Elements(slices[key])) = slices[key].len
         /\ slices[key].len \in 1 .. Len(arrays[key])
         /\ arrays[key] \in Seq(Nat) /\ key \in DOMAIN arrays
         /\ Elements(slices[key]) = SubSeq(arrays[key], 1, slices[key].len)
         /\ \A i \in 1 .. slices[key].len : Elements(slices[key])[i] = arrays[key][i]
<1> DEFINE n == slices[key].len
           a == arrays[key]
<1>1. /\ key \in DOMAIN arrays /\ a \in Seq(Nat) /\ slices[key] = [array |-> key, len |-> n]
      /\ n \in 1 .. Len(a)
  BY DEF SlicesTyped
<1>2. slices[key].array = key
  BY <1>1
<1>3. Elements(slices[key]) = SubSeq(a, 1, n)
  BY <1>1, <1>2 DEF Elements
<1> HIDE DEF n, a
<1>4. Len(a) \in Nat /\ SubSeq(a, 1, n) \in Seq(Nat) /\ Len(SubSeq(a, 1, n)) = n
  BY <1>1
<1>5. \A i \in 1 .. n : SubSeq(a, 1, n)[i] = a[i]
  BY <1>1, <1>4
<1> QED
  BY <1>1, <1>3, <1>4, <1>5 DEF n, a

\* The key of the slice of a record.
LEMMA KeyOfSlice ==
  ASSUME SlicesCollected, phase # "built", NEW key \in DOMAIN slices
  PROVE  /\ key = <<key[1], key[2]>> /\ key[2] \in AddressTypes
         /\ \E r \in added : r.type = key[2] /\ r.owner = key[1]
<1>1. PICK r \in added : r.type \in AddressTypes /\ key = <<r.owner, r.type>>
  BY DEF SlicesCollected
<1>2. key[1] = r.owner /\ key[2] = r.type
  BY <1>1
<1> QED
  BY <1>1, <1>2

\* Values.Add appends the address of the record.
LEMMA AddressAdded ==
  ASSUME Counted, SlicesTyped, SlicesCollected, NEW rr \in Records, AddAddress(rr)
  PROVE  SlicesTyped' /\ SlicesCollected'
<1> DEFINE key == <<rr.owner, rr.type>>
           s == Lookup(slices, key, [array |-> key, len |-> 0])
           a == Lookup(arrays, key, <<>>)
           n == s.len
           b == [Grow(a, n) EXCEPT ![n + 1] = rr.addr]
           old == IF key \in DOMAIN slices THEN Elements(slices[key]) ELSE <<>>
<1>1. /\ phase = "collecting" /\ phase' = phase /\ DOMAIN arrays = DOMAIN slices
      /\ added' = added \union {rr} /\ rr.type \in AddressTypes
      /\ repeated' = IF rr \in added THEN repeated \union {rr} ELSE repeated
      /\ slices' = Put(slices, key, [s EXCEPT !.len = @ + 1])
      /\ arrays' = Put(arrays, key, b)
  BY DEF AddAddress, Accept, SlicesCollected
<1>2. rr.addr \in Nat
  BY <1>1, CollectorAssumption DEF AddressTypes
<1>3. /\ s = [array |-> key, len |-> n] /\ a \in Seq(Nat) /\ n \in 0 .. Len(a)
      /\ old \in Seq(Nat) /\ Len(old) = n /\ \A i \in 1 .. n : old[i] = a[i]
  <2>1. CASE key \in DOMAIN slices
    <3>1. s = slices[key] /\ a = arrays[key] /\ old = Elements(slices[key]) /\ n = slices[key].len
      BY <1>1, <2>1 DEF Lookup
    <3>2. s = [array |-> key, len |-> n]
      BY <2>1, <3>1 DEF SlicesTyped
    <3> HIDE DEF key, s, a, n, old
    <3>3. /\ a \in Seq(Nat) /\ n \in 1 .. Len(a) /\ old \in Seq(Nat) /\ Len(old) = n
          /\ \A i \in 1 .. n : old[i] = a[i]
      <4>1. /\ arrays[key] \in Seq(Nat) /\ slices[key].len \in 1 .. Len(arrays[key])
            /\ Elements(slices[key]) \in Seq(Nat) /\ Len(Elements(slices[key])) = slices[key].len
            /\ \A i \in 1 .. slices[key].len : Elements(slices[key])[i] = arrays[key][i]
        BY <2>1, ElementsTyped
      <4> QED
        BY <3>1, <4>1
    <3> QED
      BY <3>2, <3>3
  <2>2. CASE key \notin DOMAIN slices
    <3>1. s = [array |-> key, len |-> 0] /\ a = <<>> /\ old = <<>>
      BY <1>1, <2>2 DEF Lookup
    <3>2. n = 0
      BY <3>1
    <3> HIDE DEF key, s, a, n, old
    <3> QED
      BY <3>1, <3>2
  <2> QED
    BY <2>1, <2>2
<1>4. /\ b \in Seq(Nat) /\ n + 1 \in 1 .. Len(b) /\ b[n + 1] = rr.addr
      /\ \A i \in 1 .. n : b[i] = a[i]
  <2> DEFINE g == Grow(a, n)
             x == rr.addr
  <2>1. g \in Seq(Nat) /\ n < Len(g) /\ \A i \in 1 .. n : g[i] = a[i]
    <3> HIDE DEF a, n
    <3> QED
      BY <1>3, GrowProperties
  <2>2. n \in Nat /\ Len(g) \in Nat /\ x \in Nat /\ b = [g EXCEPT ![n + 1] = x]
    BY <1>2, <1>3, <2>1
  <2> HIDE DEF a, n, g, x, b
  <2>3. n + 1 \in 1 .. Len(g)
    BY <2>1, <2>2
  <2>4. /\ b \in Seq(Nat) /\ Len(b) = Len(g) /\ b[n + 1] = x
        /\ \A i \in DOMAIN g : i # n + 1 => b[i] = g[i]
    BY <2>1, <2>2, <2>3, Replaced
  <2>5. \A i \in 1 .. n : i \in DOMAIN g /\ i # n + 1
    BY <2>1, <2>2
  <2>6. b[n + 1] = rr.addr
    BY <2>4 DEF x
  <2> QED
    BY <2>1, <2>3, <2>4, <2>5, <2>6
<1>5. /\ DOMAIN slices' = DOMAIN slices \union {key} /\ DOMAIN arrays' = DOMAIN arrays \union {key}
      /\ slices'[key] = [array |-> key, len |-> n + 1] /\ arrays'[key] = b
      /\ \A k \in DOMAIN slices : k # key => slices'[k] = slices[k] /\ arrays'[k] = arrays[k]
  <2>1. [s EXCEPT !.len = @ + 1] = [array |-> key, len |-> n + 1]
    <3>1. s = [array |-> key, len |-> n]
      BY <1>3
    <3> HIDE DEF s, key, n
    <3> QED
      BY <3>1
  <2> HIDE DEF s, key, n, b
  <2> QED
    BY <1>1, <2>1 DEF Put
<1>6. SlicesTyped'
  <2>1. ASSUME NEW id \in DOMAIN arrays'
        PROVE  arrays'[id] \in Seq(Nat)
    <3> HIDE DEF key, b
    <3> QED
      BY <1>1, <1>4, <1>5 DEF SlicesTyped
  <2>2. ASSUME NEW k \in DOMAIN slices'
        PROVE  /\ k \in DOMAIN arrays'
               /\ slices'[k] = [array |-> k, len |-> slices'[k].len]
               /\ slices'[k].len \in 1 .. Len(arrays'[k])
    <3>1. CASE k = key
      <4> HIDE DEF key, b, n
      <4>1. slices'[k].len = n + 1
        BY <1>5, <3>1
      <4> QED
        BY <1>4, <1>5, <3>1, <4>1
    <3>2. CASE k # key
      <4> HIDE DEF key, b
      <4> QED
        BY <1>5, <3>2 DEF SlicesTyped
    <3> QED
      BY <3>1, <3>2
  <2> QED
    BY <2>1, <2>2 DEF SlicesTyped
<1>7. Elements(slices[key])' = Append(old, rr.addr)
  <2> DEFINE q == SubSeq(b, 1, n + 1)
             p == Append(old, rr.addr)
  <2>1. Elements(slices[key])' = q
    <3>1. slices'[key].array = key /\ slices'[key].len = n + 1 /\ n + 1 # 0
      BY <1>3, <1>5
    <3>2. Elements(slices[key])' = SubSeq(arrays'[key], 1, n + 1)
      <4> HIDE DEF key, n
      <4> QED
        BY <3>1 DEF Elements
    <3> QED
      BY <1>5, <3>2
  <2>2. Len(q) = n + 1 /\ q \in Seq(Nat) /\ \A i \in 1 .. n + 1 : q[i] = b[i]
    <3>1. n \in Nat /\ b \in Seq(Nat) /\ n + 1 \in 1 .. Len(b)
      BY <1>3, <1>4
    <3> HIDE DEF n, b
    <3> QED
      BY <3>1
  <2>3. Len(p) = n + 1 /\ p \in Seq(Nat) /\ p[n + 1] = rr.addr /\ \A i \in 1 .. n : p[i] = old[i]
    <3> DEFINE x == rr.addr
    <3>1. n \in Nat /\ old \in Seq(Nat) /\ Len(old) = n /\ x \in Nat /\ p = Append(old, x)
      BY <1>2, <1>3
    <3> HIDE DEF n, old, x, p
    <3>2. Len(p) = n + 1 /\ p \in Seq(Nat) /\ p[n + 1] = x /\ \A i \in 1 .. n : p[i] = old[i]
      BY <3>1
    <3> QED
      BY <3>2 DEF x
  <2>4. n \in Nat /\ \A i \in 1 .. n + 1 : i \in 1 .. n \/ i = n + 1
    <3>1. n \in 0 .. Len(a) /\ Len(a) \in Nat
      BY <1>3
    <3> HIDE DEF n, a
    <3> QED
      BY <3>1
  <2>5. q = p
    <3> HIDE DEF q, p, n, old, a, b
    <3>1. \A i \in 1 .. n + 1 : q[i] = p[i]
      BY <1>3, <1>4, <2>2, <2>3, <2>4
    <3> QED
      BY <2>2, <2>3, <2>4, <3>1
  <2> QED
    BY <2>1, <2>5
<1>8. DOMAIN slices' = {<<r.owner, r.type>> : r \in {r \in added' : r.type \in AddressTypes}}
  <2>1. DOMAIN slices = {<<r.owner, r.type>> : r \in {r \in added : r.type \in AddressTypes}}
    BY <1>1 DEF SlicesCollected
  <2>2. {r \in added' : r.type \in AddressTypes} = {r \in added : r.type \in AddressTypes} \union {rr}
    BY <1>1
  <2> QED
    BY <1>5, <2>1, <2>2
<1>9. ASSUME NEW k \in DOMAIN slices', Once(k[1], k[2])'
      PROVE  /\ IsInjective(Elements(slices[k])')
             /\ ToSet(Elements(slices[k])') = Addresses(k[1], k[2])'
  <2>1. Once(k[1], k[2])
    BY <1>1, <1>9 DEF Once
  <2>2. CASE k = key
    <3>1. k[1] = rr.owner /\ k[2] = rr.type
      BY <2>2
    <3>2. rr \notin added
      BY <1>1, <1>9, <3>1 DEF Once
    <3>3. IsInjective(old) /\ ToSet(old) = Addresses(rr.owner, rr.type)
      <4>1. CASE key \in DOMAIN slices
        BY <1>1, <2>1, <2>2, <3>1, <4>1 DEF SlicesCollected
      <4>2. CASE key \notin DOMAIN slices
        <5>1. old = <<>>
          BY <4>2
        <5>2. IsInjective(old) /\ ToSet(old) = {}
          <6> HIDE DEF old
          <6> QED
            BY <5>1, EmptySequence
        <5>3. {r \in added : r.type = rr.type /\ r.owner = rr.owner} = {}
          BY <1>1, <4>2 DEF SlicesCollected
        <5> QED
          BY <5>2, <5>3 DEF Addresses
      <4> QED
        BY <4>1, <4>2
    <3>4. rr.addr \notin Addresses(rr.owner, rr.type)
      <4> SUFFICES ASSUME NEW r \in added, r.type = rr.type, r.owner = rr.owner, r.addr = rr.addr
                   PROVE  FALSE
        BY DEF Addresses
      <4>1. r \in Records
        BY DEF Counted
      <4>2. /\ r = [type |-> r.type, owner |-> r.owner, addr |-> r.addr]
            /\ rr = [type |-> rr.type, owner |-> rr.owner, addr |-> rr.addr]
        BY <1>1, <4>1, CollectorAssumption DEF AddressTypes
      <4>3. r = rr
        BY <4>2
      <4> QED
        BY <3>2, <4>3
    <3>5. Addresses(k[1], k[2])' = Addresses(rr.owner, rr.type) \union {rr.addr}
      <4>1. {r \in added' : r.type = rr.type /\ r.owner = rr.owner}
              = {r \in added : r.type = rr.type /\ r.owner = rr.owner} \union {rr}
        BY <1>1
      <4>2. {r \in added' : r.type = k[2] /\ r.owner = k[1]}
              = {r \in added : r.type = rr.type /\ r.owner = rr.owner} \union {rr}
        BY <3>1, <4>1
      <4> HIDE DEF key
      <4> QED
        BY <4>2 DEF Addresses
    <3>6. /\ IsInjective(Append(old, rr.addr))
          /\ ToSet(Append(old, rr.addr)) = Addresses(rr.owner, rr.type) \union {rr.addr}
      <4> DEFINE x == rr.addr
      <4>1. x \in Nat /\ old \in Seq(Nat) /\ IsInjective(old) /\ x \notin ToSet(old)
        BY <1>2, <1>3, <3>3, <3>4
      <4> HIDE DEF old, x
      <4>2. IsInjective(Append(old, x)) /\ ToSet(Append(old, x)) = ToSet(old) \union {x}
        BY <4>1, AppendedSet
      <4> QED
        BY <3>3, <4>2, Zenon DEF x
    <3>7. Elements(slices[k])' = Append(old, rr.addr)
      BY <1>7, <2>2
    <3> QED
      BY <3>5, <3>6, <3>7
  <2>3. CASE k # key
    <3>1. k \in DOMAIN slices /\ slices'[k] = slices[k] /\ arrays'[k] = arrays[k]
      BY <1>5, <2>3
    <3>2. slices[k].array = k
      <4>1. slices[k] = [array |-> k, len |-> slices[k].len]
        BY <3>1 DEF SlicesTyped
      <4> QED
        BY <4>1
    <3>3. Elements(slices[k])' = Elements(slices[k])
      BY <3>1, <3>2 DEF Elements
    <3>4. Addresses(k[1], k[2])' = Addresses(k[1], k[2])
      <4>1. k = <<k[1], k[2]>>
        BY <1>1, <3>1, KeyOfSlice
      <4>2. ~(rr.type = k[2] /\ rr.owner = k[1])
        BY <2>3, <4>1
      <4>3. {r \in added' : r.type = k[2] /\ r.owner = k[1]} = {r \in added : r.type = k[2] /\ r.owner = k[1]}
        BY <1>1, <4>2
      <4> QED
        BY <4>3 DEF Addresses
    <3> QED
      BY <1>1, <2>1, <3>1, <3>3, <3>4 DEF SlicesCollected
  <2> QED
    BY <2>2, <2>3
<1>10. DOMAIN arrays' = DOMAIN slices'
  BY <1>1, <1>5
<1> QED
  BY <1>6, <1>8, <1>9, <1>10 DEF SlicesCollected

\* The other records leave the slices alone.
LEMMA SlicesLeft ==
  ASSUME SlicesTyped, SlicesCollected, NEW rr \in Records, rr.type \notin AddressTypes,
         added' = added \union {rr}, UNCHANGED <<repeated, slices, arrays>>,
         phase = "collecting", phase' # "building"
  PROVE  SlicesTyped' /\ SlicesCollected'
<1>1. {r \in added' : r.type \in AddressTypes} = {r \in added : r.type \in AddressTypes}
  OBVIOUS
<1>2. ASSUME NEW key \in DOMAIN slices
      PROVE  /\ Once(key[1], key[2])' <=> Once(key[1], key[2])
             /\ Elements(slices[key])' = Elements(slices[key])
             /\ Addresses(key[1], key[2])' = Addresses(key[1], key[2])
  <2>1. key[2] \in AddressTypes
    BY KeyOfSlice
  <2>2. {r \in added' : r.type = key[2] /\ r.owner = key[1]} = {r \in added : r.type = key[2] /\ r.owner = key[1]}
    BY <2>1
  <2> QED
    BY <2>2 DEF Once, Elements, Addresses
<1>3. SlicesCollected'
  BY <1>1, <1>2 DEF SlicesCollected
<1> QED
  BY <1>3 DEF SlicesTyped

\* What Dedupe makes of a slice of the collector.
LEMMA DedupedProperties ==
  ASSUME SlicesTyped, NEW key \in DOMAIN slices
  PROVE  /\ Deduped(key).elements \in Seq(Nat) /\ Deduped(key).left \in Seq(Nat)
         /\ Deduped(key).inPlace \in BOOLEAN
         /\ Deduped(key).inPlace => Len(Deduped(key).elements) <= Len(arrays[key])
         /\ IsInjective(Elements(slices[key])) =>
              /\ Deduped(key).inPlace
              /\ Deduped(key).left = Deduped(key).elements
              /\ Deduped(key).elements = Ordered(ToSet(Elements(slices[key])))
              /\ Len(Deduped(key).elements) = slices[key].len
<1> DEFINE e == Elements(slices[key])
           cap == Len(arrays[key])
<1>1. e \in Seq(Nat) /\ Len(e) = slices[key].len /\ cap \in Nat /\ Len(e) <= cap
  <2>1. /\ e \in Seq(Nat) /\ Len(e) = slices[key].len /\ slices[key].len \in 1 .. cap
        /\ arrays[key] \in Seq(Nat)
    BY ElementsTyped
  <2>2. cap \in Nat
    BY <2>1
  <2> HIDE DEF e, cap
  <2> QED
    BY <2>1, <2>2
<1>2. Deduped(key) = Dedupe(e, cap)
  BY DEF Deduped
<1> HIDE DEF e, cap
<1>3. /\ Deduped(key).elements \in Seq(Nat) /\ Deduped(key).left \in Seq(Nat)
      /\ Deduped(key).inPlace \in BOOLEAN
      /\ Deduped(key).inPlace => Len(Deduped(key).elements) <= cap
      /\ IsInjective(e) =>
           /\ Deduped(key).inPlace
           /\ Deduped(key).left = Deduped(key).elements
           /\ Deduped(key).elements = Ordered(ToSet(e))
           /\ Len(Deduped(key).elements) = Len(e)
  BY <1>1, <1>2, DedupeProperties
<1> QED
  BY <1>1, <1>3 DEF e, cap

\* The arrays after a copy.
LEMMA CopiedArrays ==
  ASSUME SlicesTyped, SlicesCollected, phase = "building", NEW i, NEW t
  PROVE  /\ DOMAIN ArraysAfterCopy(i, t) = DOMAIN arrays \union Fresh(i, t)
         /\ Keys(t) \subseteq DOMAIN slices /\ DOMAIN slices \intersect Fresh(i, t) = {}
         /\ \A id \in DOMAIN ArraysAfterCopy(i, t) : ArraysAfterCopy(i, t)[id] \in Seq(Nat)
         /\ \A id \in DOMAIN arrays \ Fresh(i, t) :
              Len(ArraysAfterCopy(i, t)[id]) = Len(arrays[id])
         /\ \A id \in DOMAIN arrays \ (Keys(t) \union Fresh(i, t)) :
              ArraysAfterCopy(i, t)[id] = arrays[id]
<1> DEFINE A == ArraysAfterCopy(i, t)
           F == Fresh(i, t)
<1>1. Keys(t) \subseteq DOMAIN slices
  BY DEF Keys
<1>2. \A key \in DOMAIN slices : key = <<key[1], key[2]>>
  BY KeyOfSlice
<1>3. DOMAIN slices \intersect F = {}
  <2> SUFFICES ASSUME NEW key \in DOMAIN slices, NEW other, key = Moved(i, other)
               PROVE  FALSE
    BY DEF Fresh
  <2>1. <<key[1], key[2]>> = <<i, other[1], other[2]>>
    BY <1>2 DEF Moved
  <2> QED
    BY <2>1
<1>4. \A id \in DOMAIN slices : id \in DOMAIN arrays /\ arrays[id] \in Seq(Nat)
  BY DEF SlicesTyped
<1> DEFINE Over(id) == Deduped(id).left
<1>5. A = [id \in DOMAIN arrays \union F |->
             IF id \in Keys(t) THEN Overwrite(arrays[id], Over(id))
             ELSE IF id \in F THEN Deduped(<<id[2], id[3]>>).elements
             ELSE arrays[id]]
  BY DEF ArraysAfterCopy
<1>6. \A id \in Keys(t) : Over(id) \in Seq(Nat) /\ id \notin F
  BY <1>1, <1>3, DedupedProperties
<1> HIDE DEF A, F, Over
<1>7. ASSUME NEW key \in Keys(t)
      PROVE  /\ A[key] = Overwrite(arrays[key], Over(key))
             /\ A[key] \in Seq(Nat) /\ Len(A[key]) = Len(arrays[key])
  <2>1. key \in DOMAIN arrays /\ arrays[key] \in Seq(Nat) /\ Over(key) \in Seq(Nat)
    BY <1>1, <1>4, <1>6
  <2>2. A[key] = Overwrite(arrays[key], Over(key))
    BY <1>5, <2>1
  <2> QED
    BY <2>1, <2>2, OverwriteProperties
<1>8. ASSUME NEW id \in F
      PROVE  A[id] \in Seq(Nat)
  <2>1. PICK key \in Keys(t) : id = Moved(i, key)
    BY DEF F, Fresh
  <2>2. A[id] = Deduped(<<id[2], id[3]>>).elements
    BY <1>5, <1>6
  <2>3. <<id[2], id[3]>> = <<key[1], key[2]>>
    BY <2>1 DEF Moved
  <2>4. <<id[2], id[3]>> = key
    BY <1>1, <1>2, <2>3
  <2> QED
    BY <1>1, <2>2, <2>4, DedupedProperties
<1>9. \A id \in DOMAIN arrays \ (Keys(t) \union F) : A[id] = arrays[id] /\ A[id] \in Seq(Nat)
  BY <1>5 DEF SlicesTyped
<1>10. DOMAIN A = DOMAIN arrays \union F
  BY <1>5
<1>11. \A id \in DOMAIN A : A[id] \in Seq(Nat)
  BY <1>7, <1>8, <1>9, <1>10
<1>12. \A id \in DOMAIN arrays \ F : Len(A[id]) = Len(arrays[id])
  BY <1>7, <1>9
<1> QED
  BY <1>1, <1>3, <1>9, <1>10, <1>11, <1>12 DEF A, F

\* What is deduped in place.
LEMMA CopiedInPlace ==
  ASSUME SlicesTyped, NEW i, NEW t, NEW key \in Keys(t),
         Deduped(key).inPlace, Deduped(key).left = Deduped(key).elements,
         NEW k \in 1 .. Len(Deduped(key).elements)
  PROVE  ArraysAfterCopy(i, t)[key][k] = Deduped(key).elements[k]
<1> DEFINE q == Deduped(key).elements
           a == arrays[key]
<1>1. key \in DOMAIN slices /\ key \in DOMAIN arrays
  BY DEF Keys, SlicesTyped
<1>2. q \in Seq(Nat) /\ a \in Seq(Nat) /\ Len(q) <= Len(a)
  BY <1>1, DedupedProperties, ElementsTyped
<1>3. ArraysAfterCopy(i, t)[key] = Overwrite(a, q)
  BY <1>1 DEF ArraysAfterCopy
<1> HIDE DEF q, a
<1>4. k \in 1 .. Len(q)
  BY DEF q
<1>5. k \in 1 .. Len(a) /\ k <= Len(q)
  BY <1>2, <1>4
<1>6. Overwrite(a, q)[k] = q[k]
  BY <1>2, <1>5, OverwriteProperties
<1> QED
  BY <1>3, <1>6 DEF q

\* What is moved.
LEMMA CopiedElsewhere ==
  ASSUME SlicesTyped, SlicesCollected, phase = "building", NEW i, NEW t,
         NEW key \in Keys(t), ~Deduped(key).inPlace
  PROVE  /\ Moved(i, key) \in Fresh(i, t)
         /\ ArraysAfterCopy(i, t)[Moved(i, key)] = Deduped(key).elements
<1> DEFINE id == Moved(i, key)
<1>1. id \in Fresh(i, t)
  BY DEF Fresh
<1>2. id \notin Keys(t)
  BY <1>1, CopiedArrays
<1>3. ArraysAfterCopy(i, t)[id] = Deduped(<<id[2], id[3]>>).elements
  BY <1>1, <1>2 DEF ArraysAfterCopy
<1>4. <<id[2], id[3]>> = <<key[1], key[2]>>
  BY DEF Moved
<1>5. key \in DOMAIN slices
  BY DEF Keys
<1>6. <<id[2], id[3]>> = key
  BY <1>4, <1>5, KeyOfSlice
<1> QED
  BY <1>1, <1>3, <1>6

\* A slice of the collector after a copy.
LEMMA CopiedSlice ==
  ASSUME SlicesTyped, SlicesCollected, phase = "building", NEW i, NEW t,
         arrays' = ArraysAfterCopy(i, t), NEW key \in DOMAIN slices
  PROVE  /\ key \in DOMAIN arrays' /\ key \notin Fresh(i, t)
         /\ arrays'[key] \in Seq(Nat) /\ Len(arrays'[key]) = Len(arrays[key])
         /\ key \notin Keys(t) => arrays'[key] = arrays[key]
<1> DEFINE A == ArraysAfterCopy(i, t)
           F == Fresh(i, t)
           K == Keys(t)
<1>1. /\ DOMAIN A = DOMAIN arrays \union F
      /\ DOMAIN slices \intersect F = {}
      /\ \A id \in DOMAIN A : A[id] \in Seq(Nat)
      /\ \A id \in DOMAIN arrays \ F : Len(A[id]) = Len(arrays[id])
      /\ \A id \in DOMAIN arrays \ (K \union F) : A[id] = arrays[id]
  BY CopiedArrays
<1>2. key \in DOMAIN arrays
  BY DEF SlicesTyped
<1>3. arrays' = A
  OBVIOUS
<1> HIDE DEF A, F, K
<1>4. key \in DOMAIN arrays' /\ key \in DOMAIN arrays \ F /\ key \notin F
  BY <1>1, <1>2, <1>3
<1>5. key \notin K => arrays'[key] = arrays[key]
  BY <1>1, <1>3, <1>4
<1>6. arrays'[key] \in Seq(Nat) /\ Len(arrays'[key]) = Len(arrays[key])
  BY <1>1, <1>3, <1>4
<1> QED
  BY <1>4, <1>5, <1>6 DEF F, K

\* The elements of a slice without duplicates after a copy.
LEMMA CopiedElements ==
  ASSUME SlicesTyped, SlicesCollected, phase = "building", NEW i, NEW t,
         arrays' = ArraysAfterCopy(i, t), slices' = slices,
         NEW key \in DOMAIN slices, IsInjective(Elements(slices[key]))
  PROVE  Elements(slices[key])' = IF key \in Keys(t) THEN Ordered(ToSet(Elements(slices[key])))
                                                     ELSE Elements(slices[key])
<1>1. /\ slices[key].array = key /\ slices[key].len \in 1 .. Len(arrays[key])
      /\ key \in DOMAIN arrays /\ arrays[key] \in Seq(Nat)
  <2>1. slices[key] = [array |-> key, len |-> slices[key].len]
    BY DEF SlicesTyped
  <2>2. slices[key].array = key
    BY <2>1
  <2> QED
    BY <2>2, ElementsTyped
<1>2. /\ arrays'[key] \in Seq(Nat) /\ Len(arrays'[key]) = Len(arrays[key])
      /\ key \notin Keys(t) => arrays'[key] = arrays[key]
  BY CopiedSlice
<1>3. Elements(slices[key])' = SubSeq(arrays'[key], 1, slices[key].len)
  <2>1. slices[key].len # 0
    BY <1>1
  <2> QED
    BY <1>1, <2>1 DEF Elements
<1>4. CASE key \in Keys(t)
  <2> DEFINE n == slices[key].len
             b == arrays'[key]
             q == Deduped(key).elements
  <2>1. /\ Deduped(key).inPlace /\ Deduped(key).left = Deduped(key).elements
        /\ q = Ordered(ToSet(Elements(slices[key])))
        /\ Len(q) = n /\ q \in Seq(Nat)
    BY DedupedProperties
  <2>2. b \in Seq(Nat) /\ n \in 1 .. Len(b) /\ \A k \in 1 .. n : b[k] = q[k]
    <3>1. \A k \in 1 .. n : b[k] = q[k]
      <4>1. \A k \in 1 .. Len(Deduped(key).elements) :
              ArraysAfterCopy(i, t)[key][k] = Deduped(key).elements[k]
        BY <1>4, <2>1, CopiedInPlace
      <4>2. \A k \in 1 .. Len(Deduped(key).elements) : arrays'[key][k] = Deduped(key).elements[k]
        BY <4>1
      <4> QED
        BY <2>1, <4>2
    <3>2. b \in Seq(Nat) /\ Len(b) = Len(arrays[key]) /\ n \in 1 .. Len(arrays[key])
      BY <1>1, <1>2
    <3> HIDE DEF b, n, q
    <3> QED
      BY <3>1, <3>2
  <2>3. SubSeq(b, 1, n) = q
    <3> HIDE DEF b, n, q
    <3>1. n \in Nat /\ SubSeq(b, 1, n) \in Seq(Nat) /\ Len(SubSeq(b, 1, n)) = n
      BY <2>2
    <3>2. \A k \in 1 .. n : SubSeq(b, 1, n)[k] = q[k]
      BY <2>2, <3>1
    <3> QED
      BY <2>1, <3>1, <3>2
  <2> QED
    BY <1>3, <1>4, <2>1, <2>3
<1>5. CASE key \notin Keys(t)
  <2>1. arrays'[key] = arrays[key]
    BY <1>2, <1>5
  <2> QED
    BY <1>3, <1>5, <2>1, ElementsTyped
<1> QED
  BY <1>4, <1>5

\* A copy leaves the slices of the collector as they should be.
LEMMA SlicesCopied ==
  ASSUME SlicesTyped, SlicesCollected, CopyEndpoint
  PROVE  SlicesTyped' /\ SlicesCollected'
<1> DEFINE t == Head(names)
           i == Len(gps)
<1>1. /\ phase = "building" /\ UNCHANGED <<phase, added, repeated, slices>>
      /\ arrays' = ArraysAfterCopy(i, t)
  BY DEF CopyEndpoint
<1> HIDE DEF t, i
<1>2. SlicesTyped'
  <2>1. \A id \in DOMAIN arrays' : arrays'[id] \in Seq(Nat)
    BY <1>1, CopiedArrays
  <2>2. ASSUME NEW key \in DOMAIN slices
        PROVE  /\ key \in DOMAIN arrays' /\ slices[key] = [array |-> key, len |-> slices[key].len]
               /\ slices[key].len \in 1 .. Len(arrays'[key])
    <3>1. /\ key \in DOMAIN arrays /\ slices[key] = [array |-> key, len |-> slices[key].len]
          /\ slices[key].len \in 1 .. Len(arrays[key])
      BY DEF SlicesTyped
    <3>2. key \in DOMAIN arrays' /\ Len(arrays'[key]) = Len(arrays[key])
      BY <1>1, CopiedSlice
    <3> QED
      BY <3>1, <3>2
  <2> QED
    BY <1>1, <2>1, <2>2 DEF SlicesTyped
<1>3. ASSUME NEW key \in DOMAIN slices', Once(key[1], key[2])'
      PROVE  /\ IsInjective(Elements(slices[key])')
             /\ ToSet(Elements(slices[key])') = Addresses(key[1], key[2])'
  <2> DEFINE e == Elements(slices[key])
  <2>1. /\ key \in DOMAIN slices /\ Once(key[1], key[2])
        /\ Addresses(key[1], key[2])' = Addresses(key[1], key[2])
    BY <1>1, <1>3 DEF Once, Addresses
  <2>2. IsInjective(e) /\ ToSet(e) = Addresses(key[1], key[2]) /\ e \in Seq(Nat)
    BY <1>1, <2>1, ElementsTyped DEF SlicesCollected
  <2>3. e' = IF key \in Keys(t) THEN Ordered(ToSet(e)) ELSE e
    BY <1>1, <2>1, <2>2, CopiedElements
  <2>4. ToSet(Ordered(ToSet(e))) = ToSet(e) /\ IsInjective(Ordered(ToSet(e)))
    <3>1. ToSet(e) \in SUBSET Nat /\ IsFiniteSet(ToSet(e))
      <4> HIDE DEF e
      <4> QED
        BY <2>2, OwnElements, ElementsFinite
    <3> DEFINE q == Ordered(ToSet(e))
    <3>2. q \in Seq(Nat) /\ ToSet(q) = ToSet(e) /\ Increasing(q)
      <4> HIDE DEF e
      <4> QED
        BY <3>1, OrderedSet
    <3> HIDE DEF q
    <3>3. \A k, l \in DOMAIN q : q[k] = q[l] => k = l
      <4>1. DOMAIN q \subseteq Nat /\ \A k \in DOMAIN q : q[k] \in Nat
        BY <3>2
      <4> QED
        BY <3>2, <4>1 DEF Increasing
    <3>4. IsInjective(q)
      BY <3>3 DEF IsInjective
    <3> QED
      BY <3>2, <3>4 DEF q
  <2> QED
    BY <2>1, <2>2, <2>3, <2>4
<1>4. SlicesCollected'
  BY <1>1, <1>3 DEF SlicesCollected
<1> QED
  BY <1>2, <1>4

\* Only the addresses of records, and the copies, change the slices.
LEMMA SlicesPreserved ==
  ASSUME Counted, SlicesTyped, SlicesCollected, [Next]_collectorVars
  PROVE  SlicesTyped' /\ SlicesCollected'
<1>1. ASSUME NEW rr \in Records, AddTXT(rr) \/ RejectTXT(rr) \/ AddSRV(rr) \/ IgnoreRR(rr)
      PROVE  SlicesTyped' /\ SlicesCollected'
  <2>1. /\ rr.type \notin AddressTypes /\ added' = added \union {rr}
        /\ UNCHANGED <<repeated, slices, arrays>> /\ phase = "collecting" /\ phase' # "building"
    BY <1>1 DEF AddTXT, RejectTXT, AddSRV, IgnoreRR, Accept, AddressTypes
  <2> QED
    BY <2>1, SlicesLeft
<1>2. ASSUME NEW rr \in Records, AddAddress(rr)
      PROVE  SlicesTyped' /\ SlicesCollected'
  BY <1>2, AddressAdded
<1>3. CASE CopyEndpoint
  BY <1>3, SlicesCopied
<1>4. CASE BeginBuild \/ NextGroup \/ SkipTarget \/ UNCHANGED collectorVars
  <2>1. /\ UNCHANGED <<added, repeated, slices, arrays>> /\ (phase' # "built" => phase # "built")
        /\ (phase' # "building" => phase' = phase)
    BY <1>4 DEF BeginBuild, NextGroup, SkipTarget, collectorVars
  <2> QED
    BY <2>1 DEF SlicesTyped, SlicesCollected, Once, Elements, Addresses
<1>5. CASE EndBuild
  <2>1. phase' = "built" /\ slices' = <<>> /\ UNCHANGED arrays
    BY <1>5 DEF EndBuild
  <2> QED
    BY <2>1 DEF SlicesTyped, SlicesCollected
<1> QED
  BY <1>1, <1>2, <1>3, <1>4, <1>5 DEF Next

(***************************************************************************)
(* What is built.                                                          *)
(***************************************************************************)

\* Without new records the reference stays.
LEMMA SameRecords ==
  ASSUME added' = added
  PROVE  /\ GroupNames' = GroupNames /\ \A name : ServicesOf(name)' = ServicesOf(name)
         /\ \A name : TargetsOf(name)' = TargetsOf(name)
         /\ \A t : Reachable(t)' = Reachable(t)
         /\ \A t, type : Addresses(t, type)' = Addresses(t, type)
<1>1. Definitions' = Definitions
  BY DEF Definitions
<1>2. GroupNames' = GroupNames /\ \A name : ServicesOf(name)' = ServicesOf(name)
  BY <1>1, SameDefinitions
<1>3. \A name : TargetsOf(name)' = TargetsOf(name)
  BY <1>2 DEF TargetsOf
<1>4. \A t, type : Addresses(t, type)' = Addresses(t, type)
  BY DEF Addresses
<1>5. \A t : Reachable(t)' = Reachable(t)
  BY <1>4 DEF Reachable
<1> QED
  BY <1>2, <1>3, <1>4, <1>5

\* The first of an increasing sequence, and the others.
LEMMA HeadAndTail ==
  ASSUME NEW q \in Seq(Nat), Increasing(q), q # <<>>
  PROVE  /\ Head(q) \in Nat /\ Tail(q) \in Seq(Nat) /\ Increasing(Tail(q))
         /\ ToSet(q) = {Head(q)} \union ToSet(Tail(q))
         /\ \A x \in ToSet(Tail(q)) : Head(q) < x
<1> DEFINE h == Head(q)
           r == Tail(q)
           n == Len(q)
<1>1. n \in Nat \ {0} /\ DOMAIN q = 1 .. n /\ h = q[1] /\ h \in Nat /\ r \in Seq(Nat)
  OBVIOUS
<1>2. Len(r) = n - 1 /\ DOMAIN r = 1 .. n - 1 /\ \A k \in 1 .. n - 1 : r[k] = q[k + 1]
  BY <1>1
<1> HIDE DEF h, r, n
<1>3. Increasing(r)
  <2> SUFFICES ASSUME NEW k \in DOMAIN r, NEW l \in DOMAIN r, k < l
               PROVE  r[k] < r[l]
    BY DEF Increasing
  <2>0. k \in 1 .. n - 1 /\ l \in 1 .. n - 1 /\ DOMAIN q = 1 .. n /\ n \in Nat
    BY <1>1, <1>2
  <2>1. k + 1 \in DOMAIN q /\ l + 1 \in DOMAIN q /\ k + 1 < l + 1
    BY <2>0
  <2>2. q[k + 1] < q[l + 1]
    BY <2>1 DEF Increasing
  <2> QED
    BY <1>2, <2>2
<1>4. ToSet(q) = {h} \union ToSet(r)
  <2>1. ASSUME NEW k \in DOMAIN q, k # 1
        PROVE  q[k] \in ToSet(r)
    <3>1. k - 1 \in 1 .. n - 1 /\ (k - 1) + 1 = k
      BY <1>1, <2>1
    <3>2. k - 1 \in DOMAIN r /\ r[k - 1] = q[k]
      BY <1>2, <3>1
    <3> QED
      BY <3>2 DEF ToSet
  <2>2. ASSUME NEW k \in DOMAIN r
        PROVE  r[k] \in ToSet(q)
    <3>1. k \in 1 .. n - 1 /\ r[k] = q[k + 1]
      BY <1>2
    <3>2. k + 1 \in DOMAIN q
      BY <1>1, <3>1
    <3> QED
      BY <3>1, <3>2 DEF ToSet
  <2>3. h \in ToSet(q)
    BY <1>1 DEF ToSet
  <2> QED
    BY <1>1, <2>1, <2>2, <2>3 DEF ToSet
<1>5. \A x \in ToSet(r) : h < x
  <2> SUFFICES ASSUME NEW k \in DOMAIN r
               PROVE  h < r[k]
    BY DEF ToSet
  <2>0. k \in 1 .. n - 1
    BY <1>2
  <2>1. 1 \in DOMAIN q /\ k + 1 \in DOMAIN q /\ 1 < k + 1
    BY <1>1, <2>0
  <2>2. q[1] < q[k + 1]
    BY <2>1 DEF Increasing
  <2> QED
    BY <1>1, <1>2, <2>2
<1> QED
  BY <1>1, <1>3, <1>4, <1>5 DEF h, r

\* An increasing sequence and a greater element.
LEMMA IncreasingAppend ==
  ASSUME NEW q \in Seq(Nat), Increasing(q), NEW t \in Nat, \A s \in ToSet(q) : s < t
  PROVE  Increasing(Append(q, t))
<1> DEFINE p == Append(q, t)
           n == Len(q)
<1>1. /\ n \in Nat /\ DOMAIN q = 1 .. n /\ DOMAIN p = 1 .. n + 1
      /\ p[n + 1] = t /\ \A k \in 1 .. n : p[k] = q[k]
  OBVIOUS
<1> HIDE DEF p, n
<1>2. \A k \in 1 .. n : q[k] < t
  BY <1>1 DEF ToSet
<1> SUFFICES ASSUME NEW k \in DOMAIN p, NEW l \in DOMAIN p, k < l
             PROVE  p[k] < p[l]
  BY DEF Increasing, p
<1>3. k \in 1 .. n
  BY <1>1
<1>4. CASE l \in 1 .. n
  BY <1>1, <1>3, <1>4 DEF Increasing
<1>5. CASE l = n + 1
  BY <1>1, <1>2, <1>3, <1>5
<1> QED
  BY <1>1, <1>4, <1>5

\* A target has an endpoint if it has an address.
LEMMA KnownReachable ==
  ASSUME SlicesCollected, phase # "built", NEW t
  PROVE  /\ Known(t) <=> Reachable(t)
         /\ \A type \in AddressTypes : <<t, type>> \notin DOMAIN slices => Addresses(t, type) = {}
<1>1. \A type \in AddressTypes : <<t, type>> \in DOMAIN slices <=> \E r \in added : r.type = type /\ r.owner = t
  BY DEF SlicesCollected
<1>2. \A type \in AddressTypes : Addresses(t, type) # {} <=> \E r \in added : r.type = type /\ r.owner = t
  BY DEF Addresses
<1> QED
  BY <1>1, <1>2 DEF Known, Reachable

\* The names that are deduped and sorted, as the reference orders them.
LEMMA DedupedNames ==
  ASSUME NEW values \in Seq(Nat)
  PROVE  /\ DedupeSorted(values) = Ordered(ToSet(values))
         /\ DedupeSorted(values) \in Seq(Nat) /\ Increasing(DedupeSorted(values))
         /\ ToSet(DedupeSorted(values)) = ToSet(values)
<1> DEFINE S == ToSet(values)
<1>1. DedupeSorted(values) = Ordered(S)
  BY DEF DedupeSorted, Ordered
<1>2. S \in SUBSET Nat /\ IsFiniteSet(S)
  BY OwnElements, ElementsFinite
<1> HIDE DEF S
<1>3. Ordered(S) \in Seq(Nat) /\ ToSet(Ordered(S)) = S /\ Increasing(Ordered(S))
  BY <1>2, OrderedSet
<1> QED
  BY <1>1, <1>3 DEF S

\* targetNames finds the targets of the services.
LEMMA TargetsFound ==
  ASSUME ServicesCollected, phase # "built", NEW serviceNames \in Seq(Nat)
  PROVE  /\ TargetNames(serviceNames) \in Seq(Nat) /\ Increasing(TargetNames(serviceNames))
         /\ ToSet(TargetNames(serviceNames)) =
              {rr.target : rr \in {r \in added : r.type = "SRV" /\ r.owner \in ToSet(serviceNames)}}
<1> DEFINE each == [i \in DOMAIN serviceNames |-> Lookup(services, serviceNames[i], <<>>)]
           T == {rr.target : rr \in {r \in added : r.type = "SRV" /\ r.owner \in ToSet(serviceNames)}}
<1>1. \A s : /\ Lookup(services, s, <<>>) \in Seq(Nat)
             /\ ToSet(Lookup(services, s, <<>>)) = TargetsOfService(s)
  <2> TAKE s
  <2>1. CASE s \in DOMAIN services
    BY <2>1 DEF Lookup, ServicesCollected
  <2>2. CASE s \notin DOMAIN services
    <3>1. Lookup(services, s, <<>>) = <<>>
      BY <2>2 DEF Lookup
    <3>2. TargetsOfService(s) = {}
      BY <2>2 DEF ServicesCollected, TargetsOfService
    <3> QED
      BY <3>1, <3>2, EmptySequence
  <2> QED
    BY <2>1, <2>2
<1>2. each \in Seq(Seq(Nat)) /\ DOMAIN each = DOMAIN serviceNames
  <2>1. Len(serviceNames) \in Nat /\ DOMAIN serviceNames = 1 .. Len(serviceNames)
    OBVIOUS
  <2>2. each \in [1 .. Len(serviceNames) -> Seq(Nat)]
    BY <1>1, <2>1
  <2> HIDE DEF each
  <2> QED
    BY <2>1, <2>2, ValuesSequence
<1>3. TargetNames(serviceNames) = DedupeSorted(FlattenSeq(each))
  BY DEF TargetNames
<1>4. FlattenSeq(each) \in Seq(Nat) /\ ToSet(FlattenSeq(each)) = UNION {ToSet(each[i]) : i \in DOMAIN each}
  <2> HIDE DEF each
  <2> QED
    BY <1>2, FlattenProperties
<1>5. UNION {ToSet(each[i]) : i \in DOMAIN each} = T
  <2>1. \A i \in DOMAIN serviceNames : ToSet(each[i]) = TargetsOfService(serviceNames[i])
    BY <1>1
  <2>2. UNION {ToSet(each[i]) : i \in DOMAIN each} = UNION {TargetsOfService(serviceNames[i]) : i \in DOMAIN serviceNames}
    <3> HIDE DEF each
    <3> QED
      BY <1>2, <2>1
  <2>3. UNION {TargetsOfService(serviceNames[i]) : i \in DOMAIN serviceNames} = T
    BY DEF TargetsOfService, ToSet
  <2> QED
    BY <2>2, <2>3
<1> HIDE DEF each
<1> QED
  BY <1>3, <1>4, <1>5, DedupedNames

\* A slice of the Endpoint of a group.
LEMMA CopiedType ==
  ASSUME SlicesTyped, NEW i \in Nat, NEW t \in Nat, NEW type \in AddressTypes
  PROVE  Copied(i, <<t, type>>) \in SliceType
<1> DEFINE key == <<t, type>>
           I == (Nat \X AddressTypes) \union (Nat \X Nat \X AddressTypes)
<1>1. key \in I /\ Moved(i, key) \in I
  <2>1. key \in Nat \X AddressTypes
    OBVIOUS
  <2>2. Moved(i, key) = <<i, t, type>>
    BY DEF Moved
  <2>3. Moved(i, key) \in Nat \X Nat \X AddressTypes
    BY <2>2
  <2> QED
    BY <2>1, <2>3
<1>2. \E id \in I, n \in Nat : Copied(i, key) = [array |-> id, len |-> n]
  <2>1. CASE key \notin DOMAIN slices
    <3>1. Copied(i, key) = [array |-> key, len |-> 0]
      BY <2>1 DEF Copied
    <3> QED
      BY <1>1, <3>1
  <2>2. CASE key \in DOMAIN slices
    <3> DEFINE id == IF Deduped(key).inPlace THEN key ELSE Moved(i, key)
               n == Len(Deduped(key).elements)
    <3>1. Copied(i, key) = [array |-> id, len |-> n]
      BY <2>2 DEF Copied
    <3>2. n \in Nat
      <4>1. Deduped(key).elements \in Seq(Nat)
        BY <2>2, DedupedProperties
      <4> QED
        BY <4>1
    <3>3. id \in I
      BY <1>1
    <3> HIDE DEF id, n
    <3> QED
      BY <3>1, <3>2, <3>3
  <2> QED
    BY <2>1, <2>2
<1> HIDE DEF I, key
<1>3. Copied(i, key) \in [array : I, len : Nat]
  BY <1>2
<1> QED
  BY <1>3 DEF I, key, SliceType

\* The names are those left of the last group.
LEMMA OthersPending ==
  ASSUME NEW i, i # Len(gps)
  PROVE  Pending(i) = <<>> /\ ToSet(Pending(i)) = {}
BY DEF Pending, ToSet

\* A step that leaves a group and the names pending for it alone.
LEMMA GroupKept ==
  ASSUME NEW i, added' = added, gps'[i] = gps[i], ToSet(Pending(i))' = ToSet(Pending(i)),
         GroupBuilt(i)
  PROVE  GroupBuilt(i)'
BY SameRecords DEF GroupBuilt, OriginalNames

\* The next group of the reference.
LEMMA GroupBegun ==
  ASSUME GroupsCollected, ServicesCollected, GroupsBuilt, NextGroup
  PROVE  GroupsBuilt'
<1> DEFINE n == Len(gps) + 1
           name == SortedGroups[n]
           serviceNames == DedupeSorted(groups[name])
           gp == [name |-> name, services |-> serviceNames, endpoints |-> <<>>]
<1>1. /\ phase = "building" /\ names = <<>> /\ Len(gps) < Cardinality(DOMAIN groups)
      /\ gps' = Append(gps, gp) /\ names' = TargetNames(serviceNames)
      /\ UNCHANGED <<phase, added>>
  BY DEF NextGroup
<1>2. /\ gps \in Seq(GroupType) /\ Len(gps) \in Nat /\ n \in Nat
      /\ IsFiniteSet(GroupNames) /\ GroupNames \in SUBSET Seq(Nat) /\ DOMAIN groups = GroupNames
  BY <1>1 DEF GroupsBuilt, GroupsCollected
<1>3. n \in 1 .. Cardinality(GroupNames)
  <2>1. Cardinality(GroupNames) \in Nat
    BY <1>2, FS_CardinalityType
  <2> QED
    BY <1>1, <1>2, <2>1
<1>4. name = SortedNames(GroupNames)[n] /\ name \in GroupNames
  <2> DEFINE q == SortedNames(GroupNames)
  <2>1. q \in Seq(GroupNames) /\ Len(q) = Cardinality(GroupNames)
    BY <1>2, SortedNamesSet
  <2>2. name = q[n]
    BY <1>2 DEF SortedGroups
  <2> HIDE DEF q, n, name
  <2>3. q[n] \in GroupNames
    BY <1>3, <2>1
  <2> QED
    BY <2>2, <2>3 DEF q
<1> HIDE DEF n, name
<1>5. /\ name \in Seq(Nat) /\ groups[name] \in Seq(Nat) /\ ToSet(groups[name]) = ServicesOf(name)
  <2>1. name \in DOMAIN groups /\ name \in Seq(Nat)
    BY <1>2, <1>4
  <2> QED
    BY <1>1, <2>1 DEF GroupsCollected
<1>6. /\ serviceNames = Ordered(ServicesOf(name)) /\ serviceNames \in Seq(Nat)
      /\ ToSet(serviceNames) = ServicesOf(name)
  BY <1>5, DedupedNames
<1> HIDE DEF serviceNames
<1>7. /\ names' \in Seq(Nat) /\ Increasing(names') /\ ToSet(names') = TargetsOf(name)
  <2>1. phase # "built"
    BY <1>1
  <2>2. /\ TargetNames(serviceNames) \in Seq(Nat) /\ Increasing(TargetNames(serviceNames))
        /\ ToSet(TargetNames(serviceNames)) =
             {rr.target : rr \in {r \in added : r.type = "SRV" /\ r.owner \in ToSet(serviceNames)}}
    BY <1>6, <2>1, TargetsFound
  <2> QED
    BY <1>1, <1>6, <2>2 DEF TargetsOf
<1>8. gp \in GroupType
  <2>1. <<>> \in Seq(EndpointType)
    OBVIOUS
  <2> QED
    BY <1>5, <1>6, <2>1 DEF GroupType
<1> HIDE DEF gp
<1>9. /\ gps' \in Seq(GroupType) /\ Len(gps') = n /\ DOMAIN gps' = 1 .. n /\ gps'[n] = gp
      /\ DOMAIN gps = 1 .. Len(gps) /\ \A i \in DOMAIN gps : gps'[i] = gps[i]
  <2>1. n = Len(gps) + 1
    BY DEF n
  <2> QED
    BY <1>1, <1>2, <1>8, <2>1
<1>10. ASSUME NEW i \in DOMAIN gps'
       PROVE  GroupBuilt(i)'
  <2>1. CASE i = n
    <3>1. /\ gps'[i].name = name /\ gps'[i].services = Ordered(ServicesOf(name))
          /\ gps'[i].endpoints = <<>>
      BY <1>6, <1>9, <2>1 DEF gp
    <3>2. OriginalNames(gps'[i]) = <<>>
      BY <3>1 DEF OriginalNames
    <3>3. ToSet(OriginalNames(gps'[i])) = {} /\ Increasing(OriginalNames(gps'[i]))
      BY <3>2, EmptySequence DEF Increasing
    <3>4. Pending(i)' = names'
      BY <1>9, <2>1 DEF Pending
    <3>5. ToSet(Pending(i)') = TargetsOf(name)
      BY <1>7, <3>4
    <3> QED
      BY <1>1, <1>4, <2>1, <3>1, <3>3, <3>5, SameRecords DEF GroupBuilt
  <2>2. CASE i # n
    <3>1. i \in DOMAIN gps /\ gps'[i] = gps[i] /\ i # Len(gps')
      BY <1>2, <1>9, <2>2 DEF n
    <3>2. ToSet(Pending(i)) = {}
      <4>1. Pending(i) = <<>>
        BY <1>1 DEF Pending
      <4> QED
        BY <4>1, EmptySequence
    <3>3. ToSet(Pending(i))' = {}
      <4>1. Pending(i)' = <<>>
        BY <3>1 DEF Pending
      <4> QED
        BY <4>1, EmptySequence
    <3>4. GroupBuilt(i)
      BY <3>1 DEF GroupsBuilt
    <3> QED
      BY <1>1, <3>1, <3>2, <3>3, <3>4, GroupKept
  <2> QED
    BY <2>1, <2>2
<1>11. GroupNames' = GroupNames
  BY <1>1, SameRecords
<1>12. gps' # <<>>
  BY <1>3, <1>9
<1> QED
  BY <1>1, <1>2, <1>3, <1>7, <1>9, <1>10, <1>11, <1>12 DEF GroupsBuilt

\* A target without an address is no endpoint of the reference either.
LEMMA TargetSkipped ==
  ASSUME SlicesCollected, GroupsBuilt, SkipTarget
  PROVE  GroupsBuilt'
<1> DEFINE h == Head(names)
<1>1. /\ phase = "building" /\ names # <<>> /\ ~Known(h) /\ names' = Tail(names)
      /\ UNCHANGED <<phase, added, gps>>
  BY DEF SkipTarget
<1>2. names \in Seq(Nat) /\ Increasing(names) /\ gps \in Seq(GroupType) /\ gps # <<>>
  BY <1>1 DEF GroupsBuilt
<1>3. /\ names' \in Seq(Nat) /\ Increasing(names') /\ ToSet(names) = {h} \union ToSet(names')
      /\ \A x \in ToSet(names') : h < x
  BY <1>1, <1>2, HeadAndTail
<1>4. ~Reachable(h)
  BY <1>1, KnownReachable
<1> HIDE DEF h
<1>5. ASSUME NEW i \in DOMAIN gps
      PROVE  GroupBuilt(i)'
  <2>1. GroupBuilt(i)
    BY DEF GroupsBuilt
  <2>2. CASE i = Len(gps)
    <3>1. Pending(i) = names /\ Pending(i)' = names'
      BY <1>1, <2>2 DEF Pending
    <3>2. {t \in ToSet(names) : Reachable(t)} = {t \in ToSet(names') : Reachable(t)}
      BY <1>3, <1>4
    <3>3. /\ \A s \in ToSet(OriginalNames(gps[i])), t \in ToSet(names') : s < t
          /\ ToSet(OriginalNames(gps[i])) \union {t \in ToSet(names') : Reachable(t)}
               = {t \in TargetsOf(gps[i].name) : Reachable(t)}
      BY <1>3, <2>1, <3>1, <3>2 DEF GroupBuilt
    <3>4. /\ gps[i].name = SortedNames(GroupNames)[i]
          /\ gps[i].services = Ordered(ServicesOf(gps[i].name))
          /\ Increasing(OriginalNames(gps[i]))
      BY <2>1 DEF GroupBuilt
    <3> QED
      BY <1>1, <3>1, <3>3, <3>4, SameRecords DEF GroupBuilt
  <2>3. CASE i # Len(gps)
    <3>1. ToSet(Pending(i)) = {}
      BY <2>3, OthersPending
    <3>2. ToSet(Pending(i))' = {}
      <4>1. Pending(i)' = <<>>
        BY <1>1, <2>3 DEF Pending
      <4> QED
        BY <4>1, EmptySequence
    <3> QED
      BY <1>1, <2>1, <3>1, <3>2, GroupKept
  <2> QED
    BY <2>2, <2>3
<1>6. GroupNames' = GroupNames
  BY <1>1, SameRecords
<1> QED
  BY <1>1, <1>2, <1>3, <1>5, <1>6 DEF GroupsBuilt

\* What a copy appends to the last group.
LEMMA EndpointAppended ==
  ASSUME SlicesTyped, GroupsBuilt, CopyEndpoint
  PROVE  LET t == Head(names)
             i == Len(gps)
             e == [originalName |-> t, ip4 |-> Copied(i, <<t, "A">>), ip6 |-> Copied(i, <<t, "AAAA">>)]
         IN  /\ i \in Nat \ {0} /\ i \in DOMAIN gps /\ t \in Nat /\ e \in EndpointType
             /\ gps' \in Seq(GroupType) /\ Len(gps') = Len(gps)
             /\ \A k \in DOMAIN gps : k # i => gps'[k] = gps[k]
             /\ gps[i] \in GroupType
             /\ gps'[i].name = gps[i].name /\ gps'[i].services = gps[i].services
             /\ gps'[i].endpoints = Append(gps[i].endpoints, e)
<1> DEFINE t == Head(names)
           i == Len(gps)
           e == [originalName |-> t, ip4 |-> Copied(i, <<t, "A">>), ip6 |-> Copied(i, <<t, "AAAA">>)]
           gp == [gps[i] EXCEPT !.endpoints = Append(@, e)]
<1>1. /\ names # <<>> /\ gps \in Seq(GroupType) /\ names \in Seq(Nat)
      /\ gps' = [gps EXCEPT ![i] = gp]
  BY DEF CopyEndpoint, GroupsBuilt
<1>2. gps # <<>>
  BY <1>1 DEF GroupsBuilt
<1>3. i \in Nat \ {0} /\ i \in 1 .. Len(gps) /\ i \in DOMAIN gps /\ t \in Nat
  BY <1>1, <1>2
<1>4. e \in EndpointType
  <2>1. Copied(i, <<t, "A">>) \in SliceType /\ Copied(i, <<t, "AAAA">>) \in SliceType
    <3>1. "A" \in AddressTypes /\ "AAAA" \in AddressTypes
      BY DEF AddressTypes
    <3> HIDE DEF i, t
    <3> QED
      BY <1>3, <3>1, CopiedType
  <2> QED
    BY <1>3, <2>1 DEF EndpointType
<1>5. gps[i] \in GroupType
  BY <1>1, <1>3
<1> HIDE DEF e, i, t
<1>6. /\ gp \in GroupType /\ gp.name = gps[i].name /\ gp.services = gps[i].services
      /\ gp.endpoints = Append(gps[i].endpoints, e)
  <2> DEFINE g == gps[i]
             es == g.endpoints
             x == Append(es, e)
  <2>1. g \in GroupType /\ es \in Seq(EndpointType)
    BY <1>5 DEF GroupType
  <2>2. gp = [g EXCEPT !.endpoints = x]
    OBVIOUS
  <2> HIDE DEF es
  <2>3. x \in Seq(EndpointType)
    BY <1>4, <2>1, AppendedSet
  <2> HIDE DEF g, x, gp
  <2>4. gp \in GroupType /\ gp.name = g.name /\ gp.services = g.services /\ gp.endpoints = x
    BY <2>1, <2>2, <2>3 DEF GroupType
  <2> QED
    BY <2>4 DEF g, x, es
<1> HIDE DEF gp
<1>7. /\ gps' \in Seq(GroupType) /\ Len(gps') = Len(gps) /\ gps'[i] = gp
      /\ \A k \in DOMAIN gps : k # i => gps'[k] = gps[k]
  BY <1>1, <1>3, <1>6, Replaced
<1>8. /\ gps'[i].name = gps[i].name /\ gps'[i].services = gps[i].services
      /\ gps'[i].endpoints = Append(gps[i].endpoints, e)
  BY <1>6, <1>7
<1> QED
  BY <1>3, <1>4, <1>5, <1>7, <1>8 DEF e, i, t

\* A target with an address is the next endpoint of the reference.
LEMMA EndpointCopied ==
  ASSUME SlicesTyped, SlicesCollected, GroupsBuilt, CopyEndpoint
  PROVE  GroupsBuilt'
<1> PICK i : i = Len(gps)
  OBVIOUS
<1> DEFINE h == Head(names)
           e == [originalName |-> h, ip4 |-> Copied(i, <<h, "A">>), ip6 |-> Copied(i, <<h, "AAAA">>)]
           old == OriginalNames(gps[i])
           new == OriginalNames(gps'[i])
<1>1. /\ phase = "building" /\ names # <<>> /\ Known(h) /\ names' = Tail(names)
      /\ UNCHANGED <<phase, added>>
  BY DEF CopyEndpoint
<1>2. names \in Seq(Nat) /\ Increasing(names) /\ gps \in Seq(GroupType) /\ GroupBuilt(i)
  <2>1. i \in DOMAIN gps
    BY EndpointAppended
  <2> QED
    BY <2>1 DEF GroupsBuilt
<1>3. /\ names' \in Seq(Nat) /\ Increasing(names') /\ ToSet(names) = {h} \union ToSet(names')
      /\ \A x \in ToSet(names') : h < x
  BY <1>1, <1>2, HeadAndTail
<1>4. Reachable(h)
  BY <1>1, KnownReachable
<1>5. /\ i \in Nat \ {0} /\ i \in DOMAIN gps /\ h \in Nat /\ e \in EndpointType
      /\ gps' \in Seq(GroupType) /\ Len(gps') = i
      /\ \A k \in DOMAIN gps : k # i => gps'[k] = gps[k]
      /\ gps[i] \in GroupType
      /\ gps'[i].name = gps[i].name /\ gps'[i].services = gps[i].services
      /\ gps'[i].endpoints = Append(gps[i].endpoints, e)
  BY EndpointAppended
<1>6. e.originalName = h
  OBVIOUS
<1> HIDE DEF e, h
<1>7. old \in Seq(Nat) /\ new = Append(old, h)
  <2> DEFINE es == gps[i].endpoints
  <2>1. es \in Seq(EndpointType) /\ Len(es) \in Nat /\ DOMAIN es = 1 .. Len(es)
    <3>1. es \in Seq(EndpointType)
      BY <1>5 DEF GroupType
    <3> HIDE DEF es
    <3> QED
      BY <3>1
  <2>2. \A j \in 1 .. Len(es) : es[j].originalName \in Nat
    <3>1. \A x \in EndpointType : x.originalName \in Nat
      BY DEF EndpointType
    <3> HIDE DEF es
    <3> QED
      BY <2>1, <3>1
  <2>3. old = [j \in 1 .. Len(es) |-> es[j].originalName]
    BY <2>1 DEF OriginalNames
  <2>4. gps'[i].endpoints = Append(es, e)
    BY <1>5
  <2> HIDE DEF es
  <2>5. old \in Seq(Nat) /\ Len(old) = Len(es)
    <3> HIDE DEF old
    <3>1. old \in [1 .. Len(es) -> Nat]
      BY <2>2, <2>3
    <3> QED
      BY <2>1, <3>1, ValuesSequence
  <2>6. new = [j \in 1 .. Len(es) + 1 |-> Append(es, e)[j].originalName]
    <3>1. DOMAIN Append(es, e) = 1 .. Len(es) + 1
      BY <1>5, <2>1
    <3> QED
      BY <2>4, <3>1 DEF OriginalNames
  <2>7. \A j \in 1 .. Len(es) + 1 :
          Append(es, e)[j].originalName = IF j = Len(es) + 1 THEN h ELSE es[j].originalName
    BY <1>5, <1>6, <2>1
  <2>8. Append(old, h) = [j \in 1 .. Len(es) + 1 |-> IF j = Len(es) + 1 THEN h ELSE es[j].originalName]
    <3>1. \A j \in 1 .. Len(es) : old[j] = es[j].originalName
      BY <2>3
    <3> HIDE DEF old
    <3>2. Append(old, h) = [j \in 1 .. Len(old) + 1 |-> IF j = Len(old) + 1 THEN h ELSE old[j]]
      <4>1. old \in Seq(Nat) /\ h \in Nat
        BY <1>5, <2>5
      <4> QED
        BY <4>1, AppendedPlaces
    <3>3. \A j \in 1 .. Len(es) + 1 : j = Len(es) + 1 \/ j \in 1 .. Len(es)
      BY <2>1
    <3> QED
      BY <2>5, <3>1, <3>2, <3>3
  <2> HIDE DEF old, new
  <2> QED
    BY <2>5, <2>6, <2>7, <2>8
<1> HIDE DEF new
<1>8. GroupBuilt(i)'
  <2>1. /\ gps[i].name = SortedNames(GroupNames)[i]
        /\ gps[i].services = Ordered(ServicesOf(gps[i].name))
        /\ Increasing(old)
        /\ \A s \in ToSet(old), t \in ToSet(names) : s < t
        /\ ToSet(old) \union {t \in ToSet(names) : Reachable(t)}
             = {t \in TargetsOf(gps[i].name) : Reachable(t)}
    <3>1. Pending(i) = names
      BY DEF Pending
    <3> QED
      BY <1>2, <3>1 DEF GroupBuilt
  <2> HIDE DEF old
  <2>2. ToSet(new) = ToSet(old) \union {h}
    <3>1. old \in Seq(Nat) /\ h \in Nat /\ new = Append(old, h)
      BY <1>5, <1>7
    <3> QED
      BY <3>1, AppendedSet
  <2>3. Increasing(new)
    <3>1. \A s \in ToSet(old) : s < h
      BY <1>3, <2>1
    <3> QED
      BY <1>5, <1>7, <2>1, <3>1, IncreasingAppend
  <2>4. \A s \in ToSet(new), t \in ToSet(names') : s < t
    BY <1>3, <2>1, <2>2
  <2>5. ToSet(new) \union {t \in ToSet(names') : Reachable(t)}
          = {t \in TargetsOf(gps[i].name) : Reachable(t)}
    <3>1. {t \in ToSet(names) : Reachable(t)} = {h} \union {t \in ToSet(names') : Reachable(t)}
      BY <1>3, <1>4
    <3> QED
      BY <2>1, <2>2, <3>1
  <2>6. Pending(i)' = names'
    BY <1>5 DEF Pending
  <2> QED
    BY <1>1, <1>5, <2>1, <2>3, <2>4, <2>5, <2>6, SameRecords DEF GroupBuilt, new
<1>9. ASSUME NEW k \in DOMAIN gps, k # i
      PROVE  GroupBuilt(k)'
  <2>1. GroupBuilt(k) /\ gps'[k] = gps[k]
    BY <1>5, <1>9 DEF GroupsBuilt
  <2>2. ToSet(Pending(k)) = {}
    BY <1>9, OthersPending
  <2>3. ToSet(Pending(k))' = {}
    <3>1. Pending(k)' = <<>>
      BY <1>5, <1>9 DEF Pending
    <3> QED
      BY <3>1, EmptySequence
  <2> QED
    BY <1>1, <2>1, <2>2, <2>3, GroupKept
<1>10. GroupNames' = GroupNames
  BY <1>1, SameRecords
<1>11. DOMAIN gps' = DOMAIN gps /\ Len(gps') = Len(gps) /\ gps' # <<>>
  <2>1. Len(gps') = Len(gps) /\ Len(gps) \in Nat \ {0}
    BY <1>5
  <2> QED
    BY <1>2, <1>5, <2>1
<1>12. \A k \in DOMAIN gps' : GroupBuilt(k)'
  BY <1>8, <1>9, <1>11
<1> QED
  BY <1>1, <1>3, <1>5, <1>10, <1>11, <1>12 DEF GroupsBuilt

\* The groups that are built are those of the reference.
LEMMA BuildPreserved ==
  ASSUME GroupsCollected, ServicesCollected, SlicesTyped, SlicesCollected, GroupsBuilt,
         [Next]_collectorVars
  PROVE  GroupsBuilt'
<1>1. ASSUME NEW rr \in Records,
             AddTXT(rr) \/ RejectTXT(rr) \/ AddSRV(rr) \/ AddAddress(rr) \/ IgnoreRR(rr)
      PROVE  GroupsBuilt'
  <2>1. phase = "collecting" /\ phase' \in {"collecting", "failed"} /\ UNCHANGED <<gps, names>>
    BY <1>1 DEF AddTXT, RejectTXT, AddSRV, AddAddress, IgnoreRR, Accept
  <2>2. gps = <<>> /\ names \in Seq(Nat) /\ Increasing(names) /\ names = <<>> /\ gps \in Seq(GroupType)
    BY <2>1 DEF GroupsBuilt
  <2> QED
    BY <2>1, <2>2 DEF GroupsBuilt
<1>2. CASE BeginBuild
  <2>1. phase = "collecting" /\ phase' = "building" /\ UNCHANGED <<added, gps, names>>
    BY <1>2 DEF BeginBuild
  <2>2. gps = <<>> /\ names \in Seq(Nat) /\ Increasing(names) /\ names = <<>> /\ gps \in Seq(GroupType)
    BY <2>1 DEF GroupsBuilt
  <2>3. GroupNames' = GroupNames /\ IsFiniteSet(GroupNames) /\ GroupNames \subseteq Seq(Nat)
    <3>1. GroupNames' = GroupNames
      BY <2>1, SameRecords
    <3>2. IsFiniteSet(GroupNames) /\ \A name \in GroupNames : name \in Seq(0 .. 255)
      BY <2>1 DEF GroupsCollected
    <3>3. 0 .. 255 \subseteq Nat
      OBVIOUS
    <3>4. \A name \in GroupNames : name \in Seq(Nat)
      BY <3>2, <3>3, SequenceOfMore
    <3> QED
      BY <3>1, <3>2, <3>4
  <2>4. Len(gps) = 0 /\ Cardinality(GroupNames) \in Nat
    BY <2>2, <2>3, FS_CardinalityType
  <2> QED
    BY <2>1, <2>2, <2>3, <2>4 DEF GroupsBuilt
<1>3. CASE NextGroup
  BY <1>3, GroupBegun
<1>4. CASE SkipTarget
  BY <1>4, TargetSkipped
<1>5. CASE CopyEndpoint
  BY <1>5, EndpointCopied
<1>6. CASE EndBuild \/ UNCHANGED collectorVars
  <2>1. UNCHANGED <<added, gps, names>>
    BY <1>6 DEF EndBuild, collectorVars
  <2>2. GroupNames' = GroupNames
    BY <2>1, SameRecords
  <2>3. \A i : Pending(i)' = Pending(i)
    BY <2>1 DEF Pending
  <2>4. \A i \in DOMAIN gps : GroupBuilt(i)'
    BY <2>1, <2>3, GroupKept DEF GroupsBuilt
  <2>5. CASE EndBuild
    <3>1. /\ phase = "building" /\ phase' = "built" /\ names = <<>>
          /\ Len(gps) = Cardinality(DOMAIN groups)
      BY <2>5 DEF EndBuild
    <3>2. DOMAIN groups = GroupNames
      BY <3>1 DEF GroupsCollected
    <3> QED
      BY <2>1, <2>2, <2>4, <3>1, <3>2 DEF GroupsBuilt
  <2>6. CASE UNCHANGED collectorVars
    <3>1. phase' = phase
      BY <2>6 DEF collectorVars
    <3> QED
      BY <2>1, <2>2, <2>4, <3>1 DEF GroupsBuilt
  <2> QED
    BY <1>6, <2>5, <2>6
<1> QED
  BY <1>1, <1>2, <1>3, <1>4, <1>5, <1>6 DEF Next

\* No target without an address has elements in its slices.
LEMMA NoAddresses ==
  Ordered({}) = <<>>
<1>1. {} \in SUBSET Nat /\ IsFiniteSet({}) /\ Cardinality({}) = 0
  BY FS_EmptySet
<1>2. Ordered({}) \in Seq(Nat) /\ Len(Ordered({})) = 0
  BY <1>1, OrderedSet
<1> QED
  BY <1>2

\* A copy of the slice of the collector, when no address was repeated.
LEMMA SameSlice ==
  ASSUME SlicesTyped, SlicesCollected, phase = "building", NEW i, NEW t, NEW type \in AddressTypes,
         arrays' = ArraysAfterCopy(i, t), UNCHANGED <<added, slices>>,
         NEW u, Once(u, type), <<u, type>> \in DOMAIN slices,
         NEW s, s.array = <<u, type>>, s.len = slices[<<u, type>>].len
  PROVE  /\ Elements(s)' = Elements(slices[<<u, type>>])'
         /\ t = u => Elements(s)' = Ordered(Addresses(u, type))
         /\ Elements(s) = Ordered(Addresses(u, type)) => Elements(s)' = Ordered(Addresses(u, type))
<1> DEFINE key == <<u, type>>
           e == Elements(slices[key])
<1>1. slices[key].array = key
  <2>1. slices[key] = [array |-> key, len |-> slices[key].len]
    BY DEF SlicesTyped
  <2> HIDE DEF key
  <2> QED
    BY <2>1
<1>2. Elements(s) = e /\ Elements(s)' = e'
  BY <1>1 DEF Elements
<1>3. key[1] = u /\ key[2] = type /\ key \in DOMAIN slices /\ (t = u => key \in Keys(t))
  BY DEF Keys
<1> HIDE DEF key
<1>4. IsInjective(e) /\ ToSet(e) = Addresses(u, type)
  BY <1>3 DEF SlicesCollected
<1>5. e' = IF key \in Keys(t) THEN Ordered(Addresses(u, type)) ELSE e
  BY <1>3, <1>4, CopiedElements
<1>6. e = Ordered(Addresses(u, type)) => e' = Ordered(Addresses(u, type))
  BY <1>5
<1>7. t = u => e' = Ordered(Addresses(u, type))
  BY <1>3, <1>5
<1> HIDE DEF e
<1> QED
  BY <1>2, <1>6, <1>7 DEF e, key

\* The slices of the endpoints that were there.
LEMMA SliceKept ==
  ASSUME SlicesTyped, SlicesCollected, phase = "building", NEW i, NEW t, NEW type \in AddressTypes,
         arrays' = ArraysAfterCopy(i, t), UNCHANGED <<added, repeated, slices>>,
         NEW k, NEW u, NEW s, s.len \in Nat, SliceBuilt(k, u, type, s), k = i => u # t
  PROVE  SliceBuilt(k, u, type, s)'
<1>1. /\ s.array \in {<<u, type>>, <<k, u, type>>}
      /\ s.len > 0 => s.array \in DOMAIN arrays /\ s.len <= Len(arrays[s.array])
      /\ Once(u, type) => s.array = <<u, type>> /\ Elements(s) = Ordered(Addresses(u, type))
  BY DEF SliceBuilt
<1>2. s.array \notin Fresh(i, t)
  <2> SUFFICES ASSUME NEW key \in Keys(t), s.array = Moved(i, key)
               PROVE  FALSE
    BY DEF Fresh
  <2>1. key[1] = t
    BY DEF Keys
  <2>2. s.array = <<i, t, key[2]>>
    BY <2>1 DEF Moved
  <2>3. <<u, type>> # <<i, t, key[2]>>
    OBVIOUS
  <2>4. <<k, u, type>> # <<i, t, key[2]>>
    <3> SUFFICES ASSUME <<k, u, type>> = <<i, t, key[2]>>
                 PROVE  FALSE
      OBVIOUS
    <3>1. k = i /\ u = t
      OBVIOUS
    <3> QED
      BY <3>1
  <2> QED
    BY <1>1, <2>2, <2>3, <2>4
<1>3. s.len > 0 => s.array \in DOMAIN arrays' /\ s.len <= Len(arrays'[s.array])
  <2> DEFINE A == ArraysAfterCopy(i, t)
             F == Fresh(i, t)
             id == s.array
  <2>1. DOMAIN A = DOMAIN arrays \union F /\ \A x \in DOMAIN arrays \ F : Len(A[x]) = Len(arrays[x])
    BY CopiedArrays
  <2>2. id \notin F /\ arrays' = A
    BY <1>2
  <2> HIDE DEF A, F
  <2>3. id \in DOMAIN arrays => id \in DOMAIN arrays' /\ Len(arrays'[id]) = Len(arrays[id])
    BY <2>1, <2>2
  <2> QED
    BY <1>1, <2>3
<1>4. ASSUME Once(u, type)'
      PROVE  s.array = <<u, type>> /\ Elements(s)' = Ordered(Addresses(u, type))
  <2>1. s.array = <<u, type>> /\ Elements(s) = Ordered(Addresses(u, type)) /\ Once(u, type)
    <3>1. Once(u, type)
      BY <1>4 DEF Once
    <3> QED
      BY <1>1, <3>1
  <2>2. CASE s.len = 0
    BY <2>1, <2>2 DEF Elements
  <2>3. CASE s.len # 0
    <3> DEFINE key == <<u, type>>
               n == s.len
               a == arrays[key]
    <3>1. key \in DOMAIN arrays /\ n \in 1 .. Len(a) /\ Elements(s) = SubSeq(a, 1, n) /\ a \in Seq(Nat)
      BY <1>1, <2>1, <2>3 DEF Elements, SlicesTyped
    <3>2. Len(Elements(s)) = n /\ n # 0
      <4> HIDE DEF a, n, key
      <4> QED
        BY <3>1
    <3>3. key \in DOMAIN slices
      <4> SUFFICES ASSUME key \notin DOMAIN slices
                   PROVE  FALSE
        OBVIOUS
      <4>1. Addresses(u, type) = {}
        BY KnownReachable
      <4>2. Elements(s) = <<>>
        BY <2>1, <4>1, NoAddresses
      <4> QED
        BY <3>2, <4>2
    <3>4. n = slices[key].len
      <4>1. IsInjective(Elements(slices[key])) /\ ToSet(Elements(slices[key])) = Addresses(u, type)
        <5>1. key[1] = u /\ key[2] = type
          OBVIOUS
        <5> HIDE DEF key
        <5> QED
          BY <2>1, <3>3, <5>1 DEF SlicesCollected
      <4>2. Elements(slices[key]) \in Seq(Nat) /\ Len(Elements(slices[key])) = slices[key].len
        BY <3>3, ElementsTyped
      <4> DEFINE e == Elements(slices[key])
      <4> HIDE DEF key, e
      <4>3. Cardinality(ToSet(e)) = Len(e) /\ ToSet(e) \in SUBSET Nat /\ IsFiniteSet(ToSet(e))
        BY <4>1, <4>2, InjectiveCardinality, ElementsFinite, OwnElements DEF e
      <4>4. Len(Ordered(ToSet(e))) = Cardinality(ToSet(e))
        BY <4>3, OrderedSet
      <4>5. Elements(s) = Ordered(ToSet(e))
        BY <2>1, <4>1 DEF e
      <4>6. Len(e) = slices[key].len
        BY <4>2 DEF e
      <4> QED
        BY <3>2, <4>3, <4>4, <4>5, <4>6
    <3> QED
      BY <2>1, <3>3, <3>4, SameSlice
  <2> QED
    BY <2>2, <2>3
<1> QED
  BY <1>1, <1>3, <1>4, SameRecords DEF SliceBuilt

\* The slice of a new endpoint.
LEMMA SliceNew ==
  ASSUME SlicesTyped, SlicesCollected, phase = "building", NEW i, NEW t, NEW type \in AddressTypes,
         arrays' = ArraysAfterCopy(i, t), UNCHANGED <<added, repeated, slices>>,
         NEW s, s = Copied(i, <<t, type>>)
  PROVE  SliceBuilt(i, t, type, s)'
<1> DEFINE key == <<t, type>>
<1>1. CASE key \notin DOMAIN slices
  <2>1. s = [array |-> key, len |-> 0]
    BY <1>1 DEF Copied
  <2>2. s.array = key /\ s.len = 0
    BY <2>1
  <2>3. Elements(s)' = <<>>
    BY <2>2 DEF Elements
  <2>4. Addresses(t, type)' = {}
    <3>1. Addresses(t, type) = {}
      BY <1>1, KnownReachable
    <3> QED
      BY <3>1, SameRecords
  <2> QED
    BY <2>2, <2>3, <2>4, NoAddresses DEF SliceBuilt
<1>2. CASE key \in DOMAIN slices
  <2> DEFINE q == Deduped(key).elements
             id == IF Deduped(key).inPlace THEN key ELSE Moved(i, key)
             A == ArraysAfterCopy(i, t)
  <2>1. s = [array |-> id, len |-> Len(q)]
    BY <1>2 DEF Copied
  <2>2. s.array = id /\ s.len = Len(q)
    <3> HIDE DEF id, q
    <3> QED
      BY <2>1
  <2>3. key \in Keys(t)
    BY <1>2 DEF Keys
  <2>4. q \in Seq(Nat) /\ Len(q) \in Nat
    <3>1. q \in Seq(Nat)
      BY <1>2, DedupedProperties
    <3> HIDE DEF q
    <3> QED
      BY <3>1
  <2>5. id \in {<<t, type>>, <<i, t, type>>}
    <3>1. Moved(i, key) = <<i, t, type>>
      BY DEF Moved
    <3> QED
      BY <3>1
  <2>6. id \in DOMAIN A /\ Len(q) <= Len(A[id])
    <3>1. CASE Deduped(key).inPlace
      <4>1. id = key /\ Len(q) <= Len(arrays[key])
        BY <1>2, <3>1, DedupedProperties
      <4>2. key \in DOMAIN A /\ Len(A[key]) = Len(arrays[key])
        BY <1>2, CopiedSlice
      <4> HIDE DEF A, q, key
      <4> QED
        BY <4>1, <4>2
    <3>2. CASE ~Deduped(key).inPlace
      <4>1. id = Moved(i, key) /\ id \in Fresh(i, t) /\ A[id] = q
        BY <2>3, <3>2, CopiedElsewhere
      <4>2. id \in DOMAIN A
        BY <4>1, CopiedArrays
      <4> HIDE DEF A, q, id
      <4> QED
        BY <2>4, <4>1, <4>2
    <3> QED
      BY <3>1, <3>2
  <2>7. ASSUME Once(t, type)'
        PROVE  id = key /\ Elements(s)' = Ordered(Addresses(t, type))
    <3>1. Once(t, type)
      BY <2>7 DEF Once
    <3>2. IsInjective(Elements(slices[key]))
      <4>1. key[1] = t /\ key[2] = type
        OBVIOUS
      <4> HIDE DEF key
      <4> QED
        BY <1>2, <3>1, <4>1 DEF SlicesCollected
    <3>3. Deduped(key).inPlace /\ Len(q) = slices[key].len
      BY <1>2, <3>2, DedupedProperties
    <3>4. s.array = <<t, type>> /\ s.len = slices[<<t, type>>].len
      BY <2>2, <3>3
    <3> QED
      BY <1>2, <3>1, <3>3, <3>4, SameSlice
  <2>8. Addresses(t, type)' = Addresses(t, type)
    BY SameRecords
  <2> HIDE DEF q
  <2> QED
    BY <2>2, <2>5, <2>6, <2>7, <2>8 DEF SliceBuilt
<1> QED
  BY <1>1, <1>2

\* A copy gives the endpoint its addresses, and leaves those of the others.
LEMMA AddressesCopied ==
  ASSUME SlicesTyped, SlicesCollected, GroupsBuilt, AddressesBuilt, CopyEndpoint
  PROVE  AddressesBuilt'
<1> PICK i : i = Len(gps)
  OBVIOUS
<1> PICK t : t = Head(names)
  OBVIOUS
<1> PICK e : e = [originalName |-> t, ip4 |-> Copied(i, <<t, "A">>), ip6 |-> Copied(i, <<t, "AAAA">>)]
  OBVIOUS
<1>1. /\ phase = "building" /\ names # <<>> /\ arrays' = ArraysAfterCopy(i, t)
      /\ UNCHANGED <<added, repeated, slices>>
  BY DEF CopyEndpoint
<1>2. /\ i \in DOMAIN gps /\ gps \in Seq(GroupType) /\ gps' \in Seq(GroupType) /\ Len(gps') = Len(gps)
      /\ \A k \in DOMAIN gps : k # i => gps'[k] = gps[k]
      /\ gps'[i].endpoints = Append(gps[i].endpoints, e) /\ e \in EndpointType
  BY EndpointAppended DEF GroupsBuilt
<1>3. DOMAIN gps' = DOMAIN gps
  BY <1>2
<1>4. \A k \in DOMAIN gps :
        /\ gps[k].endpoints \in Seq(EndpointType)
        /\ \A j \in DOMAIN gps[k].endpoints : gps[k].endpoints[j] \in EndpointType
  <2> TAKE k \in DOMAIN gps
  <2>1. gps[k] \in GroupType
    BY <1>2
  <2>2. gps[k].endpoints \in Seq(EndpointType)
    BY <2>1 DEF GroupType
  <2> QED
    BY <2>2
<1>5. ASSUME NEW k \in DOMAIN gps, NEW j \in DOMAIN gps[k].endpoints,
             NEW x, x = gps[k].endpoints[j]
      PROVE  EndpointBuilt(k, x)'
  <2>1. x \in EndpointType /\ EndpointBuilt(k, x)
    BY <1>4, <1>5 DEF AddressesBuilt
  <2>2. k = i => x.originalName # t
    <3> SUFFICES ASSUME k = i
                 PROVE  x.originalName < t
      BY <2>1, <1>2 DEF EndpointType
    <3>1. x.originalName \in ToSet(OriginalNames(gps[i]))
      BY <1>5 DEF OriginalNames, ToSet
    <3>2. t \in ToSet(names)
      BY <1>1, HeadAndTail DEF GroupsBuilt
    <3>3. Pending(i) = names /\ GroupBuilt(i)
      BY <1>2 DEF Pending, GroupsBuilt
    <3> QED
      BY <3>1, <3>2, <3>3 DEF GroupBuilt
  <2>3. ASSUME NEW type \in AddressTypes
        PROVE  SliceBuilt(k, x.originalName, type, SliceOf(x, type))'
    <3>1. SliceBuilt(k, x.originalName, type, SliceOf(x, type))
      BY <2>1 DEF EndpointBuilt
    <3>2. SliceOf(x, type).len \in Nat
      BY <2>1 DEF SliceOf, EndpointType, SliceType
    <3> PICK s : s = SliceOf(x, type)
      OBVIOUS
    <3> PICK u : u = x.originalName
      OBVIOUS
    <3> QED
      BY <1>1, <2>2, <3>1, <3>2, SliceKept
  <2> QED
    BY <2>3 DEF EndpointBuilt
<1>6. EndpointBuilt(i, e)'
  <2>1. e.originalName = t /\ \A type \in AddressTypes : SliceOf(e, type) = Copied(i, <<t, type>>)
    BY DEF SliceOf, AddressTypes
  <2>2. ASSUME NEW type \in AddressTypes
        PROVE  SliceBuilt(i, e.originalName, type, SliceOf(e, type))'
    <3> PICK s : s = Copied(i, <<t, type>>)
      OBVIOUS
    <3>1. SliceBuilt(i, t, type, s)'
      BY <1>1, SliceNew
    <3>2. SliceOf(e, type) = s
      BY <2>1
    <3> QED
      BY <2>1, <3>1, <3>2
  <2> QED
    BY <2>2 DEF EndpointBuilt
<1>7. ASSUME NEW k \in DOMAIN gps', NEW j \in DOMAIN gps'[k].endpoints,
             NEW x, x = gps'[k].endpoints[j]
      PROVE  EndpointBuilt(k, x)'
  <2>1. CASE k # i
    BY <1>2, <1>3, <1>5, <1>7, <2>1
  <2>2. CASE k = i
    <3> DEFINE es == gps[i].endpoints
    <3>1. /\ es \in Seq(EndpointType) /\ x = Append(es, e)[j] /\ j \in DOMAIN Append(es, e)
      BY <1>2, <1>4, <1>7, <2>2
    <3>2. (j \in DOMAIN es /\ x = es[j]) \/ x = e
      <4> HIDE DEF es
      <4> QED
        BY <1>2, <3>1
    <3> QED
      BY <1>2, <1>5, <1>6, <2>2, <3>2
  <2> QED
    BY <2>1, <2>2
<1> QED
  BY <1>7 DEF AddressesBuilt

\* Only a copy changes the endpoints or the arrays of their addresses.
LEMMA AddressesPreserved ==
  ASSUME SlicesTyped, SlicesCollected, GroupsBuilt, AddressesBuilt, [Next]_collectorVars
  PROVE  AddressesBuilt'
<1>1. ASSUME NEW rr \in Records,
             AddTXT(rr) \/ RejectTXT(rr) \/ AddSRV(rr) \/ AddAddress(rr) \/ IgnoreRR(rr)
      PROVE  AddressesBuilt'
  <2>1. phase = "collecting" /\ UNCHANGED gps
    BY <1>1 DEF AddTXT, RejectTXT, AddSRV, AddAddress, IgnoreRR, Accept
  <2>2. gps' = <<>>
    BY <2>1 DEF GroupsBuilt
  <2> QED
    BY <2>2 DEF AddressesBuilt
<1>2. CASE NextGroup
  <2>1. /\ UNCHANGED <<added, repeated, arrays>> /\ gps \in Seq(GroupType)
        /\ \E gp : gp.endpoints = <<>> /\ gps' = Append(gps, gp)
    <3>1. \E gp : gp.endpoints = <<>> /\ gps' = Append(gps, gp)
      <4> DEFINE name == SortedGroups[Len(gps) + 1]
                 gp == [name |-> name, services |-> DedupeSorted(groups[name]), endpoints |-> <<>>]
      <4>1. gps' = Append(gps, gp)
        BY <1>2 DEF NextGroup
      <4>2. gp.endpoints = <<>>
        OBVIOUS
      <4> HIDE DEF gp
      <4> QED
        BY <4>1, <4>2
    <3> QED
      BY <1>2, <3>1 DEF NextGroup, GroupsBuilt
  <2>2. PICK gp : gp.endpoints = <<>> /\ gps' = Append(gps, gp)
    BY <2>1
  <2>3. /\ \A k \in DOMAIN gps' : k \in DOMAIN gps \/ gps'[k].endpoints = <<>>
        /\ \A k \in DOMAIN gps : gps'[k] = gps[k]
    BY <2>1, <2>2
  <2>4. \A i, t, type, s : SliceBuilt(i, t, type, s) => SliceBuilt(i, t, type, s)'
    BY <2>1 DEF SliceBuilt, Once, Elements, Addresses
  <2>5. \A i, e : EndpointBuilt(i, e) => EndpointBuilt(i, e)'
    BY <2>4 DEF EndpointBuilt
  <2> QED
    BY <2>3, <2>5 DEF AddressesBuilt
<1>3. CASE BeginBuild \/ SkipTarget \/ EndBuild \/ UNCHANGED collectorVars
  <2>1. UNCHANGED <<added, repeated, arrays, gps>>
    BY <1>3 DEF BeginBuild, SkipTarget, EndBuild, collectorVars
  <2>2. \A i, t, type, s : SliceBuilt(i, t, type, s) => SliceBuilt(i, t, type, s)'
    BY <2>1 DEF SliceBuilt, Once, Elements, Addresses
  <2>3. \A i, e : EndpointBuilt(i, e) => EndpointBuilt(i, e)'
    BY <2>2 DEF EndpointBuilt
  <2> QED
    BY <2>1, <2>3 DEF AddressesBuilt
<1>4. CASE CopyEndpoint
  BY <1>4, AddressesCopied
<1> QED
  BY <1>1, <1>2, <1>3, <1>4 DEF Next

\* The counters and histories keep to their bounds.
LEMMA CountedPreserved ==
  ASSUME Counted, [Next]_collectorVars
  PROVE  Counted'
<1>1. ASSUME NEW rr \in Records,
             AddTXT(rr) \/ RejectTXT(rr) \/ AddSRV(rr) \/ AddAddress(rr) \/ IgnoreRR(rr)
      PROVE  Counted'
  <2>1. Accept(rr) /\ phase' \in {phase, "failed"}
    BY <1>1 DEF AddTXT, RejectTXT, AddSRV, AddAddress, IgnoreRR
  <2>2. /\ count < MaxRecords /\ count' = count + 1 /\ added' = added \union {rr}
        /\ repeated' \subseteq repeated \union (added \intersect {rr})
    BY <2>1 DEF Accept
  <2>3. count' \in 0 .. MaxRecords
    BY <2>2, CollectorAssumption DEF Counted
  <2> QED
    BY <2>1, <2>2, <2>3 DEF Counted
<1>2. CASE BeginBuild \/ NextGroup \/ SkipTarget \/ CopyEndpoint \/ EndBuild \/ UNCHANGED collectorVars
  BY <1>2 DEF BeginBuild, NextGroup, SkipTarget, CopyEndpoint, EndBuild, collectorVars, Counted
<1> QED
  BY <1>1, <1>2 DEF Next

\* What was collected and built is what the records added say, at any time.
THEOREM CollectedInvariance == Spec => []Collected
<1>1. Init => Collected
  <2> SUFFICES ASSUME Init
               PROVE  Collected
    OBVIOUS
  <2>1. Counted
    BY CollectorAssumption DEF Init, Counted
  <2>2. GroupsCollected
    <3>1. GroupNames = {} /\ DOMAIN groups = {}
      BY DEF Init, GroupNames, Definitions
    <3> QED
      BY <3>1, FS_EmptySet DEF GroupsCollected
  <2>3. ServicesCollected /\ SlicesTyped /\ SlicesCollected
    BY DEF Init, ServicesCollected, SlicesTyped, SlicesCollected
  <2>4. GroupsBuilt /\ AddressesBuilt
    BY DEF Init, GroupsBuilt, AddressesBuilt, Increasing
  <2> QED
    BY <2>1, <2>2, <2>3, <2>4 DEF Collected
<1>2. Collected /\ [Next]_collectorVars => Collected'
  <2> SUFFICES ASSUME Collected, [Next]_collectorVars
               PROVE  Collected'
    OBVIOUS
  <2>1. /\ Counted /\ GroupsCollected /\ ServicesCollected /\ SlicesTyped /\ SlicesCollected
        /\ GroupsBuilt /\ AddressesBuilt
    BY DEF Collected
  <2>2. Counted' /\ GroupsCollected' /\ ServicesCollected'
    BY <2>1, CountedPreserved, GroupsPreserved, ServicesPreserved
  <2>3. SlicesTyped' /\ SlicesCollected'
    BY <2>1, SlicesPreserved
  <2>4. GroupsBuilt'
    BY <2>1, BuildPreserved
  <2>5. AddressesBuilt'
    BY <2>1, AddressesPreserved
  <2> QED
    BY <2>2, <2>3, <2>4, <2>5 DEF Collected
<1> QED
  BY <1>1, <1>2, PTL DEF Spec

\* The state of the collector has the values it can have; no slice reaches
\* beyond its array, neither the collector's nor an endpoint's.
THEOREM TypeCorrect == Spec => []TypeOK
<1>1. Collected => TypeOK
  <2> SUFFICES ASSUME Collected
               PROVE  TypeOK
    OBVIOUS
  <2>1. Counted /\ SlicesTyped /\ AddressesBuilt
    BY DEF Collected
  <2>2. ASSUME NEW key \in DOMAIN slices
        PROVE  /\ slices[key].array \in DOMAIN arrays
               /\ slices[key].len \in 1 .. Len(arrays[slices[key].array])
    <3>1. slices[key] = [array |-> key, len |-> slices[key].len]
      BY <2>1 DEF SlicesTyped
    <3>2. slices[key].array = key
      BY <3>1
    <3> QED
      BY <2>1, <3>2 DEF SlicesTyped
  <2>3. ASSUME NEW i \in DOMAIN gps, NEW e \in ToSet(gps[i].endpoints), NEW s \in {e.ip4, e.ip6}, s.len > 0
        PROVE  s.array \in DOMAIN arrays /\ s.len <= Len(arrays[s.array])
    <3>1. PICK j \in DOMAIN gps[i].endpoints : e = gps[i].endpoints[j]
      BY DEF ToSet
    <3>2. EndpointBuilt(i, e)
      BY <2>1, <3>1 DEF AddressesBuilt
    <3>3. \E type \in AddressTypes : s = SliceOf(e, type)
      BY DEF SliceOf, AddressTypes
    <3> QED
      BY <2>3, <3>2, <3>3 DEF EndpointBuilt, SliceBuilt
  <2> QED
    BY <2>1, <2>2, <2>3 DEF Counted, TypeOK
<1> QED
  BY <1>1, CollectedInvariance, PTL

\* In whatever order the records come, Build returns the groups, services and
\* endpoints of the reference.
THEOREM NamesMeet == Spec => []NamesMeetReference
<1>1. Collected => NamesMeetReference
  <2> SUFFICES ASSUME Collected, phase = "built"
               PROVE  [i \in DOMAIN gps |-> Named(gps[i])] = Reference
    BY DEF NamesMeetReference
  <2> DEFINE q == SortedNames(GroupNames)
  <2>1. /\ gps \in Seq(GroupType) /\ IsFiniteSet(GroupNames) /\ GroupNames \in SUBSET Seq(Nat)
        /\ Len(gps) = Cardinality(GroupNames) /\ names = <<>>
        /\ \A i \in DOMAIN gps : GroupBuilt(i)
    BY DEF Collected, GroupsBuilt
  <2>2. Len(q) = Len(gps) /\ DOMAIN q = DOMAIN gps
    <3>1. q \in Seq(GroupNames) /\ Len(q) = Cardinality(GroupNames)
      BY <2>1, SortedNamesSet
    <3> HIDE DEF q
    <3> QED
      BY <2>1, <3>1
  <2>3. Reference = [i \in DOMAIN gps |-> ReferenceGroup(q[i])]
    <3>1. q = SortedNames({def.name : def \in Definitions})
      BY DEF GroupNames
    <3> HIDE DEF q
    <3> QED
      BY <2>2, <3>1 DEF Reference
  <2>4. ASSUME NEW i \in DOMAIN gps
        PROVE  Named(gps[i]) = ReferenceGroup(q[i])
    <3> DEFINE gp == gps[i]
               ns == OriginalNames(gp)
               T == {t \in TargetsOf(gp.name) : Reachable(t)}
    <3>1. gp \in GroupType
      BY <2>1
    <3>2. /\ gp.name = q[i] /\ gp.services = Ordered(ServicesOf(gp.name)) /\ Increasing(ns)
          /\ ToSet(ns) = T
      <4>1. Pending(i) = <<>>
        BY <2>1 DEF Pending
      <4>2. ToSet(Pending(i)) = {}
        BY <4>1, EmptySequence
      <4> QED
        BY <2>1, <4>2 DEF GroupBuilt
    <3>3. ns \in Seq(Nat)
      <4> DEFINE es == gp.endpoints
      <4>1. es \in Seq(EndpointType)
        BY <3>1 DEF GroupType
      <4>2. ns = [j \in DOMAIN es |-> es[j].originalName]
        BY DEF OriginalNames
      <4> HIDE DEF es, ns
      <4>3. Len(es) \in Nat /\ ns \in [1 .. Len(es) -> Nat]
        <5>1. Len(es) \in Nat /\ DOMAIN es = 1 .. Len(es) /\ \A j \in DOMAIN es : es[j] \in EndpointType
          BY <4>1
        <5>2. \A j \in DOMAIN es : es[j].originalName \in Nat
          BY <5>1 DEF EndpointType
        <5> QED
          BY <4>2, <5>1, <5>2
      <4> QED
        BY <4>3, ValuesSequence
    <3>4. ns = Ordered(T)
      <4> HIDE DEF ns, T
      <4> QED
        BY <3>2, <3>3, IncreasingIsOrdered
    <3>5. Named(gp) = [gp EXCEPT !.endpoints = ns]
      BY DEF Named, OriginalNames
    <3>6. Named(gp) = [name |-> gp.name, services |-> gp.services, endpoints |-> ns]
      <4> HIDE DEF gp, ns
      <4> QED
        BY <3>1, <3>5 DEF GroupType
    <3> QED
      BY <3>2, <3>4, <3>6 DEF ReferenceGroup
  <2> QED
    BY <2>3, <2>4
<1> QED
  BY <1>1, CollectedInvariance, PTL

\* The addresses of an endpoint are those of the records, sorted, if none was
\* repeated.
THEOREM AddressesMeet == Spec => []AddressesMeetReference
<1>1. Collected => AddressesMeetReference
  <2> SUFFICES ASSUME Collected, phase = "built", NEW e \in BuiltEndpoints
               PROVE  /\ Once(e.originalName, "A") => e.ip4 = Ordered(Addresses(e.originalName, "A"))
                      /\ Once(e.originalName, "AAAA") =>
                           e.ip6 = Ordered(Addresses(e.originalName, "AAAA"))
    BY DEF AddressesMeetReference
  <2>1. PICK i \in DOMAIN gps : \E x \in ToSet(gps[i].endpoints) : e = Seen(x)
    BY DEF BuiltEndpoints
  <2>2. PICK x \in ToSet(gps[i].endpoints) : e = Seen(x)
    BY <2>1
  <2>3. x \in EndpointType
    <3>1. gps[i] \in GroupType
      BY DEF Collected, GroupsBuilt
    <3>2. gps[i].endpoints \in Seq(EndpointType)
      BY <3>1 DEF GroupType
    <3> QED
      BY <3>2, OwnElements
  <2>4. EndpointBuilt(i, x)
    BY DEF Collected, AddressesBuilt, ToSet
  <2>5. e.originalName = x.originalName /\ e.ip4 = Elements(x.ip4) /\ e.ip6 = Elements(x.ip6)
    BY <2>2, <2>3 DEF Seen, EndpointType
  <2>6. SliceBuilt(i, x.originalName, "A", x.ip4) /\ SliceBuilt(i, x.originalName, "AAAA", x.ip6)
    BY <2>4 DEF EndpointBuilt, SliceOf, AddressTypes
  <2> QED
    BY <2>5, <2>6 DEF SliceBuilt
<1> QED
  BY <1>1, CollectedInvariance, PTL

=============================================================================
