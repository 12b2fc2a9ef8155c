----------------------------- MODULE RRCollector -----------------------------
(***************************************************************************)
(* service.RRCollector: AddRR collects the resource records of the zone    *)
(* files, Build turns them into a Groups.                                  *)
(*                                                                         *)
(* The addresses of an endpoint are hashy.Values, a Go slice.  Build       *)
(* copies the slices of one target into an Endpoint of each group the      *)
(* target belongs to, and dedupes and sorts each copy in place, so the     *)
(* copies share an array: arrays and slices are modelled as such.          *)
(*                                                                         *)
(* Names of services and targets and addresses are numbers, ordered like   *)
(* what they stand for; Zero is the zero netip.Addr, which sorts first.    *)
(***************************************************************************)
EXTENDS Slices, GroupDefinition

CONSTANTS
  Records,          \* the resource records that may be added
  DiscoveryDomain,  \* owner of the TXT records that define groups
  MaxRecords        \* bound on the records added, for model checking

\* The texts of a TXT record, as Fields splits them.
Texts == [name : Seq(0 .. 255), services : Seq(Nat)]

ASSUME CollectorAssumption ==
  /\ MaxRecords \in Nat
  /\ \A rr \in Records :
       /\ rr.type = "TXT" => rr.txt \in Seq(Texts)
       /\ rr.type = "SRV" => rr.target \in Nat
       /\ rr.type \in {"A", "AAAA"} =>
            /\ rr.addr \in Nat
            /\ rr = [type |-> rr.type, owner |-> rr.owner, addr |-> rr.addr]

VARIABLES
  phase,     \* what the collector is doing
  count,     \* number of records added, up to MaxRecords
  added,     \* the records added (history)
  repeated,  \* the address records added more than once (history)
  groups,    \* rrc.groups: the services of each group, as they came
  services,  \* rrc.services: the targets of each service, as they came
  slices,    \* rrc.endpoints: the slice of addresses of each target and type
  arrays,    \* the arrays slices point to; the length is the capacity
  gps,       \* the Groups that Build returns
  names      \* the target names left of the last group in gps

collectorVars ==
  <<phase, count, added, repeated, groups, services, slices, arrays, gps, names>>

Zero == 0
AddressTypes == {"A", "AAAA"}

Init ==
  /\ phase = "collecting"
  /\ count = 0
  /\ added = {}
  /\ repeated = {}
  /\ groups = <<>>
  /\ services = <<>>
  /\ slices = <<>>
  /\ arrays = <<>>
  /\ gps = <<>>
  /\ names = <<>>

(***************************************************************************)
(* hashy.Values and hashy.Deduper.                                         *)
(***************************************************************************)

Less(S) == {pair \in S \X S : pair[1] < pair[2]}

Sorted(values) == SortedBy(values, Less(ToSet(values)))

\* Deduper.Add, then SortFunc: every value once, in order.
DedupeSorted(values) == Sorted(SetToSeq(ToSet(values)))

\* The elements of slice s.
Elements(s) == IF s.len = 0 THEN <<>> ELSE SubSeq(arrays[s.array], 1, s.len)

Zeros(n) == [i \in 1 .. n |-> Zero]

\* slices.Grow(a, 1), which doubles the capacity if the slice is full.
Grow(a, len) == IF len < Len(a) THEN a ELSE a \o Zeros(IF len = 0 THEN 1 ELSE len)

\* Mutant: Dedupe that does not sort what has no duplicates.
DedupeUnsorted(elements, cap) ==
  LET k == Cardinality(ToSet(elements))
      kept == SubSeq(elements, 1, k)
      all == Sorted(kept \o SetToSeq(ToSet(elements)))
  IN IF k = Len(elements)
       THEN [elements |-> elements, left |-> elements, inPlace |-> TRUE]
     ELSE IF 2 * k <= cap
       THEN [elements |-> all, left |-> all \o Zeros(Len(elements) - 2 * k), inPlace |-> TRUE]
     ELSE [elements |-> all, left |-> kept \o Zeros(Len(elements) - k), inPlace |-> FALSE]

\* Values.Dedupe on a slice with these elements, in an array of capacity cap,
\* and SortFunc after it.  Delete keeps the first k elements, k being the number
\* of distinct values, and zeroes the others; AppendTo appends the k distinct
\* values to those, in place if the capacity allows it.  What the array of the
\* slice is left with begins with left.
Dedupe(elements, cap) ==
  LET k == Cardinality(ToSet(elements))
      kept == SubSeq(elements, 1, k)
      all == Sorted(kept \o SetToSeq(ToSet(elements)))
  IN IF k = Len(elements)
       THEN [elements |-> Sorted(elements), left |-> Sorted(elements), inPlace |-> TRUE]
     ELSE IF 2 * k <= cap
       THEN [elements |-> all, left |-> all \o Zeros(Len(elements) - 2 * k), inPlace |-> TRUE]
     ELSE [elements |-> all, left |-> kept \o Zeros(Len(elements) - k), inPlace |-> FALSE]

\* a with its first elements replaced.
Overwrite(a, elements) ==
  [i \in DOMAIN a |-> IF i <= Len(elements) THEN elements[i] ELSE a[i]]

(***************************************************************************)
(* AddRR.                                                                  *)
(***************************************************************************)

Lookup(f, key, default) == IF key \in DOMAIN f THEN f[key] ELSE default

Put(f, key, value) == [k \in DOMAIN f \union {key} |-> IF k = key THEN value ELSE f[k]]

\* A record comes from a zone file.
Accept(rr) ==
  /\ phase = "collecting"
  /\ count < MaxRecords
  /\ count' = count + 1
  /\ repeated' = IF rr.type \in AddressTypes /\ rr \in added
                    THEN repeated \union {rr} ELSE repeated
  /\ added' = added \union {rr}
  /\ UNCHANGED <<gps, names>>

\* groupCollector.add, for each of defs: the services of a name, as they come.
AddDefinitions(defs) ==
  [name \in DOMAIN groups \union {defs[i].name : i \in DOMAIN defs} |->
     Lookup(groups, name, <<>>) \o
       FlattenSeq([i \in DOMAIN defs |->
                     IF defs[i].name = name THEN defs[i].services ELSE <<>>])]

\* A TXT record of the discovery domain merges its definitions.
AddTXT(rr) ==
  /\ rr.type = "TXT" /\ Accept(rr)
  /\ IF rr.owner = DiscoveryDomain
       THEN /\ \A i \in DOMAIN rr.txt : ParsesAsGroup(rr.txt[i])
            /\ groups' = AddDefinitions(rr.txt)
       ELSE UNCHANGED groups
  /\ UNCHANGED <<phase, services, slices, arrays>>

\* The first text that cannot be parsed ends the Ingest with an error.
RejectTXT(rr) ==
  /\ rr.type = "TXT" /\ Accept(rr)
  /\ rr.owner = DiscoveryDomain
  /\ \E i \in DOMAIN rr.txt :
       /\ ~ParsesAsGroup(rr.txt[i])
       /\ \A k \in 1 .. i - 1 : ParsesAsGroup(rr.txt[k])
       /\ groups' = AddDefinitions(SubSeq(rr.txt, 1, i - 1))
  /\ phase' = "failed"
  /\ UNCHANGED <<services, slices, arrays>>

\* servicesCollector.add
AddSRV(rr) ==
  /\ rr.type = "SRV" /\ Accept(rr)
  /\ services' = Put(services, rr.owner,
                     Append(Lookup(services, rr.owner, <<>>), rr.target))
  /\ UNCHANGED <<phase, groups, slices, arrays>>

\* Mutant: the address is appended without growing the slice.
AddInPlace(rr) ==
  /\ rr.type \in AddressTypes /\ Accept(rr)
  /\ LET key == <<rr.owner, rr.type>>
         s == Lookup(slices, key, [array |-> key, len |-> 0])
     IN /\ slices' = Put(slices, key, [s EXCEPT !.len = @ + 1])
        /\ arrays' = Put(arrays, key, Lookup(arrays, key, <<rr.addr>>))
  /\ UNCHANGED <<phase, groups, services>>

\* endpointCollector.addIP4 and addIP6: Values.Add, here the owner of its array.
AddAddress(rr) ==
  /\ rr.type \in AddressTypes /\ Accept(rr)
  /\ LET key == <<rr.owner, rr.type>>
         s == Lookup(slices, key, [array |-> key, len |-> 0])
     IN /\ slices' = Put(slices, key, [s EXCEPT !.len = @ + 1])
        /\ arrays' = Put(arrays, key,
                         [Grow(Lookup(arrays, key, <<>>), s.len)
                            EXCEPT ![s.len + 1] = rr.addr])
  /\ UNCHANGED <<phase, groups, services>>

\* Any other record is ignored.
IgnoreRR(rr) ==
  /\ rr.type \notin AddressTypes \union {"TXT", "SRV"} /\ Accept(rr)
  /\ UNCHANGED <<phase, groups, services, slices, arrays>>

(***************************************************************************)
(* Build.                                                                  *)
(***************************************************************************)

\* Mutant: the target names of all services of a group, one after the other.
TargetNamesTwice(serviceNames) ==
  Sorted(FlattenSeq([i \in DOMAIN serviceNames |->
                       Lookup(services, serviceNames[i], <<>>)]))

\* servicesCollector.targetNames
TargetNames(serviceNames) ==
  DedupeSorted(FlattenSeq([i \in DOMAIN serviceNames |->
                             Lookup(services, serviceNames[i], <<>>)]))

\* The order of strings, byte by byte.
Precedes(s, t) ==
  \E n \in 0 .. Len(t) - 1 :
    /\ n <= Len(s)
    /\ SubSeq(s, 1, n) = SubSeq(t, 1, n)
    /\ n < Len(s) => s[n + 1] < t[n + 1]

SortedNames(S) ==
  SortedBy(SetToSeq(S), {pair \in S \X S : Precedes(pair[1], pair[2])})

\* groupCollector.sorted
SortedGroups == SortedNames(DOMAIN groups)

\* Build begins: every group gets its services, none its endpoints yet.
BeginBuild ==
  /\ phase = "collecting"
  /\ phase' = "building"
  /\ UNCHANGED <<count, added, repeated, groups, services, slices, arrays, gps, names>>

\* The loop over the groups comes to the next one.
NextGroup ==
  /\ phase = "building" /\ names = <<>> /\ Len(gps) < Cardinality(DOMAIN groups)
  /\ LET name == SortedGroups[Len(gps) + 1]
         serviceNames == DedupeSorted(groups[name])
     IN /\ gps' = Append(gps, [name |-> name, services |-> serviceNames, endpoints |-> <<>>])
        /\ names' = TargetNames(serviceNames)
  /\ UNCHANGED <<phase, count, added, repeated, groups, services, slices, arrays>>

Known(t) == \E type \in AddressTypes : <<t, type>> \in DOMAIN slices

\* endpointsFor skips a target without an address.
SkipTarget ==
  /\ phase = "building" /\ names # <<>>
  /\ ~Known(Head(names))
  /\ names' = Tail(names)
  /\ UNCHANGED <<phase, count, added, repeated, groups, services, slices, arrays, gps>>

\* The slices of target t, deduped where they are.
Keys(t) == {<<t, type>> : type \in AddressTypes} \intersect DOMAIN slices
Deduped(key) == Dedupe(Elements(slices[key]), Len(arrays[key]))

\* The array a slice of the Endpoint of group i is moved to, if it grows.
Moved(i, key) == <<i, key[1], key[2]>>
Fresh(i, t) == {Moved(i, key) : key \in {k \in Keys(t) : ~Deduped(k).inPlace}}

\* The slice of the Endpoint that group i gets for key.
Copied(i, key) ==
  IF key \notin DOMAIN slices THEN [array |-> key, len |-> 0]
  ELSE [array |-> IF Deduped(key).inPlace THEN key ELSE Moved(i, key),
        len |-> Len(Deduped(key).elements)]

\* The arrays after that: those of the originals with what Dedupe left there, and
\* those it moved a copy to.
ArraysAfterCopy(i, t) ==
  [id \in DOMAIN arrays \union Fresh(i, t) |->
     IF id \in Keys(t) THEN Overwrite(arrays[id], Deduped(id).left)
     ELSE IF id \in Fresh(i, t) THEN Deduped(<<id[2], id[3]>>).elements
     ELSE arrays[id]]

\* endpointsFor copies the endpoint, then dedupes and sorts the slices of the
\* copy, in arrays the original still uses.
CopyEndpoint ==
  /\ phase = "building" /\ names # <<>>
  /\ Known(Head(names))
  /\ LET t == Head(names)
         i == Len(gps)
         endpoint == [originalName |-> t, ip4 |-> Copied(i, <<t, "A">>),
                      ip6 |-> Copied(i, <<t, "AAAA">>)]
     IN /\ arrays' = ArraysAfterCopy(i, t)
        /\ gps' = [gps EXCEPT ![i].endpoints = Append(@, endpoint)]
  /\ names' = Tail(names)
  /\ UNCHANGED <<phase, count, added, repeated, groups, services, slices>>

\* Build ends with Reset and returns gps.
EndBuild ==
  /\ phase = "building" /\ names = <<>> /\ Len(gps) = Cardinality(DOMAIN groups)
  /\ phase' = "built"
  /\ groups' = <<>> /\ services' = <<>> /\ slices' = <<>>
  /\ UNCHANGED <<count, added, repeated, arrays, gps, names>>

Next ==
  \/ \E rr \in Records :
       AddTXT(rr) \/ RejectTXT(rr) \/ AddSRV(rr) \/ AddAddress(rr) \/ IgnoreRR(rr)
  \/ BeginBuild \/ NextGroup \/ SkipTarget \/ CopyEndpoint \/ EndBuild

Spec == Init /\ [][Next]_collectorVars

(***************************************************************************)
(* What Build should return, told from the set of records alone.           *)
(***************************************************************************)

Ordered(S) == Sorted(SetToSeq(S))

Definitions ==
  UNION {ToSet(rr.txt) : rr \in {r \in added : r.type = "TXT" /\ r.owner = DiscoveryDomain}}

ServicesOf(name) ==
  UNION {ToSet(def.services) : def \in {d \in Definitions : d.name = name}}

Addresses(t, type) == {rr.addr : rr \in {r \in added : r.type = type /\ r.owner = t}}

TargetsOf(name) ==
  {rr.target : rr \in {r \in added : r.type = "SRV" /\ r.owner \in ServicesOf(name)}}

Reachable(t) == \E type \in AddressTypes : Addresses(t, type) # {}

ReferenceGroup(name) ==
  [name |-> name,
   services |-> Ordered(ServicesOf(name)),
   endpoints |-> Ordered({t \in TargetsOf(name) : Reachable(t)})]

Reference ==
  LET groupNames == SortedNames({def.name : def \in Definitions})
  IN [i \in DOMAIN groupNames |-> ReferenceGroup(groupNames[i])]

\* e as its users see it, with the addresses of its slices.
Seen(e) == [e EXCEPT !.ip4 = Elements(@), !.ip6 = Elements(@)]

\* g without the addresses of its endpoints.
Named(g) ==
  [g EXCEPT !.endpoints = [i \in DOMAIN @ |-> @[i].originalName]]

BuiltEndpoints == {Seen(e) : e \in UNION {ToSet(gps[i].endpoints) : i \in DOMAIN gps}}

\* No address record of t has come twice.
Once(t, type) == \A rr \in repeated : rr.owner # t \/ rr.type # type

(***************************************************************************)
(* Properties.                                                             *)
(***************************************************************************)

\* The values the state of the collector can have; in particular no slice
\* reaches beyond its array.
TypeOK ==
  /\ phase \in {"collecting", "building", "built", "failed"}
  /\ count \in 0 .. MaxRecords
  /\ added \subseteq Records /\ repeated \subseteq added
  /\ \A key \in DOMAIN slices :
       /\ slices[key].array \in DOMAIN arrays
       /\ slices[key].len \in 1 .. Len(arrays[slices[key].array])
  /\ \A i \in DOMAIN gps : \A e \in ToSet(gps[i].endpoints) : \A s \in {e.ip4, e.ip6} :
       s.len > 0 => s.array \in DOMAIN arrays /\ s.len <= Len(arrays[s.array])

\* In whatever order the records come, and however often they are repeated,
\* Build returns the groups, services and endpoints that the set of records
\* defines, in one order, on which the rings depend.  A target without an address
\* has no endpoint, as the code skips it: "the output is 1-1 with the input names"
\* (collectors.go:182) does not hold of such targets.
NamesMeetReference ==
  phase = "built" =>
    [i \in DOMAIN gps |-> Named(gps[i])] = Reference

\* Nothing but names that follow the rules the errors state becomes a group: a
\* label without dots and capitals, which a request can name as a filter.
BuiltNamesDocumented ==
  \A name \in DOMAIN groups : DocumentedName(name)

\* Those rules are the only reason to reject a name: an Ingest only fails for
\* a definition without services or with a name against them.  It does not
\* hold, the loops that fill validCharacters leave out '9' and 'z'.
DocumentedNamesAccepted ==
  phase = "failed" =>
    \E rr \in {r \in added : r.type = "TXT"} : \E text \in ToSet(rr.txt) :
      text.services = <<>> \/ ~DocumentedName(text.name)

\* Addresses that are not repeated come out sorted, all of them and no others,
\* in every group the target belongs to, although the groups share an array.
AddressesMeetReference ==
  phase = "built" =>
    \A e \in BuiltEndpoints :
      /\ Once(e.originalName, "A") => e.ip4 = Ordered(Addresses(e.originalName, "A"))
      /\ Once(e.originalName, "AAAA") => e.ip6 = Ordered(Addresses(e.originalName, "AAAA"))

\* Values.Dedupe's comment, "Dedupe removes any duplicates from this set": it
\* does not hold, the distinct values are appended to the ones that are there,
\* and the zeroed rest of the array shows up in the next group's endpoint.
AddressesDeduped ==
  phase = "built" =>
    \A e \in BuiltEndpoints : IsInjective(e.ip4) /\ IsInjective(e.ip6)

=============================================================================
