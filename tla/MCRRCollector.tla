---------------------------- MODULE MCRRCollector ----------------------------
(***************************************************************************)
(* Instances of RRCollector for TLC.  Groups a-1 and a1 share service 2;   *)
(* both services have target 2; target 3 has no address.                   *)
(***************************************************************************)
EXTENDS RRCollector

Definition(name, serviceNames) == [name |-> name, services |-> serviceNames]

\* Names, byte by byte: those of groups, and three against the rules.
A == <<97>>
AHyphen1 == <<97, 45, 49>>
A1 == <<97, 49>>
Z9 == <<122, 57>>
InnerDot == <<97, 46, 49>>
LeadingDigit == <<49, 97>>
TrailingHyphen == <<97, 45>>

TXT(owner, txt) == [type |-> "TXT", owner |-> owner, txt |-> txt]
SRV(service, target) == [type |-> "SRV", owner |-> service, target |-> target]
Address(type, target, addr) == [type |-> type, owner |-> target, addr |-> addr]

Both == TXT(DiscoveryDomain, <<Definition(A1, <<2, 2>>), Definition(AHyphen1, <<2, 1>>)>>)
More == TXT(DiscoveryDomain, <<Definition(AHyphen1, <<1>>)>>)
\* Not of the discovery domain.
Elsewhere == TXT(8, <<Definition(A, <<1>>)>>)
\* A definition, then one that is rejected: without services, or its name.
BadTexts ==
  {TXT(DiscoveryDomain, <<Definition(A, <<1>>), text>>) :
     text \in {Definition(A, <<>>), Definition(<<>>, <<>>)} \union
             {Definition(name, <<1>>) : name \in {InnerDot, LeadingDigit, TrailingHyphen}}}

\* Everything that can be added.
AllRecords ==
  BadTexts \union
  {Both, More, Elsewhere, [type |-> "CNAME"],
   SRV(1, 2), SRV(2, 2), SRV(2, 1), SRV(1, 3),
   Address("A", 2, 2), Address("A", 2, 1), Address("A", 1, 1), Address("AAAA", 2, 3)}

\* One group, with the last letter and the last digit in its name.
ZonedRecords == BadTexts \union {Both, TXT(DiscoveryDomain, <<Definition(Z9, <<1>>)>>)}

\* One target of two groups with addresses that are repeated.
AddressRecords ==
  {Both, SRV(2, 2), Address("A", 2, 1), Address("A", 2, 2), Address("A", 2, 3)}

=============================================================================
