------------------------------ MODULE MCHandler ------------------------------
(***************************************************************************)
(* Instances of Handler for TLC: two Groups, the second of which lacks a   *)
(* group and has one without endpoints.                                    *)
(***************************************************************************)
EXTENDS Handler

\* The names of groups are labels.
G1 == <<"g", "1">>
G2 == <<"g2">>

Endpoint(name, ip4, ip6) == [originalName |-> name, ip4 |-> ip4, ip6 |-> ip6]
Group(name, services, endpoints) ==
  [name |-> name, services |-> services, endpoints |-> endpoints]

Before ==
  <<Group(G1, <<"s1">>, <<Endpoint("t1", <<1, 2>>, <<>>), Endpoint("t2", <<3>>, <<4>>)>>),
    Group(G2, <<"s1", "s2">>, <<Endpoint("t1", <<1>>, <<5>>)>>)>>
After == <<Group(G2, <<"s2">>, <<>>)>>
BeforeAndAfter == {Before, After}

\* The first endpoint for one object, the last for the others.
NearestChoice(endpoints, object) ==
  IF endpoints = <<>> THEN NilEndpoint
  ELSE endpoints[IF object = "first" THEN 1 ELSE Len(endpoints)]

Message(domain, labels, type) ==
  [questions |-> 1, class |-> "INET", domain |-> domain, labels |-> labels, type |-> type]

Device1 == <<"first">>
\* With a prefix and ignored text.
Device2 == <<"mac", "last", "nonce">>

AllMessages ==
  {Message("endpoint", <<Device1>>, "A"), Message("endpoint", <<Device2, G1>>, "A"),
   Message("endpoint", <<Device2, G2, G1>>, "AAAA"),
   Message("group", <<>>, "TXT"), Message("group", <<G1>>, "TXT"),
   Message("group", <<G2>>, "A"), Message("elsewhere", <<Device1>>, "A"),
   [Message("endpoint", <<Device1>>, "A") EXCEPT !.questions = 0]}

=============================================================================
