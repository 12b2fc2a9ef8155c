------------------------------ MODULE MCProgram ------------------------------
(***************************************************************************)
(* Instances of Program for TLC: the usual and the unusual configurations  *)
(* and command lines, and for one configuration all percentages and TTLs.  *)
(***************************************************************************)
EXTENDS Program

CONSTANTS u, t, g1, g2, g3, home

EnvOfTest(glob) == IF glob = home THEN g1 ELSE glob

Server(network) == [network |-> network, reusePort |-> FALSE]

File(exact, ttl, jitter, udp, tcp, interval) ==
  [exists |-> TRUE, yaml |-> TRUE, exact |-> exact, level |-> "INFO",
   dns |-> [zone |-> [ttl |-> ttl, jitter |-> jitter], udp |-> udp, tcp |-> tcp],
   groups |-> [zoneFiles |-> <<home>>, checkInterval |-> interval, defaultTTL |-> ttl]]

UDP == u :> Server("")
TCP == t :> Server("tcp4")
Embedded == File(TRUE, 40, 1, UDP, TCP, 0)
Usual == File(TRUE, 40, 0, UDP, TCP, 3)

Configurations == {
  Missing, Unreadable, Usual,
  File(FALSE, 40, 0, UDP, TCP, 3),
  File(TRUE, 40, 0, UDP, u :> Server("tcp"), 3),
  File(TRUE, 40, 0, u :> Server("tcp"), TCP, 3),
  File(TRUE, 40, 0, UDP, t :> Server("udp6"), 3),
  File(TRUE, 40, 0, <<>>, TCP, -1),
  File(TRUE, 40, 0, u :> Server("udp6") @@ t :> Server("udp"), <<>>, -1)}

CommandLine(named, file, globs, interval, debug) ==
  [named |-> named, confFile |-> file, zoneFiles |-> globs,
   checkInterval |-> interval, debug |-> debug]

\* Durations below and above every half of a second, some too long for a TTL.
Durations == {q \in -1 .. 4 * Limit + 12 : q <= 8 \/ q % 4 \in {1, 2}}

\* A file that is named, while the search would find the usual one or none; one
\* that is searched for; and every zone.
AllInputs ==
  {[cl |-> CommandLine(TRUE, file, <<g2, g3>>, interval, "unset"), searched |-> searched] :
     file \in Configurations, searched \in {Missing, Usual}, interval \in {-1, 2}}
  \union
  {[cl |-> CommandLine(FALSE, Missing, <<>>, 0, "DEBUG"), searched |-> file] : file \in Configurations}
  \union
  {[cl |-> CommandLine(FALSE, Missing, <<>>, 0, "INFO"),
    searched |-> File(TRUE, ttl, jitter, <<>>, TCP, 0)] : ttl \in Durations, jitter \in -1 .. 9}

=============================================================================
