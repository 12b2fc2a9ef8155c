------------------------------ MODULE MCLocator ------------------------------
(***************************************************************************)
(* Instances of Locator for TLC: Updates that add, drop and refill groups. *)
(***************************************************************************)
EXTENDS Locator

CONSTANTS g1, g2, e1, e2, e3

\* Two groups; one of them, refilled.
Before == <<[name |-> g1, members |-> {e1, e2}], [name |-> g2, members |-> {e3}]>>
After == <<[name |-> g2, members |-> {e2, e3}]>>
TwoGroupsValues == {Before, After}

\* All groups; a named group twice; a group that comes and goes, then another.
MCObjects == {"o"}
Everywhere == [object |-> "o", groups |-> <<>>]
Twice == [object |-> "o", groups |-> <<g2, g2>>]
Both == [object |-> "o", groups |-> <<g1, g2>>]
AllFinds == {Everywhere, Twice, Both}

\* Some endpoint of the ring, or a nil *Endpoint from an empty ring.
NearestChoice(ring, object) == IF ring = {} THEN "nil" ELSE CHOOSE e \in ring : TRUE

=============================================================================
