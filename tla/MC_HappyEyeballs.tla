-------------------------- MODULE MC_HappyEyeballs --------------------------
(***************************************************************************)
(* Instances of HappyEyeballs, and of the resolver and the socket it is    *)
(* made of, for TLC.                                                       *)
(***************************************************************************)
EXTENDS HappyEyeballs

CONSTANTS h1, h2, h3, t1, t2

V4(n) == [family |-> "v4", bytes |-> n, scope |-> 0]
V6(n, s) == [family |-> "v6", bytes |-> n, scope |-> s]

(* A host with both families, of which IPv4 may be left alone, one that    *)
(* has only a link-local address of IPv6, and one that has only IPv4.      *)
MCHosts == {h1, h2, h3}
MCZone ==
  [h \in MCHosts |-> CASE h = h1 -> <<V6(1, 0), V4(1)>>
                       [] h = h2 -> <<V6(3, 1)>>
                       [] h = h3 -> <<V4(2)>>]
=============================================================================
