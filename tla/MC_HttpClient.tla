--------------------------- MODULE MC_HttpClient ---------------------------
(***************************************************************************)
(* Instances of HttpClient for TLC.                                        *)
(***************************************************************************)
EXTENDS HttpClient

Origin(s, h, p) == [scheme |-> s, host |-> h, port |-> p]

\* Two hosts, one with each scheme.
MCTwoOrigins == {Origin("http", "a", 80), Origin("https", "b", 443)}

\* To the second host, to no URL, and none.
MCLocations == {Origin("https", "b", 443), Bad, None}
=============================================================================
