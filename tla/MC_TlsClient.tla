---------------------------- MODULE MC_TlsClient ----------------------------
(***************************************************************************)
(* An instance of TlsClient for TLC, with the origins of MC_HttpClient.    *)
(***************************************************************************)
EXTENDS TlsClient, MC_HttpClient

\* Both schemes on one port, and two hosts with https.
MCTlsOrigins ==
  {Origin("http", "a", 8443), Origin("https", "a", 8443), Origin("https", "b", 443)}

\* Redirects lead to the second host, or stay on the first.
MCTlsLocations == {Origin("https", "b", 443), Path, None}
=============================================================================
