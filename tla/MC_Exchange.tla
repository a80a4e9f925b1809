---------------------------- MODULE MC_Exchange -----------------------------
(***************************************************************************)
(* An instance of Exchange for TLC, with the responses of MC_HttpParser.   *)
(***************************************************************************)
EXTENDS Exchange, MC_HttpParser

\* One of them is in the domain of another, one only ends like it.
MCHosts == {<<"b">>, <<"a", ".", "b">>, <<"a", "b">>}

\* A path, what is under it, and what only begins like it.
MCUris == {<<"/", "x">>, <<"/", "x", "/", "y">>, <<"/", "x", "y">>}

SetCookie(v, d, p) == [name |-> "n", value |-> v, domain |-> d, path |-> p]

MCLines ==
  {SetCookie("1", <<>>, <<>>), SetCookie("2", <<>>, <<>>),
   SetCookie("1", <<".", "b">>, <<>>), SetCookie("2", <<"b">>, <<"/", "x">>)}

MCUserFields ==
  {<<>>, <<"Authorization", "Cookie">>, <<"Host", "Content-Length", "Cookie">>}
=============================================================================
