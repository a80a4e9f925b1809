----------------------------- MODULE CookieJar ------------------------------
(***************************************************************************)
(* vynx_http::cookie_jar: the cookies that responses set and requests      *)
(* carry. Hosts and paths are sequences of characters, because they match  *)
(* by their ends. What a Set-Cookie line says of Secure and Expires is     *)
(* stored and never read again, and left out.                              *)
(***************************************************************************)
EXTENDS Naturals, Sequences, Selection

CONSTANTS
  Hosts,            \* the hosts of the requests
  Uris,             \* http_request::uri
  Lines,            \* what Set-Cookie lines say: name, value, domain and path,
                    \* the last two <<>> where the line has no such directive
  MaxCookies        \* bound: cookies in the jar before one is set

ASSUME JarAssumption ==
  /\ \A h \in Hosts : h \in Seq(STRING)
  /\ \A u \in Uris : u \in Seq(STRING)
  /\ \A l \in Lines : l.domain \in Seq(STRING) /\ l.path \in Seq(STRING)
  /\ MaxCookies \in Nat

VARIABLES
  jar,              \* cookies_, a sequence of entries
  latest            \* history: the value set last for a name, domain and path

jarVars == <<jar, latest>>

JarInit == jar = <<>> /\ latest = <<>>

-----------------------------------------------------------------------------
\* set_cookie().

WithoutDot(d) == IF d # <<>> /\ Head(d) = "." THEN Tail(d) ELSE d

(* The entry of a line that came from the host h. *)
EntryOf(l, h) ==
  [name   |-> l.name,
   value  |-> l.value,
   domain |-> IF WithoutDot(l.domain) = <<>> THEN h ELSE WithoutDot(l.domain),
   path   |-> IF l.path = <<>> THEN <<"/">> ELSE l.path]

Key(c) == <<c.name, c.domain, c.path>>

\* Fault: a cookie is put behind the one it replaces.
Stored_Appends(j, c) == Append(j, c)

(* The first entry with its key is replaced. *)
Stored(j, c) ==
  LET same == {i \in DOMAIN j : Key(j[i]) = Key(c)}
  IN  IF same = {} THEN Append(j, c)
      ELSE [j EXCEPT ![CHOOSE i \in same : \A k \in same : i <= k] = c]

StoreLine(l, h) ==
  LET c == EntryOf(l, h)
  IN  /\ Len(jar) <= MaxCookies
      /\ jar' = Stored(jar, c)
      /\ latest' = [k \in DOMAIN latest \union {Key(c)} |->
                      IF k = Key(c) THEN c.value ELSE latest[k]]

ClearJar == jar' = <<>> /\ latest' = <<>>

-----------------------------------------------------------------------------
\* build_cookie_header().

\* The last n elements.
Ending(s, n) == SubSeq(s, Len(s) - n + 1, Len(s))

(* The domain is that of the host, or what follows one of its dots. *)
DomainMatches(d, h) ==
  \/ d = <<>>
  \/ d = h
  \/ /\ Len(h) > Len(d)
     /\ Ending(h, Len(d)) = d
     /\ h[Len(h) - Len(d)] = "."

(* The path is that of the request up to a slash; the request's has its    *)
(* query, so that a "?" behind the path of the cookie is no match.         *)
PathMatches(p, u) ==
  /\ Len(u) >= Len(p)
  /\ SubSeq(u, 1, Len(p)) = p
  /\ \/ Len(u) = Len(p)
     \/ p[Len(p)] = "/"
     \/ u[Len(p) + 1] = "/"

CookiesFor(h, u) ==
  Selected(jar, {i \in DOMAIN jar : /\ DomainMatches(jar[i].domain, h)
                                   /\ PathMatches(jar[i].path, u)})
=============================================================================
