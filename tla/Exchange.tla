------------------------------ MODULE Exchange ------------------------------
(***************************************************************************)
(* vynx_http::http_client::do_execute as HttpClient leaves it out: the     *)
(* header fields of a request from hop to hop, the cookies between one     *)
(* response and the next request, and the parser that receive_response     *)
(* feeds. Connections, and what they do to an exchange, are HttpClient's.  *)
(*                                                                         *)
(* A header field has its name, the cookies in it if it has any, and, for  *)
(* the properties, the hop and the host it was made for.                   *)
(***************************************************************************)
EXTENDS HttpParser, CookieJar

CONSTANTS
  UserFields,       \* the names of the fields that a user's request has
  MaxHops,          \* config_.max_redirects
  NoRequest

ASSUME ExchangeAssumption ==
  /\ \A s \in UserFields : s \in Seq(STRING)
  /\ MaxHops \in Nat

VARIABLES
  phase,            \* "idle", "prepare", "receive" or "respond"
  req,              \* the request
  first             \* no request was executed yet

vars == <<parserVars, jarVars, phase, req, first>>

NewField(n, c, r) == [name |-> n, cookies |-> c, hop |-> r.hop, home |-> r.host]

Init ==
  /\ ParserInit
  /\ JarInit
  /\ phase = "idle"
  /\ req = NoRequest
  /\ first = TRUE

-----------------------------------------------------------------------------
\* The header fields.

Contains(fields, n) == \E i \in DOMAIN fields : fields[i].name = n

(* http_headers::set: the first field of that name is replaced. *)
SetField(fields, f) ==
  LET same == {i \in DOMAIN fields : fields[i].name = f.name}
  IN  IF same = {} THEN Append(fields, f)
      ELSE [fields EXCEPT ![CHOOSE i \in same : \A k \in same : i <= k] = f]

Default(fields, n, r) ==
  IF Contains(fields, n) THEN fields ELSE SetField(fields, NewField(n, <<>>, r))

(* apply_defaults: Accept stands for Connection and User-Agent as well; a  *)
(* Cookie field of the user is replaced, not extended.                     *)
Defaults(r) ==
  LET host    == Default(r.fields, "Host", r)
      length  == IF r.withBody THEN Default(host, "Content-Length", r) ELSE host
      accept  == Default(length, "Accept", r)
      cookies == CookiesFor(r.host, r.uri)
  IN  IF cookies = <<>> THEN accept ELSE SetField(accept, NewField("Cookie", cookies, r))

(* What is not copied to the next request, and what not to another host.   *)
Reapplied == {"Host", "Content-Length", "Cookie"}
Credentials == {"Authorization", "Proxy-Authorization"}

\* Fault: the cookies are copied as well.
Redirected_CopiesCookies(h, u) ==
  [host |-> h, uri |-> u, withBody |-> FALSE, hop |-> req.hop + 1,
   fields |-> Selected(req.fields, {i \in DOMAIN req.fields :
                /\ req.fields[i].name \notin Reapplied \ {"Cookie"}
                /\ h # req.host => req.fields[i].name \notin Credentials})]

\* The fields that are copied.
Carried(fields, h) ==
  Selected(fields, {i \in DOMAIN fields :
    /\ fields[i].name \notin Reapplied
    /\ h # req.host => fields[i].name \notin Credentials})

(* The request to the target of a redirect: its body is dropped. *)
Redirected(h, u) ==
  [host |-> h, uri |-> u, withBody |-> FALSE, hop |-> req.hop + 1,
   fields |-> Carried(req.fields, h)]

-----------------------------------------------------------------------------
\* do_execute().

Requested(h, u, b, names) ==
  LET r == [host |-> h, uri |-> u, withBody |-> b, hop |-> 0, fields |-> <<>>]
  IN  [r EXCEPT !.fields = [i \in DOMAIN names |-> NewField(names[i], <<>>, r)]]

Execute(h, u, b, names) ==
  /\ phase = "idle"
  /\ ~feeding
  /\ req' = Requested(h, u, b, names)
  /\ phase' = "prepare"
  /\ UNCHANGED <<parserVars, jarVars, first>>

\* receive_response() has a parser of its own.
NewParser == Cleared /\ moved' = FALSE /\ feeding' = FALSE /\ hung' = FALSE

\* No parser is in use: its variables are those of some new one.
NoParser == response' = (CHOOSE r \in Responses : TRUE) /\ NewParser

(* The request is sent as it is now, and a new parser waits for the answer.*)
Send ==
  /\ phase = "prepare"
  /\ req' = [req EXCEPT !.fields = Defaults(req)]
  /\ phase' = "receive"
  /\ IF first THEN NewParser ELSE NoParser
  /\ UNCHANGED <<jarVars, first>>

(* receive_response() feeds it what arrives.                               *)
Receive ==
  /\ phase = "receive"
  /\ first
  /\ state \notin {"complete", "error"}
  /\ (\E n \in 1..Len(response.wire) : Feed(n)) \/ Step
  /\ UNCHANGED <<jarVars, phase, req, first>>

(* Bound: the answers to all requests but the first come in one piece.     *)
Received ==
  /\ phase = "receive"
  /\ ~feeding
  /\ first => state = "complete"
  /\ phase' = "respond"
  /\ first' = FALSE
  /\ NoParser
  /\ UNCHANGED <<jarVars, req>>

(* The connection fails or ends, or the parser does not go on.             *)
ReceiveFails ==
  /\ phase = "receive"
  /\ ~feeding
  /\ phase' = "idle"
  /\ req' = NoRequest
  /\ first' = FALSE
  /\ NoParser
  /\ UNCHANGED jarVars

(* A Set-Cookie field is stored before the redirect is looked at. Bound: a *)
(* response has one, or none.                                              *)
Cookies == UNCHANGED jarVars \/ \E l \in Lines : StoreLine(l, req.host)

Redirect(h, u) ==
  /\ phase = "respond"
  /\ req.hop < MaxHops
  /\ Cookies
  /\ req' = Redirected(h, u)
  /\ phase' = "prepare"
  /\ UNCHANGED <<parserVars, first>>

Respond ==
  /\ phase = "respond"
  /\ Cookies
  /\ req' = NoRequest
  /\ phase' = "idle"
  /\ UNCHANGED <<parserVars, first>>

-----------------------------------------------------------------------------
\* The user, between two requests.

UseJar ==
  /\ phase = "idle"
  /\ ~first
  /\ ClearJar \/ \E l \in Lines, h \in Hosts \union {<<>>} : StoreLine(l, h)
  /\ UNCHANGED <<parserVars, phase, req, first>>

(* Bound: a parser of the user's own is followed before the first request. *)
UseParser ==
  /\ phase = "idle"
  /\ first
  /\ ParserNext
  /\ UNCHANGED <<jarVars, phase, req, first>>

Next ==
  \/ \E h \in Hosts, u \in Uris, b \in BOOLEAN, s \in UserFields : Execute(h, u, b, s)
  \/ Send \/ Receive \/ Received \/ ReceiveFails
  \/ \E h \in Hosts, u \in Uris : Redirect(h, u)
  \/ Respond
  \/ UseJar \/ UseParser

Spec == Init /\ [][Next]_vars

-----------------------------------------------------------------------------
\* Properties.

Sent == phase = "receive"
SentFields == {req.fields[i] : i \in DOMAIN req.fields}

(* A request goes out with a Host, a length and cookies of its own, not    *)
(* with those of the request it was redirected from, and with the user's   *)
(* credentials only on the host that has them already.                     *)
FieldsBelong ==
  Sent => \A f \in SentFields :
    /\ f.name \in Reapplied => f.hop = req.hop
    /\ f.name \in Credentials => f.home = req.host

\* The rule of cookie_jar: a domain is for its host and for all below it, a
\* path for itself and for what is under it, the query being part of what is
\* asked for. Whether a domain was given or is that of the host which set the
\* cookie makes no difference, and an empty one is for all hosts.
InDomain(h, d) ==
  d \in {h, <<>>} \/ \E n \in 1..Len(h) : h[n] = "." /\ SubSeq(h, n + 1, Len(h)) = d
UnderPath(u, p) ==
  \E n \in 0..Len(u) :
    /\ p = SubSeq(u, 1, n)
    /\ n = Len(u) \/ "/" \in {u[n + 1], p[n]}

(* The cookies of a request are those that were set last for a name in     *)
(* each domain and path it is in by the rule of cookie_jar, each once, and *)
(* no others, whichever responses and redirects have set, replaced and     *)
(* carried them. HostOnlyStaysHome below is what the rule does not ask for.*)
CookiesAreTheLatest ==
  Sent =>
    LET due == {k \in DOMAIN latest : InDomain(req.host, k[2]) /\ UnderPath(req.uri, k[3])}
        attached == {f.cookies : f \in {g \in SentFields : g.name = "Cookie" /\ g.cookies # <<>>}}
    IN  IF due = {} THEN attached = {}
        ELSE \E s \in attached :
               /\ attached = {s}
               /\ {<<Key(s[i]), s[i].value>> : i \in DOMAIN s} = {<<k, latest[k]>> : k \in due}
               /\ \A i, j \in DOMAIN s : Key(s[i]) = Key(s[j]) => i = j

-----------------------------------------------------------------------------
\* What the code does not keep.

(* A cookie whose domain no Set-Cookie line has given goes to the host     *)
(* that set it only (RFC 6265, 5.3 and 5.4): cookie_jar takes the host for *)
(* the domain, and does not remember that it did.                          *)
HostOnlyStaysHome ==
  Sent => \A f \in SentFields : f.name = "Cookie" =>
    \A i \in DOMAIN f.cookies :
      \/ f.cookies[i].domain \in {req.host} \union {WithoutDot(l.domain) : l \in Lines}
      \/ f.cookies[i].domain = <<>>
=============================================================================
