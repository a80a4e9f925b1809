----------------------------- MODULE HttpClient -----------------------------
(***************************************************************************)
(* vynx_http::http_client: executing a request over the keep-alive pool,   *)
(* with redirects, against servers that answer, close connections or stay  *)
(* silent. do_execute() is cut into steps where it blocks: in connect, the *)
(* TLS handshake, send, every recv, and in the redirect callback, which    *)
(* may execute another request first.                                      *)
(*                                                                         *)
(* An origin is what a pool key is made of: scheme, host and port. What a  *)
(* server sends is a sequence of pieces: all of a response, the start of   *)
(* one the parser does not take for complete, the line end behind the last *)
(* chunk, or the end of the stream.                                        *)
(***************************************************************************)
EXTENDS Integers, Sequences

CONSTANTS
  Origins,          \* [scheme, host, port]
  Locations,        \* what Location says: an origin (an absolute URL), Path, ...
  Path, Other,      \* ... a path, another form that is not followed, ...
  Bad,              \* ... an absolute URL that does not parse, ...
  None,             \* ... or nothing; None stands for no value everywhere
  Methods,          \* of the requests; "HEAD" has answers without a body
  Framings,         \* of the answers: "length", "empty" for a length of 0,
                    \* "chunked" or "eof"
  MaxRedirects,     \* config_.max_redirects
  FollowRedirects,  \* config_.follow_redirects
  HasCallback,      \* redirect_cb_ is set
  MaxNested         \* bound: requests a redirect callback is inside of

Ports == 1..65535

ASSUME ClientAssumption ==
  /\ \A o \in Origins : o.scheme \in {"http", "https"} /\ o.port \in Ports
  /\ MaxRedirects \in Nat
  /\ MaxNested \in Nat
  /\ FollowRedirects \in BOOLEAN
  /\ HasCallback \in BOOLEAN
  /\ Locations \subseteq Origins \union {Path, Other, Bad, None}
  /\ {Path, Other, Bad, None} \intersect Origins = {}
  /\ Bad # None /\ Path # None /\ Bad # Path

VARIABLES
  pool,             \* connections_: key -> connection or None
  conn,             \* the connection being established, or None
  req,              \* the request being executed, or None
  phase,            \* where do_execute() is
  using,            \* entry_ptr, as the key of the entry
  parser,           \* "empty", "partial" or "complete"
  answer,           \* the response received, or None
  target,           \* target_url of a redirect, Bad if it does not parse
  suspended,        \* requests that wait in a redirect callback
  outcome           \* of the last execution: "response", "failed", "excused"

inner == <<conn, using, parser, answer, target>>
vars == <<pool, req, phase, suspended, outcome, inner>>

\* What a server puts on the wire, for the request being executed or not.
Pieces ==
  [piece : {"whole", "part", "tail", "eof"}, redirect : BOOLEAN,
   location : Locations \union {None}, close : BOOLEAN, own : BOOLEAN]

(* A connection. "open" until the server closed it; "announced" when it    *)
(* said Connection: close; "owed" are the requests it has yet to answer.   *)
NewConnection(o) ==
  [host |-> o.host, port |-> o.port, tls |-> FALSE, state |-> "connected",
   idle |-> FALSE, open |-> TRUE, announced |-> FALSE, owed |-> <<>>, wire |-> <<>>]

Init ==
  /\ pool = [o \in Origins |-> None]
  /\ conn = None
  /\ req = None
  /\ phase = "idle"
  /\ using = None
  /\ parser = "empty"
  /\ answer = None
  /\ target = None
  /\ suspended = <<>>
  /\ outcome = "response"

-----------------------------------------------------------------------------
\* The end of an execution; a callback it was called from goes on.

Finish(result) ==
  /\ outcome' = result
  /\ answer' = None
  /\ conn' = None
  /\ using' = None
  /\ parser' = "empty"
  /\ IF suspended = <<>>
       THEN req' = None /\ phase' = "idle" /\ target' = None /\ UNCHANGED suspended
       ELSE /\ req' = Head(suspended).req
            /\ target' = Head(suspended).target
            /\ phase' = "callback"
            /\ suspended' = Tail(suspended)

(* execute(), or the payload execute_async() posted, when the loop runs    *)
(* it: a request without a scheme is http, https on port 443.              *)
NewRequest(o, m, a) ==
  [origin |-> o, method |-> m, auth |-> a, home |-> o.host,
   budget |-> MaxRedirects, hops |-> 0]

Execute(o, m, a) ==
  /\ phase = "idle"
  /\ req' = NewRequest(o, m, a)
  /\ phase' = "prepare"
  /\ UNCHANGED <<pool, suspended, outcome, inner>>

(* The redirect callback executes a request of its own.                    *)
CallbackExecutes(o, m, a) ==
  /\ phase = "callback"
  /\ Len(suspended) < MaxNested
  /\ suspended' = <<[req |-> req, target |-> target]>> \o suspended
  /\ req' = NewRequest(o, m, a)
  /\ target' = None
  /\ phase' = "prepare"
  /\ UNCHANGED <<pool, conn, using, parser, answer, outcome>>

-----------------------------------------------------------------------------
\* do_execute(): a connection from the pool, or a new one.

(* cleanup_idle() *)
Cleaned == [k \in Origins |-> IF pool[k] # None /\ pool[k].idle THEN None ELSE pool[k]]

\* Fault: the key has no scheme.
PoolKey_NoScheme(o) ==
  IF \E p \in Origins : p.scheme = "http" /\ p.host = o.host /\ p.port = o.port
    THEN CHOOSE p \in Origins : p.scheme = "http" /\ p.host = o.host /\ p.port = o.port
    ELSE o

PoolKey(o) == o

Usable(c) == c # None /\ c.state = "connected"

ReuseConnection ==
  /\ phase = "prepare"
  /\ Usable(Cleaned[PoolKey(req.origin)])
  /\ pool' = Cleaned
  /\ using' = PoolKey(req.origin)
  /\ phase' = "send"
  /\ UNCHANGED <<conn, req, parser, answer, target, suspended, outcome>>

\* A stale entry is removed first.
OpenConnection ==
  /\ phase = "prepare"
  /\ ~Usable(Cleaned[PoolKey(req.origin)])
  /\ pool' = [Cleaned EXCEPT ![PoolKey(req.origin)] = None]
  /\ phase' = "connect"
  /\ UNCHANGED <<conn, req, using, parser, answer, target, suspended, outcome>>

\* connections_.emplace(): an entry that is there stays.
Emplace(c) ==
  /\ pool' = IF pool[PoolKey(req.origin)] = None
               THEN [pool EXCEPT ![PoolKey(req.origin)] = c] ELSE pool
  /\ using' = PoolKey(req.origin)
  /\ conn' = None
  /\ phase' = "send"

Connected ==
  /\ phase = "connect"
  /\ IF req.origin.scheme = "https"
       THEN /\ conn' = NewConnection(req.origin)
            /\ phase' = "handshake"
            /\ UNCHANGED <<pool, using>>
       ELSE Emplace(NewConnection(req.origin))
  /\ UNCHANGED <<req, parser, answer, target, suspended, outcome>>

HandshakeDone ==
  /\ phase = "handshake"
  /\ Emplace([conn EXCEPT !.tls = TRUE])
  /\ UNCHANGED <<req, parser, answer, target, suspended, outcome>>

\* The socket, the connection or the handshake fails.
ConnectFails ==
  /\ phase \in {"connect", "handshake"}
  /\ Finish("excused")
  /\ UNCHANGED pool

-----------------------------------------------------------------------------
\* send_and_receive().

Entry == pool[using]

(* The request has been written; whatever the connection still owed or     *)
(* carried belongs to earlier requests. A server that has closed the       *)
(* connection does not see it.                                             *)
Earlier(s) == [i \in 1..Len(s) |-> [s[i] EXCEPT !.own = FALSE]]

SendRequest ==
  /\ phase = "send"
  /\ pool' = [pool EXCEPT ![using] =
       [Entry EXCEPT !.wire = Earlier(@),
                     !.owed = Append(Earlier(@), [own |-> TRUE, method |-> req.method])]]
  /\ parser' = "empty"
  /\ phase' = "receive"
  /\ UNCHANGED <<conn, req, using, answer, target, suspended, outcome>>

\* n pieces are received.
Take(n) == pool' = [pool EXCEPT ![using].wire = SubSeq(@, n + 1, Len(@))]

\* Fault: a failed connection stays in the pool.
Fail_KeepsEntry(result) ==
  /\ Finish(result)
  /\ IF phase = "receive" /\ Head(Entry.wire).piece # "eof" THEN Take(1) ELSE UNCHANGED pool

(* connections_.erase(pool_key) and the error to the caller.               *)
Fail(result) ==
  /\ Finish(result)
  /\ pool' = [pool EXCEPT ![using] = None]

(* A failure is excused when the server closed the connection on a request *)
(* it had not answered.                                                    *)
Verdict == IF Entry.owed # <<>> /\ ~Entry.announced THEN "excused" ELSE "failed"

SendFails ==
  /\ phase = "send"
  /\ ~Entry.open
  /\ Fail(IF Entry.announced THEN "failed" ELSE "excused")

(* One recv and the parser: the line end behind the last chunk is consumed *)
(* when it comes with the rest of the response.                            *)
ReceiveWhole ==
  /\ phase = "receive"
  /\ Entry.wire # <<>>
  /\ Head(Entry.wire).piece = "whole"
  /\ parser' = "complete"
  /\ answer' = Head(Entry.wire)
  /\ \/ Take(1)
     \/ Len(Entry.wire) > 1 /\ Entry.wire[2].piece = "tail" /\ Take(2)
  /\ phase' = "respond"
  /\ UNCHANGED <<conn, req, using, target, suspended, outcome>>

ReceivePart ==
  /\ phase = "receive"
  /\ Entry.wire # <<>>
  /\ Head(Entry.wire).piece = "part"
  /\ parser' = "partial"
  /\ Take(1)
  /\ UNCHANGED <<conn, req, phase, using, answer, target, suspended, outcome>>

\* A line end is no status line.
ReceiveTail ==
  /\ phase = "receive"
  /\ Entry.wire # <<>>
  /\ Head(Entry.wire).piece = "tail"
  /\ Fail("failed")

\* Fault: that recv() returns 0 is taken for no data yet.
ReceiveEof_Waits ==
  /\ phase = "receive"
  /\ Entry.wire # <<>>
  /\ Head(Entry.wire).piece = "eof"
  /\ UNCHANGED vars

\* The connection was closed before the response was complete.
ReceiveEof ==
  /\ phase = "receive"
  /\ Entry.wire # <<>>
  /\ Head(Entry.wire).piece = "eof"
  /\ Fail(Verdict)

-----------------------------------------------------------------------------
\* do_execute(), with a response.

\* last_active is set.
Active == [pool EXCEPT ![using].idle = FALSE]

FollowsRedirect == answer.redirect /\ FollowRedirects /\ req.budget > 0

DefaultPort(scheme) == IF scheme = "https" THEN 443 ELSE 80

(* A path is taken relative to scheme and host; the port is written if it  *)
(* is neither 80 nor 443, and parse_url() fills in that of the scheme.     *)
RelativeTo(o) ==
  [o EXCEPT !.port = IF o.port \in {80, 443} THEN DefaultPort(o.scheme) ELSE o.port]

(* The origins are those of all URLs there are.                            *)
ASSUME OriginsAssumption == \A o \in Origins : RelativeTo(o) \in Origins

TargetOf(o, l) == CASE l = Path -> RelativeTo(o) [] OTHER -> l

(* A redirect with a Location that is followed; the callback is called.    *)
Redirect ==
  /\ phase = "respond"
  /\ FollowsRedirect
  /\ answer.location \notin {None, Other}
  /\ pool' = Active
  /\ target' = TargetOf(req.origin, answer.location)
  /\ phase' = IF HasCallback THEN "callback" ELSE "follow"
  /\ using' = None
  /\ parser' = "empty"
  /\ answer' = None
  /\ UNCHANGED <<conn, req, suspended, outcome>>

CallbackReturns ==
  /\ phase = "callback"
  /\ phase' = "follow"
  /\ UNCHANGED <<pool, req, suspended, outcome, inner>>

(* A redirect without a Location, or with one of unknown form, is returned *)
(* as it is.                                                               *)
RedirectIsReturned ==
  /\ phase = "respond"
  /\ FollowsRedirect
  /\ answer.location \in {None, Other}
  /\ pool' = Active
  /\ Finish("response")

(* A final response; the connection goes if the server closes it.          *)
Respond ==
  /\ phase = "respond"
  /\ ~FollowsRedirect
  /\ pool' = IF answer.close THEN [pool EXCEPT ![using] = None] ELSE Active
  /\ Finish("response")

BadTarget ==
  /\ phase = "follow"
  /\ target = Bad
  /\ Finish("excused")
  /\ UNCHANGED pool

\* History: redirects followed, counted to one beyond the maximum.
OneMore(n) == IF n <= MaxRedirects THEN n + 1 ELSE n

\* Fault: the Authorization header goes everywhere.
Redirected_KeepsAuth(m) ==
  [req EXCEPT !.origin = target, !.method = m, !.budget = @ - 1, !.hops = OneMore(@)]

\* Fault: the budget is not decremented.
Redirected_KeepsBudget(m) ==
  [req EXCEPT !.origin = target, !.method = m, !.hops = OneMore(@),
              !.auth = @ /\ target.host = req.origin.host]

(* The redirected request: without the credentials for another host.       *)
Redirected(m) ==
  [req EXCEPT !.origin = target, !.method = m, !.budget = @ - 1, !.hops = OneMore(@),
              !.auth = @ /\ target.host = req.origin.host]

\* 307 and 308 keep the method, the others turn it into GET.
Follow ==
  /\ phase = "follow"
  /\ target # Bad
  /\ \E m \in {req.method, "GET"} : req' = Redirected(m)
  /\ phase' = "prepare"
  /\ target' = None
  /\ UNCHANGED <<pool, conn, using, parser, answer, suspended, outcome>>

-----------------------------------------------------------------------------
\* The servers and the time.

Eof == [piece |-> "eof", redirect |-> FALSE, location |-> None, close |-> TRUE,
        own |-> FALSE]

\* The answer r to the request q, as pieces. The parser does not know of the
\* method: without a body, it goes on waiting for the one the header announces.
PiecesOf(r, q) ==
  LET bytes(p) == [Eof EXCEPT !.piece = p, !.own = q.own]
      whole == [piece |-> "whole", redirect |-> r.redirect, location |-> r.location,
                close |-> r.close, own |-> q.own]
  IN IF r.framing = "eof" \/ (q.method = "HEAD" /\ r.framing # "empty")
       THEN <<bytes("part")>>
     ELSE IF r.framing = "chunked" THEN <<whole, bytes("tail")>>
     ELSE <<whole>>

(* A server answers the oldest request it owes an answer, and closes the   *)
(* connection if it says so, which it does if that is what ends the body.  *)
Answers ==
  {r \in [redirect : BOOLEAN, location : Locations, close : BOOLEAN, framing : Framings] :
     /\ r.framing = "eof" => r.close
     /\ ~r.redirect => r.location = None}

Answer(k) ==
  /\ pool[k] # None
  /\ pool[k].open
  /\ pool[k].owed # <<>>
  /\ \E r \in Answers :
       pool' = [pool EXCEPT ![k] =
         [pool[k] EXCEPT !.owed = Tail(@),
                         !.wire = @ \o PiecesOf(r, Head(pool[k].owed))
                                    \o (IF r.close THEN <<Eof>> ELSE <<>>),
                         !.announced = r.close,
                         !.open = ~r.close]]
  /\ UNCHANGED <<req, phase, suspended, outcome, inner>>

ServerCloses(k) ==
  /\ pool[k] # None
  /\ pool[k].open
  /\ pool' = [pool EXCEPT ![k] = [pool[k] EXCEPT !.open = FALSE, !.wire = Append(@, Eof)]]
  /\ UNCHANGED <<req, phase, suspended, outcome, inner>>

\* No exchange on the connection for longer than idle_timeout.
BecomesIdle(k) ==
  /\ pool[k] # None
  /\ ~pool[k].idle
  /\ pool' = [pool EXCEPT ![k].idle = TRUE]
  /\ UNCHANGED <<req, phase, suspended, outcome, inner>>

-----------------------------------------------------------------------------

\* From a connection on, or up to the decision to open one.
ExchangeStep ==
  \/ ReuseConnection \/ OpenConnection
  \/ SendRequest \/ SendFails
  \/ ReceiveWhole \/ ReceivePart \/ ReceiveTail \/ ReceiveEof
  \/ Redirect \/ CallbackReturns \/ RedirectIsReturned \/ Respond
  \/ BadTarget \/ Follow

ClientStep == ExchangeStep \/ Connected \/ HandshakeDone \/ ConnectFails

UserStep ==
  \E o \in Origins, m \in Methods, a \in BOOLEAN :
    Execute(o, m, a) \/ CallbackExecutes(o, m, a)

ServerStep(k) == Answer(k) \/ ServerCloses(k)

Next ==
  \/ ClientStep
  \/ UserStep
  \/ \E k \in Origins : ServerStep(k) \/ BecomesIdle(k)

Spec == Init /\ [][Next]_vars

(* The thread in execute() goes on unless it blocks ...                    *)
ClientSpec == Spec /\ WF_vars(ClientStep)

(* ... the servers answer a request or close the connection in the end,    *)
(* and a callback does not execute requests for ever.                      *)
FairSpec ==
  /\ ClientSpec
  /\ \A k \in Origins : WF_vars(ServerStep(k))
  /\ \A n \in 0..MaxNested : SF_vars(Len(suspended) = n /\ CallbackReturns)

-----------------------------------------------------------------------------
\* Properties.

Connections ==
  [host : {o.host : o \in Origins}, port : Ports, tls : BOOLEAN,
   state : {"connected"}, idle : BOOLEAN, open : BOOLEAN, announced : BOOLEAN,
   owed : Seq([own : BOOLEAN, method : Methods \union {"GET"}]), wire : Seq(Pieces)]

Requests ==
  [origin : Origins, method : Methods \union {"GET"}, auth : BOOLEAN,
   home : {o.host : o \in Origins}, budget : 0..MaxRedirects, hops : Nat]

ASSUME NoneAssumption == None \notin Connections \union Requests \union Pieces

(* The variables of the client have their types, and it works on the entry *)
(* of a request exactly while it exchanges messages over it.               *)
TypeOK ==
  /\ pool \in [Origins -> Connections \union {None}]
  /\ conn \in Connections \union {None}
  /\ req \in Requests \union {None}
  /\ phase \in {"idle", "prepare", "connect", "handshake", "send", "receive",
                "respond", "callback", "follow"}
  /\ parser \in {"empty", "partial", "complete"}
  /\ answer \in Pieces \union {None}
  /\ target \in Origins \union {Bad, None}
  /\ suspended \in Seq([req : Requests, target : Origins \union {Bad}])
  /\ outcome \in {"response", "failed", "excused"}
  /\ (req = None) = (phase = "idle")
  /\ (using # None) = (phase \in {"send", "receive", "respond"})
  /\ using # None => using \in Origins /\ pool[using] # None

(* A request only ever goes out on a connection to its own host and port,  *)
(* and on a TLS session after its handshake if and only if it is https.    *)
SentToOrigin ==
  phase \in {"send", "receive"} =>
    /\ Entry.host = req.origin.host
    /\ Entry.port = req.origin.port
    /\ Entry.tls = (req.origin.scheme = "https")

(* The response that execute() goes on with answers the request it has     *)
(* sent, never an earlier one on the same connection.                      *)
OwnAnswer == answer # None => answer.own

(* One call of execute() follows at most max_redirects redirects.          *)
RedirectsBounded == req # None => req.hops <= MaxRedirects

(* Authorization only goes to the host that the user sent it to, however   *)
(* many redirects lead away from it: the host, not the scheme and the port *)
(* (CredentialsStayInOrigin).                                              *)
CredentialsStayHome ==
  (phase = "send" /\ req.auth) => Entry.host = req.home

(* Every call of execute() returns.                                        *)
ExecuteReturns == phase # "idle" ~> phase = "idle"

-----------------------------------------------------------------------------
\* What the documentation says and the code does not keep.

(* "If server said Connection: close, remove from pool." (http_client.cpp) *)
(* No request is sent on such a connection.                                *)
CloseIsHonoured == phase = "send" => ~Entry.announced

(* "Relative redirect - same host:port with same scheme" (http_client.cpp) *)
RelativeStaysHome ==
  [][(phase = "respond" /\ target' # None /\ answer.location = Path)
       => target' = req.origin]_vars

(* "Skip auth headers on cross-origin redirects." (http_client.cpp) Only    *)
(* the host makes a difference, not the scheme and not the port.           *)
CredentialsStayInOrigin ==
  [][(phase = "follow" /\ phase' = "prepare" /\ req'.auth)
       => req'.origin = req.origin]_vars

(* A request to a server that accepts, answers and does not close the      *)
(* connection without saying so is executed without an error.              *)
AnsweredIsReturned == outcome # "failed"
=============================================================================
