----------------------------- MODULE TlsClient ------------------------------
(***************************************************************************)
(* The TLS sessions of an http_client: HttpClient and TlsContext together. *)
(* Entries of the pool own their sessions, so that what removes an entry   *)
(* frees its session; a session is made for a connection that is not in    *)
(* the pool yet. The destructor of the client closes the sockets, and then *)
(* its members go in reverse order: the context before the entries.        *)
(***************************************************************************)
EXTENDS HttpClient, TlsContext

VARIABLES
  tls,              \* entry.tls: key -> session
  newTls,           \* new_entry.tls
  ending            \* ~http_client() has freed the context

ownerVars == <<tls, newTls, ending>>
clientTlsVars == <<vars, tlsVars, ownerVars>>

TlsClientInit ==
  /\ Init
  /\ TlsInit
  /\ tls = [k \in Origins |-> 0]
  /\ newTls = 0
  /\ ending = FALSE

-----------------------------------------------------------------------------
\* do_execute(), up to a connection.

ConnectedPlain ==
  /\ Connected
  /\ req.origin.scheme = "http"
  /\ UNCHANGED <<tlsVars, ownerVars>>

ConnectedTls ==
  /\ Connected
  /\ req.origin.scheme = "https"
  /\ Create(req.origin.host)
  /\ newTls' = NewSession
  /\ UNCHANGED <<tls, ending>>

(* The entry is emplaced with its session, unless there is one already.    *)
HandshakeDoneTls ==
  LET k == PoolKey(req.origin)
  IN  /\ HandshakeDone
      /\ Handshake(newTls, IF pool[k] = None THEN {} ELSE {newTls})
      /\ tls' = IF pool[k] = None THEN [tls EXCEPT ![k] = newTls] ELSE tls
      /\ newTls' = 0
      /\ UNCHANGED ending

(* The socket does not connect, or its session is not made.                *)
ConnectFailsTls ==
  /\ ConnectFails
  /\ phase = "connect"
  /\ \/ UNCHANGED tlsVars
     \/ req.origin.scheme = "https" /\ (EnsureFails \/ CreateFails)
  /\ UNCHANGED ownerVars

HandshakeFailsTls ==
  /\ ConnectFails
  /\ phase = "handshake"
  /\ FreeSessions({newTls})
  /\ newTls' = 0
  /\ UNCHANGED <<tls, ending>>

-----------------------------------------------------------------------------
\* Everything else removes entries of the pool, or none.

Removed == {k \in Origins : tls[k] # 0 /\ pool'[k] = None}

FreeRemoved ==
  /\ FreeSessions({tls[k] : k \in Removed})
  /\ tls' = [k \in Origins |-> IF k \in Removed THEN 0 ELSE tls[k]]
  /\ UNCHANGED <<newTls, ending>>

\* ~http_client(): the context first ...
EndClient ==
  /\ phase = "idle"
  /\ ending' = TRUE
  /\ FreeWrapper
  /\ UNCHANGED <<vars, tls, newTls>>

\* ... then the entries; another client starts with none.
EndEntries ==
  /\ ending
  /\ pool' = [k \in Origins |-> None]
  /\ FreeSessions({tls[k] : k \in Removed})
  /\ tls' = [k \in Origins |-> 0]
  /\ ending' = FALSE
  /\ UNCHANGED <<req, phase, suspended, outcome, inner, newTls>>

-----------------------------------------------------------------------------

TlsClientStep ==
  /\ ~ending
  /\ \/ ConnectedPlain \/ ConnectedTls
     \/ HandshakeDoneTls \/ ConnectFailsTls \/ HandshakeFailsTls
     \/ (ExchangeStep /\ FreeRemoved)

TlsServerStep(k) == ~ending /\ ServerStep(k) /\ FreeRemoved

TlsClientNext ==
  \/ TlsClientStep
  \/ ~ending /\ UserStep /\ FreeRemoved
  \/ \E k \in Origins : TlsServerStep(k) \/ (~ending /\ BecomesIdle(k) /\ FreeRemoved)
  \/ ~ending /\ EndClient
  \/ EndEntries

TlsClientSpec == TlsClientInit /\ [][TlsClientNext]_clientTlsVars

-----------------------------------------------------------------------------
\* Properties.

(* Every TLS session belongs to one connection, in the pool or on its way  *)
(* there: none is left behind by a request that failed, by an idle or a    *)
(* broken connection, or by the end of the client.                         *)
SessionsAreOwned ==
  LET used == {k \in Origins : tls[k] # 0}
  IN  /\ DOMAIN sessions = {tls[k] : k \in used} \union ({newTls} \ {0})
      /\ \A j, k \in used : tls[j] = tls[k] => j = k
      /\ newTls \notin {tls[k] : k \in used}

(* No SSL_CTX and no SSL leaks or goes too early, whichever of the client, *)
(* its connections and its requests fails or ends first.                   *)
NothingLeaks == ContextsAreCounted /\ SessionsAreOwned

(* A request is written to, and its answer read from, a connection to its  *)
(* own host and port; for an https URL, on a session that has verified the *)
(* certificate of that host, and for an http URL on none.                  *)
SecuredForItsHost ==
  /\ SentToOrigin
  /\ phase \in {"send", "receive"} =>
       IF req.origin.scheme = "https"
         THEN /\ tls[using] \in DOMAIN sessions
              /\ sessions[tls[using]].done
              /\ sessions[tls[using]].host = req.origin.host
         ELSE tls[using] = 0
=============================================================================
