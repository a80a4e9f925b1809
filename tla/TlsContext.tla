----------------------------- MODULE TlsContext -----------------------------
(***************************************************************************)
(* vynx_http::ssl_ctx_wrapper and tls_context: who owns which OpenSSL      *)
(* object. A wrapper owns a reference to an SSL_CTX, a session owns its    *)
(* SSL, and an SSL has a reference to its SSL_CTX, which is freed with its *)
(* last reference. The wrapper is tls_ctx_ of an http_client, which makes  *)
(* it when it is first needed.                                             *)
(*                                                                         *)
(* OpenSSL is external: its functions are taken to do what they are called *)
(* for, or to fail. Objects are numbered, and 0 is the null pointer.       *)
(***************************************************************************)
EXTENDS Naturals, FiniteSets

VARIABLES
  wrapper,          \* tls_ctx_: a context
  contexts,         \* the SSL_CTX objects there are -> references to them
  sessions          \* the SSL objects there are -> context, host, handshake

tlsVars == <<wrapper, contexts, sessions>>

TlsInit == wrapper = 0 /\ contexts = <<>> /\ sessions = <<>>

-----------------------------------------------------------------------------
\* OpenSSL. What is allocated next; SSL_new, SSL_CTX_free and SSL_free on the
\* references r.

NextOf(f) == CHOOSE n \in 1..Cardinality(DOMAIN f) + 1 : n \notin DOMAIN f

Referenced(r, c) == [r EXCEPT ![c] = @ + 1]

Dereferenced(r, c) ==
  [d \in {e \in DOMAIN r : e # c \/ r[e] > 1} |-> IF d = c THEN r[d] - 1 ELSE r[d]]

(* The references once the sessions S are freed, whatever their contexts.  *)
Without(r, S) ==
  LET freed(c) == Cardinality({s \in S : sessions[s].context = c})
  IN  [c \in {d \in DOMAIN r : r[d] > freed(d)} |-> r[c] - freed(c)]

-----------------------------------------------------------------------------
\* ssl_ctx_wrapper::create() and http_client::ensure_tls_context().

NewContext == NextOf(contexts)
WithNewContext == [c \in DOMAIN contexts \union {NewContext} |->
                     IF c = NewContext THEN 1 ELSE contexts[c]]

EnsuredWrapper == IF wrapper # 0 THEN wrapper ELSE NewContext
EnsuredContexts == IF wrapper # 0 THEN contexts ELSE WithNewContext

\* Fault: the context whose certificates do not load is not freed.
EnsureFails_Leaks ==
  /\ wrapper = 0
  /\ contexts' \in {contexts, WithNewContext}
  /\ UNCHANGED <<wrapper, sessions>>

(* SSL_CTX_new fails, or the certificates to trust do not load.            *)
EnsureFails ==
  /\ wrapper = 0
  /\ contexts' \in {contexts, Dereferenced(WithNewContext, NewContext)}
  /\ UNCHANGED <<wrapper, sessions>>

-----------------------------------------------------------------------------
\* tls_context::create(), handshake() and the destructors.

NewSession == NextOf(sessions)

Create(h) ==
  /\ wrapper' = EnsuredWrapper
  /\ contexts' = Referenced(EnsuredContexts, EnsuredWrapper)
  /\ sessions' = [s \in DOMAIN sessions \union {NewSession} |->
                    IF s = NewSession
                      THEN [context |-> EnsuredWrapper, host |-> h, done |-> FALSE]
                      ELSE sessions[s]]

(* SSL_new fails, or SSL_set_fd does and the SSL is freed; the context     *)
(* stays for the next request.                                             *)
CreateFails ==
  /\ wrapper' = EnsuredWrapper
  /\ contexts' \in {EnsuredContexts,
       Dereferenced(Referenced(EnsuredContexts, EnsuredWrapper), EnsuredWrapper)}
  /\ UNCHANGED sessions

\* ~tls_context() of the sessions S.
Discarded(S) == [s \in DOMAIN sessions \ S |-> sessions[s]]

FreeSessions(S) ==
  /\ sessions' = Discarded(S)
  /\ contexts' = Without(contexts, S)
  /\ UNCHANGED wrapper

(* SSL_connect has verified the certificate for the host of s, and s goes  *)
(* on; the sessions S are not needed.                                      *)
Handshake(s, S) ==
  /\ sessions' = [Discarded(S) EXCEPT ![s].done = TRUE]
  /\ contexts' = Without(contexts, S)
  /\ UNCHANGED wrapper

\* ~ssl_ctx_wrapper()
FreeWrapper ==
  /\ wrapper' = 0
  /\ contexts' = IF wrapper = 0 THEN contexts ELSE Dereferenced(contexts, wrapper)
  /\ UNCHANGED sessions

-----------------------------------------------------------------------------
\* Properties.

(* An SSL_CTX is there as long as the wrapper or a session needs it and no *)
(* longer: whichever call failed, and whichever of them goes first.        *)
ContextsAreCounted ==
  LET holders(c) == Cardinality({s \in DOMAIN sessions : sessions[s].context = c})
                      + (IF wrapper = c THEN 1 ELSE 0)
  IN  /\ {sessions[s].context : s \in DOMAIN sessions} \union ({wrapper} \ {0})
           = DOMAIN contexts
      /\ \A c \in DOMAIN contexts : contexts[c] = holders(c)
=============================================================================
