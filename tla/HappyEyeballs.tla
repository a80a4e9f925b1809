--------------------------- MODULE HappyEyeballs ----------------------------
(***************************************************************************)
(* vynx_http::happy_eyeballs::connect() in one of the threads: it resolves *)
(* the name with the resolver that the other threads use and makes one     *)
(* attempt for each of its addresses, each with a socket of its own, though*)
(* not at that address. Neither the delays nor the timeouts nor the        *)
(* families of its configuration are used by the code.                     *)
(***************************************************************************)
EXTENDS DnsResolver, TcpSocket

CONSTANTS
  Caller,           \* the thread that connects
  PreferIPv6,       \* happy_eyeballs_config::prefer_ipv6
  Targets           \* bound: the hosts that it connects to

ASSUME CallerAssumption ==
  /\ Caller \in Threads
  /\ PreferIPv6 \in BOOLEAN
  /\ Targets \subseteq Hosts

VARIABLES
  phase,            \* where connect() is
  order,            \* the addresses, in the order they are to be tried in
  next,             \* the index of the one that is tried
  outcome           \* what connect() returned last

connectVars == <<phase, order, next, outcome>>
vars == <<resolverVars, socketVars, connectVars>>

Init ==
  /\ ResolverInit
  /\ SocketInit
  /\ phase = "idle"
  /\ order = <<>>
  /\ next = 1
  /\ outcome = "none"

-----------------------------------------------------------------------------
\* connect() and connect_async(), which calls it.

(* The name is resolved first; the socket of an earlier call is closed.    *)
StartConnect(h) ==
  /\ phase = "idle"
  /\ ~valid
  /\ Hit(Caller, h) \/ Miss(Caller, h)
  /\ phase' = "resolve"
  /\ outcome' = "none"
  /\ UNCHANGED <<socketVars, order, next>>

Return(o) ==
  /\ phase' = "return"
  /\ outcome' = o

Unresolved ==
  /\ phase = "resolve"
  /\ pc[Caller] = "idle"
  /\ ~answer[Caller].ok
  /\ Return("dns_resolution_failed")
  /\ UNCHANGED <<resolverVars, socketVars, order, next>>

\* Fault: the order ends with the shorter of the two families.
Interleaved_Shorter(first, second) ==
  LET n == IF Len(first) < Len(second) THEN Len(first) ELSE Len(second)
  IN  [i \in 1 .. 2 * n |-> IF i % 2 = 1 THEN first[(i + 1) \div 2] ELSE second[i \div 2]]

(* One address of each family in turn, then what is left of the longer.    *)
Interleaved(first, second) ==
  LET n == IF Len(first) < Len(second) THEN Len(first) ELSE Len(second)
      inTurn == [i \in 1 .. 2 * n |->
                   IF i % 2 = 1 THEN first[(i + 1) \div 2] ELSE second[i \div 2]]
  IN  inTurn \o SubSeq(first, n + 1, Len(first)) \o SubSeq(second, n + 1, Len(second))

(* The families are told apart and interleaved, the preferred one first.   *)
Resolved ==
  LET found == answer[Caller].addresses
      ipv4  == Selected(found, {i \in DOMAIN found : IsV4(found[i])})
      other == Selected(found, {i \in DOMAIN found : ~IsV4(found[i])})
  IN
  /\ phase = "resolve"
  /\ pc[Caller] = "idle"
  /\ answer[Caller].ok
  /\ order' = IF PreferIPv6 THEN Interleaved(other, ipv4) ELSE Interleaved(ipv4, other)
  /\ next' = 1
  /\ phase' = "next"
  /\ UNCHANGED <<resolverVars, socketVars, outcome>>

(* The loop of connect_with_addresses. *)
Open ==
  /\ phase = "next"
  /\ next <= Len(order)
  /\ Create
  /\ phase' = "opened"
  /\ UNCHANGED <<resolverVars, order, next, outcome>>

CannotOpen ==
  /\ phase = "next"
  /\ next <= Len(order)
  /\ next' = next + 1
  /\ UNCHANGED <<resolverVars, socketVars, phase, order, outcome>>

\* resolve_address: the first IPv4 address, or the first at all.
ResolveAddress(h) ==
  LET ipv4 == Selected(Zone[h], {i \in DOMAIN Zone[h] : IsV4(Zone[h][i])})
  IN  IF ipv4 # <<>> THEN Head(ipv4) ELSE Head(Zone[h])

(* tcp_socket::connect takes the name and not the address, and resolves it *)
(* again; its socket is an IPv4 one.                                       *)
Succeed ==
  /\ phase = "opened"
  /\ IsV4(ResolveAddress(host[Caller]))
  /\ Connect
  /\ Return("ok")
  /\ UNCHANGED <<resolverVars, order, next>>

\* Refused, of the wrong family, or the name is not resolved this time.
Fail ==
  /\ phase = "opened"
  /\ \/ ConnectFails
     \/ ConnectInterrupted /\ IsV4(ResolveAddress(host[Caller]))
     \/ UNCHANGED socketVars
  /\ phase' = "failed"
  /\ UNCHANGED <<resolverVars, order, next, outcome>>

\* Fault: the socket of an attempt that failed is left open.
Discard_LeavesOpen ==
  /\ phase = "failed"
  /\ state' = "disconnected"
  /\ valid' = FALSE
  /\ next' = next + 1
  /\ phase' = "next"
  /\ UNCHANGED <<resolverVars, nonBlocking, outside, rejected, order, outcome>>

(* The socket of the attempt goes out of scope. *)
Discard ==
  /\ phase = "failed"
  /\ Close
  /\ next' = next + 1
  /\ phase' = "next"
  /\ UNCHANGED <<resolverVars, order, outcome>>

Exhausted ==
  /\ phase = "next"
  /\ next > Len(order)
  /\ Return("connection_refused")
  /\ UNCHANGED <<resolverVars, socketVars, order, next>>

(* The caller, or its callback, has the socket, or one without descriptor. *)
Deliver ==
  /\ phase = "return"
  /\ phase' = "idle"
  /\ order' = <<>>
  /\ next' = 1
  /\ UNCHANGED <<resolverVars, socketVars, outcome>>

Connecting ==
  \/ \E h \in Targets : StartConnect(h)
  \/ Unresolved
  \/ Resolved
  \/ Open \/ CannotOpen
  \/ Succeed \/ Fail \/ Discard \/ Exhausted
  \/ Deliver

-----------------------------------------------------------------------------

(* The resolver goes on for the thread that connects, and the others use   *)
(* it as they like.                                                        *)
ResolverStep ==
  /\ \/ \E t \in Threads \ {Caller}, h \in Hosts : Hit(t, h) \/ Miss(t, h)
     \/ \E t \in Threads : Resolving(t)
     \/ ClearCache
     \/ Reconfigured
     \/ Tick
  /\ UNCHANGED <<socketVars, connectVars>>

(* Bound: the owner of the object does with it what it likes before the    *)
(* first call of the resolver; a socket from connect() it only closes.     *)
SocketStep ==
  /\ \/ calls = 0 /\ SocketNext
     \/ phase = "idle" /\ Close
     \/ KernelConnects \/ PeerResets
  /\ UNCHANGED <<resolverVars, connectVars>>

Next == Connecting \/ ResolverStep \/ SocketStep

Spec == Init /\ [][Next]_vars

-----------------------------------------------------------------------------
\* Properties.

(* What connect() returns: a socket with a connection, or an error and     *)
(* nothing left behind, whatever attempts were refused, interrupted and    *)
(* discarded before; nor does one attempt leave anything to the next.      *)
ResultIsClean ==
  /\ phase = "return" /\ outcome = "ok" =>
       valid /\ state = "connected" /\ kernel \in {"connected", "reset"}
  /\ phase = "next" \/ (phase = "return" /\ outcome # "ok") => ~valid /\ kernel = "none"

\* The addresses from the i-th to the j-th are of one family.
OneFamily(i, j) == \A k \in i .. j : IsV4(order[k]) = IsV4(order[i])

(* The order that connect() computes ("Interleave addresses per RFC 8305") *)
(* has every address that was resolved once, begins with the preferred     *)
(* family if there is any of it, and lets no family wait for a second      *)
(* address of the other. It is not what is tried: see TriesInOrder.        *)
OrderIsFair ==
  phase \in {"next", "opened", "failed"} =>
    LET found == answer[Caller].addresses
    IN  /\ Len(order) = Len(found)
        /\ AddressesOf(order) = AddressesOf(found)
        /\ (\E a \in AddressesOf(found) : IsV4(a) # PreferIPv6) => IsV4(order[1]) # PreferIPv6
        /\ \A i \in 1 .. Len(order) - 1 :
             IsV4(order[i]) = IsV4(order[i + 1]) => OneFamily(i, Len(order))

-----------------------------------------------------------------------------
\* What a comment says and the code does not keep.

(* "Try each address in order" (connect_with_addresses): every attempt is  *)
(* made at the address that resolve_address chooses, the order is ignored  *)
(* ("TODO: connect to specific address directly").                         *)
TriesInOrder == phase = "opened" => order[next] = ResolveAddress(host[Caller])
=============================================================================
