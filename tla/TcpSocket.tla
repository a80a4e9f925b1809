----------------------------- MODULE TcpSocket ------------------------------
(***************************************************************************)
(* vynx_http::tcp_socket: the state a socket object keeps next to the      *)
(* kernel's own, and the two drifting apart. One thread owns the object;   *)
(* the kernel and the peer act at any time.                                *)
(***************************************************************************)
EXTENDS Naturals

CONSTANTS
  NonBlockingConnect,  \* connect() is called in non-blocking mode
  EmptyReceive         \* receive() is called with an empty buffer

ASSUME SocketAssumption ==
  /\ NonBlockingConnect \in BOOLEAN
  /\ EmptyReceive \in BOOLEAN

VARIABLES
  state,            \* impl::state
  valid,            \* impl::fd is not the invalid descriptor
  nonBlocking,      \* impl::non_blocking
  kernel,           \* the kernel's socket: "none", "unconnected", "connecting",
                    \* "connected", "refused" or "reset"
  shut,             \* the directions that are shut down
  eof,              \* the peer has closed its side
  pending,          \* there are bytes to receive
  full,             \* the send buffer is full
  rejected          \* the last send() or receive() returned invalid_state

object == <<state, valid, nonBlocking>>
outside == <<kernel, shut, eof, pending, full>>
socketVars == <<object, outside, rejected>>

SocketInit ==
  /\ state = "disconnected"
  /\ valid = FALSE
  /\ nonBlocking = FALSE
  /\ kernel = "none"
  /\ shut = {}
  /\ eof = FALSE
  /\ pending = FALSE
  /\ full = FALSE
  /\ rejected = FALSE

-----------------------------------------------------------------------------
\* A new object in place of one without descriptor.

Fresh(s, k) ==
  /\ ~valid
  /\ state' = s
  /\ valid' = TRUE
  /\ nonBlocking' = FALSE
  /\ kernel' = k
  /\ shut' = {}
  /\ eof' = FALSE
  /\ pending' = FALSE
  /\ full' = FALSE
  /\ rejected' = FALSE

Create == Fresh("disconnected", "unconnected")

(* from_fd() takes any descriptor for a connected one: neither its code    *)
(* nor its declaration asks for that. Assumed here is that of an accepted  *)
(* connection.                                                             *)
FromFd == Fresh("connected", "connected")

-----------------------------------------------------------------------------
\* connect().

(* In blocking mode, or at once: the connection is there.                  *)
Connect ==
  /\ state = "disconnected"
  /\ kernel = "unconnected"
  /\ ~nonBlocking \/ NonBlockingConnect
  /\ state' = "connected"
  /\ kernel' = "connected"
  /\ UNCHANGED <<valid, nonBlocking, shut, eof, pending, full, rejected>>

(* Refused, no descriptor, or a connection is already there (EISCONN).     *)
ConnectFails ==
  /\ state = "disconnected"
  /\ kernel # "connecting"
  /\ state' = "error"
  /\ UNCHANGED <<valid, nonBlocking, outside, rejected>>

\* Fault: the connection is taken for established.
ConnectInProgress_Connected ==
  /\ state = "disconnected"
  /\ kernel = "unconnected"
  /\ nonBlocking
  /\ NonBlockingConnect
  /\ state' = "connected"
  /\ kernel' = "connecting"
  /\ UNCHANGED <<valid, nonBlocking, shut, eof, pending, full, rejected>>

(* EINPROGRESS: success for the caller. *)
ConnectInProgress ==
  /\ state = "disconnected"
  /\ kernel = "unconnected"
  /\ nonBlocking
  /\ NonBlockingConnect
  /\ state' = "connecting"
  /\ kernel' = "connecting"
  /\ UNCHANGED <<valid, nonBlocking, shut, eof, pending, full, rejected>>

(* A signal ends a blocking connect (no SA_RESTART): an error for the      *)
(* caller, while the kernel goes on with it.                               *)
ConnectInterrupted ==
  /\ state = "disconnected"
  /\ kernel = "unconnected"
  /\ ~nonBlocking
  /\ state' = "error"
  /\ kernel' = "connecting"
  /\ UNCHANGED <<valid, nonBlocking, shut, eof, pending, full, rejected>>

-----------------------------------------------------------------------------
\* send() and receive().

Rejected ==
  /\ valid
  /\ state # "connected"
  /\ rejected' = TRUE
  /\ UNCHANGED <<object, outside>>

(* Some bytes are sent, or none because the buffer is full, or it fails:   *)
(* the state stays. A process that does not ignore SIGPIPE may end here,   *)
(* which is left out.                                                      *)
Send ==
  /\ state = "connected"
  /\ nonBlocking \/ ~full \/ "send" \in shut \/ kernel = "reset"
  /\ full' \in (IF full THEN {TRUE} ELSE BOOLEAN)
  /\ rejected' = FALSE
  /\ UNCHANGED <<object, kernel, shut, eof, pending>>

AtEnd == ~pending /\ (eof \/ "receive" \in shut \/ kernel = "reset")

Receive ==
  /\ state = "connected"
  /\ pending
  /\ pending' \in BOOLEAN
  /\ rejected' = FALSE
  /\ UNCHANGED <<object, kernel, shut, eof, full>>

\* recv returned 0: the connection has ended, or the buffer was empty.
ReceiveEnd ==
  /\ state = "connected"
  /\ AtEnd \/ EmptyReceive
  /\ state' = "disconnected"
  /\ rejected' = FALSE
  /\ UNCHANGED <<valid, nonBlocking, outside>>

\* Fault: no data yet is taken for the end.
ReceiveNothing_Disconnects ==
  /\ state = "connected"
  /\ nonBlocking
  /\ ~pending
  /\ ~AtEnd
  /\ state' = "disconnected"
  /\ rejected' = FALSE
  /\ UNCHANGED <<valid, nonBlocking, outside>>

(* EAGAIN: no bytes, and no error. *)
ReceiveNothing ==
  /\ state = "connected"
  /\ nonBlocking
  /\ ~pending
  /\ ~AtEnd
  /\ rejected' = FALSE
  /\ UNCHANGED <<object, outside>>

\* ECONNRESET: an error, and the state stays.
ReceiveFails ==
  /\ state = "connected"
  /\ kernel = "reset"
  /\ rejected' = FALSE
  /\ UNCHANGED <<object, outside>>

-----------------------------------------------------------------------------
\* The other operations.

SetNonBlocking(b) ==
  /\ valid
  /\ nonBlocking' = b
  /\ UNCHANGED <<state, valid, outside, rejected>>

\* The state does not tell of it; ENOTCONN is no error.
Shutdown(D) ==
  /\ valid
  /\ shut' = IF kernel = "connected" THEN shut \union D ELSE shut
  /\ UNCHANGED <<object, kernel, eof, pending, full, rejected>>

\* With the descriptor goes what the kernel kept for it.
Gone ==
  /\ kernel' = "none"
  /\ shut' = {}
  /\ eof' = FALSE
  /\ pending' = FALSE
  /\ full' = FALSE

(* close(), also at the end of the object's life.                          *)
Close ==
  /\ valid
  /\ valid' = FALSE
  /\ state' = "disconnected"
  /\ Gone
  /\ UNCHANGED <<nonBlocking, rejected>>

(* ::close fails: the descriptor is kept, whether the kernel still has it  *)
(* or not.                                                                 *)
CloseFails ==
  /\ valid
  /\ state' = "error"
  /\ Gone \/ UNCHANGED outside
  /\ UNCHANGED <<valid, nonBlocking, rejected>>

-----------------------------------------------------------------------------
\* The kernel and the peer.

KernelConnects ==
  /\ kernel = "connecting"
  /\ kernel' \in {"connected", "refused"}
  /\ UNCHANGED <<object, shut, eof, pending, full, rejected>>

PeerCloses ==
  /\ kernel = "connected"
  /\ eof' = TRUE
  /\ UNCHANGED <<object, kernel, shut, pending, full, rejected>>

PeerResets ==
  /\ kernel = "connected"
  /\ kernel' = "reset"
  /\ pending' = FALSE
  /\ UNCHANGED <<object, shut, eof, full, rejected>>

PeerSends ==
  /\ kernel = "connected"
  /\ ~eof
  /\ pending' = TRUE
  /\ UNCHANGED <<object, kernel, shut, eof, full, rejected>>

PeerReads ==
  /\ kernel = "connected"
  /\ full' = FALSE
  /\ UNCHANGED <<object, kernel, shut, eof, pending, rejected>>

SocketNext ==
  \/ Create \/ FromFd
  \/ Connect \/ ConnectFails \/ ConnectInProgress \/ ConnectInterrupted
  \/ Rejected \/ Send \/ Receive \/ ReceiveEnd \/ ReceiveNothing \/ ReceiveFails
  \/ \E b \in BOOLEAN : SetNonBlocking(b)
  \/ \E D \in SUBSET {"send", "receive"} : Shutdown(D)
  \/ Close \/ CloseFails
  \/ KernelConnects \/ PeerCloses \/ PeerResets \/ PeerSends \/ PeerReads

SocketSpec == SocketInit /\ [][SocketNext]_socketVars

-----------------------------------------------------------------------------
\* Properties.

(* The object says connected only of a descriptor with a connection that   *)
(* was established, also across failed connects, a peer that closes and an *)
(* object used again; that the peer has reset it the object cannot know.   *)
ConnectedIsReal ==
  state = "connected" => valid /\ kernel \in {"connected", "reset"}

(* Once connect() or from_fd() has reported a connection, send() and       *)
(* receive() do not reject it while it is neither closed nor shut down nor *)
(* at its end, whatever would have blocked or failed on the way. Nor must  *)
(* anybody receive into an empty buffer: see EmptyReceive.                 *)
EstablishedIsUsable ==
  [][(kernel = "connected" /\ ~eof /\ shut = {} /\ state \notin {"error", "connecting"}
        /\ ~rejected)
       => ~rejected']_socketVars

-----------------------------------------------------------------------------
\* What the documentation says and the code does not keep.

(* send() and receive() do not reject a socket that is connected, neither  *)
(* closed nor at the end of its stream.                                    *)
ConnectedIsUsable ==
  [][(kernel = "connected" /\ ~eof /\ shut = {} /\ state # "error" /\ ~rejected)
       => ~rejected']_socketVars
=============================================================================
