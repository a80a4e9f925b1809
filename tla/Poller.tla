------------------------------- MODULE Poller -------------------------------
(***************************************************************************)
(* The readiness pollers of platform.cpp (epoll and kqueue) with the       *)
(* kernel's side of them, and the map event_loop keeps from native handles *)
(* to handlers.                                                            *)
(*                                                                         *)
(* A native handle is a number the kernel gives to one socket after        *)
(* another. Sockets are numbered in the order they are opened; socket[h]   *)
(* is the one behind h now. A handler is identified with the socket it was *)
(* registered for.                                                         *)
(***************************************************************************)
EXTENDS Integers

CONSTANTS
  Handles,          \* native handles
  MaxSockets,       \* bound: sockets ever opened
  ReportsHandle     \* wait() fills in event_data::handle: TRUE for kqueue, FALSE
                    \* for epoll, which reports the invalid handle instead

ASSUME PollerAssumption ==
  /\ MaxSockets \in Nat
  /\ ReportsHandle \in BOOLEAN

VARIABLES
  socket,           \* the open socket behind each handle, 0 for none
  opened,           \* number of sockets opened
  polled,           \* the handler the kernel keeps for each handle, 0 for none
  ready,            \* handles with unread data: the pollers are level-triggered
  handlers,         \* impl::handlers, 0 for no entry
  events            \* events of the last wait() not yet dispatched

pollerVars == <<socket, opened, polled, ready, handlers, events>>

Sockets == 1..MaxSockets
Event == [handle : Handles, handler : Sockets, socket : 0..MaxSockets]

PollerInit ==
  /\ socket = [h \in Handles |-> 0]
  /\ opened = 0
  /\ polled = [h \in Handles |-> 0]
  /\ ready = {}
  /\ handlers = [h \in Handles |-> 0]
  /\ events = {}

PollerTypeOK ==
  /\ socket \in [Handles -> 0..MaxSockets]
  /\ opened \in 0..MaxSockets
  /\ polled \in [Handles -> 0..MaxSockets]
  /\ ready \subseteq Handles
  /\ handlers \in [Handles -> 0..MaxSockets]
  /\ events \subseteq Event

(* A new socket takes a free handle. *)
OpenSocket(h) ==
  /\ socket[h] = 0
  /\ opened < MaxSockets
  /\ opened' = opened + 1
  /\ socket' = [socket EXCEPT ![h] = opened + 1]
  /\ UNCHANGED <<polled, ready, handlers, events>>

(* tcp_socket::close: the kernel drops the handle from the poller; the     *)
(* loop's map keeps its entry, and unregister_socket can no longer reach   *)
(* it, because the closed socket's fd() is the invalid handle.             *)
CloseSocket(h) ==
  /\ socket[h] # 0
  /\ socket' = [socket EXCEPT ![h] = 0]
  /\ polled' = [polled EXCEPT ![h] = 0]
  /\ ready' = ready \ {h}
  /\ UNCHANGED <<opened, handlers, events>>

(* register_socket: poller::add, then the map. kqueue replaces a filter    *)
(* that is there, epoll refuses to add a handle twice.                     *)
RegisterSocket(h) ==
  /\ socket[h] # 0
  /\ ReportsHandle \/ polled[h] = 0
  /\ polled' = [polled EXCEPT ![h] = socket[h]]
  /\ handlers' = [handlers EXCEPT ![h] = socket[h]]
  /\ UNCHANGED <<socket, opened, ready, events>>

(* modify_socket: the handler comes from the map. kqueue removes and adds, *)
(* epoll refuses a handle it does not have.                                *)
ModifySocket(h) ==
  /\ socket[h] # 0
  /\ handlers[h] # 0
  /\ ReportsHandle \/ polled[h] # 0
  /\ polled' = [polled EXCEPT ![h] = handlers[h]]
  /\ UNCHANGED <<socket, opened, ready, handlers, events>>

(* unregister_socket: poller::remove, then the map. kqueue never fails,    *)
(* epoll refuses a handle it does not have and the map keeps its entry.    *)
UnregisterSocket(h) ==
  /\ socket[h] # 0
  /\ ReportsHandle \/ polled[h] # 0
  /\ polled' = [polled EXCEPT ![h] = 0]
  /\ handlers' = [handlers EXCEPT ![h] = 0]
  /\ UNCHANGED <<socket, opened, ready, events>>

Reportable == {h \in ready : polled[h] # 0}

(* wait() fills the array with the ready handles. *)
Collect ==
  /\ Reportable # {}
  /\ events' = {[handle |-> h, handler |-> polled[h], socket |-> socket[h]] :
                  h \in Reportable}
  /\ UNCHANGED <<socket, opened, polled, ready, handlers>>

\* Fault: no poller reports the handle.
Lookup_NoHandle(e) == 0

(* handlers.find(events[i].handle): the handler the loop calls for an      *)
(* event, 0 for none.                                                      *)
Lookup(e) == IF ReportsHandle THEN handlers[e.handle] ELSE 0

(* The kernel has data for a socket; its owner reads all of it. *)
DataArrives(h) ==
  /\ socket[h] # 0
  /\ h \notin ready
  /\ ready' = ready \union {h}
  /\ UNCHANGED <<socket, opened, polled, handlers, events>>

Drain(h) ==
  /\ h \in ready
  /\ ready' = ready \ {h}
  /\ UNCHANGED <<socket, opened, polled, handlers, events>>
=============================================================================
