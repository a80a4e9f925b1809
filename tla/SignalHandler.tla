--------------------------- MODULE SignalHandler ---------------------------
(***************************************************************************)
(* vynx_http::signal_handler on POSIX: the state objects, the one global   *)
(* pointer through which posix_handler finds one of them, and the actions  *)
(* the process has for its signals. posix_handler interrupts its thread    *)
(* between any two steps, also those of create(), of the destructor and of *)
(* itself; while it runs, only its own signal is blocked on that thread.   *)
(*                                                                         *)
(* Signals are numbered in the order of signal_type, in which they are     *)
(* installed as well. A handler is the address of the state it owns, which *)
(* moving it does not change and a later handler may get again.            *)
(***************************************************************************)
EXTENDS Integers, Sequences, FiniteSets

CONSTANTS
  Signals,          \* the signals of signal_type that are in use
  Threads,          \* threads that signals may be delivered to ...
  Main,             \* ... and the one of them that owns the handlers
  HandlerIds,       \* addresses of states: bounds the handlers at a time
  MaxSignals        \* bound: signals ever delivered

ASSUME SignalsAssumption ==
  /\ Signals \subseteq 1..4
  /\ Main \in Threads
  /\ 0 \notin HandlerIds
  /\ MaxSignals \in Nat

sigint == 1
sigterm == 2

VARIABLES
  disciplined,      \* history: while a handler was destroyed or assigned over,
                    \* signals were blocked on the threads other than Main, and
                    \* none was assigned over that the pointer designated
  signalState,      \* g_signal_state, 0 for null
  alive,            \* the handlers whose state has not been freed
  action,           \* what the process does on each signal
  received,         \* the received_ flags that are set
  lastSig,          \* last_sig, 0 for unknown
  totalCount,       \* total_count
  doing,            \* the operation Main is inside of
  frames,           \* executions of posix_handler on each thread, innermost first
  delivered,        \* history: signals delivered
  process           \* "runs", "terminated" by a signal, or "crashed"

stateVars == <<received, lastSig, totalCount>>
globalVars == <<signalState, alive, action>>
signalVars == <<disciplined, stateVars, globalVars, doing, frames, delivered, process>>

\* sigs are the signals that are left to be done.
Nothing == [op |-> "none", handler |-> 0, sigs |-> {}]

SignalsInit ==
  /\ disciplined = TRUE
  /\ signalState = 0
  /\ alive = {}
  /\ action = [s \in Signals |-> "default"]
  /\ received = [h \in HandlerIds |-> {}]
  /\ lastSig = [h \in HandlerIds |-> 0]
  /\ totalCount = [h \in HandlerIds |-> 0]
  /\ doing = Nothing
  /\ frames = [t \in Threads |-> <<>>]
  /\ delivered = 0
  /\ process = "runs"

\* Main executes its own code, not a posix_handler on top of it.
MainRuns == process = "runs" /\ frames[Main] = <<>>
MainIsFree == MainRuns /\ doing = Nothing

-----------------------------------------------------------------------------
\* create() and the destructor.

(* The state takes the first free address. The pointer is taken over       *)
(* first, from whatever handler had it.                                    *)
Create(h) ==
  /\ MainIsFree
  /\ h \notin alive
  /\ \A g \in HandlerIds \ alive : h <= g
  /\ alive' = alive \union {h}
  /\ signalState' = h
  /\ doing' = [op |-> "create", handler |-> h, sigs |-> Signals]
  /\ UNCHANGED <<disciplined, action, stateVars, frames, delivered, process>>

\* States that are freed, without contents. Frees({}) frees nothing.
Frees(H) ==
  /\ alive' = alive \ H
  /\ received' = [h \in HandlerIds |-> IF h \in H THEN {} ELSE received[h]]
  /\ lastSig' = [h \in HandlerIds |-> IF h \in H THEN 0 ELSE lastSig[h]]
  /\ totalCount' = [h \in HandlerIds |-> IF h \in H THEN 0 ELSE totalCount[h]]

\* The threads other than Main are not in posix_handler.
OthersAreOut == \A t \in Threads \ {Main} : frames[t] = <<>>

\* Fault: the state is freed before the signals are given back.
Destroy_FreesFirst(h) ==
  /\ MainIsFree
  /\ h \in alive
  /\ disciplined' = (disciplined /\ OthersAreOut)
  /\ Frees({h})
  /\ doing' = [op |-> "destroy", handler |-> h, sigs |-> Signals]
  /\ UNCHANGED <<signalState, action, frames, delivered, process>>

(* The pointer is cleared first, whichever handler it designates. *)
Destroy(h) ==
  /\ MainIsFree
  /\ h \in alive
  /\ disciplined' = (disciplined /\ OthersAreOut)
  /\ signalState' = 0
  /\ doing' = [op |-> "destroy", handler |-> h, sigs |-> Signals]
  /\ UNCHANGED <<alive, action, stateVars, frames, delivered, process>>

(* One sigaction() after the other: posix_handler, or SIG_DFL. *)
Install ==
  /\ MainRuns
  /\ doing.op \in {"create", "destroy"}
  /\ \E s \in doing.sigs :
       /\ \A r \in doing.sigs : s <= r
       /\ action' = [action EXCEPT ![s] =
                       IF doing.op = "create" THEN "handler" ELSE "default"]
       /\ doing' = [doing EXCEPT !.sigs = @ \ {s}]
  /\ UNCHANGED <<disciplined, signalState, alive, stateVars, frames,
                 delivered, process>>

\* The last one: create() returns, the destructor frees the state.
Installed ==
  /\ MainRuns
  /\ doing.op \in {"create", "destroy"}
  /\ doing.sigs = {}
  /\ Frees(IF doing.op = "destroy" THEN {doing.handler} ELSE {})
  /\ doing' = Nothing
  /\ UNCHANGED <<disciplined, signalState, action, frames, delivered, process>>

(* Another handler is move-assigned: the state is freed and no more.       *)
AssignOver(h) ==
  /\ MainIsFree
  /\ h \in alive
  /\ alive # {h}
  /\ disciplined' = (disciplined /\ OthersAreOut /\ signalState # h)
  /\ Frees({h})
  /\ UNCHANGED <<signalState, action, doing, frames, delivered, process>>

-----------------------------------------------------------------------------
\* The other operations.

(* register_callback and unregister_callback: the mutex keeps registering  *)
(* threads apart, but not posix_handler, which meets a function in pieces. *)
(* What a whole one does is the user's.                                    *)
WriteCallback(h, s) ==
  /\ MainIsFree
  /\ h \in alive
  /\ doing' = [op |-> "write", handler |-> h, sigs |-> {s}]
  /\ UNCHANGED <<disciplined, globalVars, stateVars, frames, delivered, process>>

CallbackWritten ==
  /\ MainRuns
  /\ doing.op = "write"
  /\ doing' = Nothing
  /\ UNCHANGED <<disciplined, globalVars, stateVars, frames, delivered, process>>

Torn(h, s) == doing.op = "write" /\ doing.handler = h /\ s \in doing.sigs

(* ignore() and restore_default(): of the process, whatever the handler.   *)
SetAction(s, a) ==
  /\ MainIsFree
  /\ action' = [action EXCEPT ![s] = a]
  /\ UNCHANGED <<disciplined, signalState, alive, stateVars, doing, frames,
                 delivered, process>>

-----------------------------------------------------------------------------
\* The delivery of signals, and posix_handler.

Blocked(t) == {frames[t][k].sig : k \in DOMAIN frames[t]}

Deliver(t, s) ==
  /\ process = "runs"
  /\ delivered < MaxSignals
  /\ disciplined' = (disciplined /\ (doing.op = "destroy" => t = Main))
  /\ s \notin Blocked(t)
  /\ delivered' = delivered + 1
  /\ \/ /\ action[s] = "default"
        /\ process' = "terminated"
        /\ UNCHANGED frames
     \/ /\ action[s] = "handler"
        /\ frames' = [frames EXCEPT ![t] = <<[sig |-> s, at |-> "load", state |-> 0]>> \o @]
        /\ UNCHANGED process
  /\ UNCHANGED <<stateVars, globalVars, doing>>

Frame(t) == Head(frames[t])
At(t, place) == process = "runs" /\ frames[t] # <<>> /\ Frame(t).at = place

GoesOn(t, place) == frames' = [frames EXCEPT ![t][1].at = place]
Leaves(t) == frames' = [frames EXCEPT ![t] = Tail(@)]

(* The state is a local variable from here on. *)
LoadState(t) ==
  /\ At(t, "load")
  /\ IF signalState = 0
       THEN Leaves(t)
       ELSE frames' = [frames EXCEPT ![t][1] =
                         [@ EXCEPT !.at = "flag", !.state = signalState]]
  /\ UNCHANGED <<disciplined, stateVars, globalVars, doing, delivered, process>>

\* With a freed state, which nobody sees change, the process may crash.
Touches(h) == process' \in (IF h \in alive THEN {"runs"} ELSE {"runs", "crashed"})
Updated(f, h, v) == IF h \in alive THEN [f EXCEPT ![h] = v] ELSE f

SetReceived(t) ==
  /\ At(t, "flag")
  /\ received' = Updated(received, Frame(t).state, received[Frame(t).state] \union {Frame(t).sig})
  /\ Touches(Frame(t).state)
  /\ GoesOn(t, "last")
  /\ UNCHANGED <<disciplined, lastSig, totalCount, globalVars, doing, delivered>>

SetLastSignal(t) ==
  /\ At(t, "last")
  /\ lastSig' = Updated(lastSig, Frame(t).state, Frame(t).sig)
  /\ Touches(Frame(t).state)
  /\ GoesOn(t, "count")
  /\ UNCHANGED <<disciplined, received, totalCount, globalVars, doing, delivered>>

\* Fault: the pointer is read again.
CountSignal_Reloads(t) ==
  /\ At(t, "count")
  /\ totalCount' = IF signalState = 0 THEN totalCount
                   ELSE [totalCount EXCEPT ![signalState] = @ + 1]
  /\ Touches(Frame(t).state)
  /\ GoesOn(t, "call")
  /\ UNCHANGED <<disciplined, received, lastSig, globalVars, doing, delivered>>

CountSignal(t) ==
  /\ At(t, "count")
  /\ totalCount' = Updated(totalCount, Frame(t).state, totalCount[Frame(t).state] + 1)
  /\ Touches(Frame(t).state)
  /\ GoesOn(t, "call")
  /\ UNCHANGED <<disciplined, received, lastSig, globalVars, doing, delivered>>

(* The callback, which is read without the mutex. *)
CallCallback(t) ==
  /\ At(t, "call")
  /\ \/ Touches(Frame(t).state)
     \/ Torn(Frame(t).state, Frame(t).sig) /\ process' = "crashed"
  /\ Leaves(t)
  /\ UNCHANGED <<disciplined, stateVars, globalVars, doing, delivered>>

PosixHandler(t) ==
  LoadState(t) \/ SetReceived(t) \/ SetLastSignal(t) \/ CountSignal(t) \/ CallCallback(t)

-----------------------------------------------------------------------------

OwnerBegins ==
  \/ \E h \in HandlerIds : Create(h) \/ Destroy(h) \/ AssignOver(h)
  \/ \E h \in HandlerIds, s \in Signals : WriteCallback(h, s)
  \/ \E s \in Signals, a \in {"ignored", "default"} : SetAction(s, a)

OwnerGoesOn == Install \/ Installed \/ CallbackWritten

-----------------------------------------------------------------------------
\* Properties.

SignalsTypeOK ==
  /\ disciplined \in BOOLEAN
  /\ signalState \in HandlerIds \union {0}
  /\ alive \subseteq HandlerIds
  /\ action \in [Signals -> {"default", "handler", "ignored"}]
  /\ received \in [HandlerIds -> SUBSET Signals]
  /\ lastSig \in [HandlerIds -> Signals \union {0}]
  /\ totalCount \in [HandlerIds -> Nat]
  /\ doing \in [op : {"none", "create", "destroy", "write"}, handler : HandlerIds \union {0},
                sigs : SUBSET Signals]
  /\ frames \in [Threads -> Seq([sig : Signals, at : {"load", "flag", "last", "count", "call"},
                                 state : HandlerIds \union {0}])]
  /\ delivered \in Nat
  /\ process \in {"runs", "terminated", "crashed"}

Running(h) ==
  {t \in Threads : \E k \in DOMAIN frames[t] : frames[t][k].state = h}

(* With signals blocked on other threads around destructors, no execution  *)
(* of posix_handler uses a state that was freed, wherever in create(), in  *)
(* the destructor or in one another it interrupts the owner, and however   *)
(* many handlers there are. Without, the destructor may overtake it.       *)
StateIsAlive == disciplined => \A h \in HandlerIds \ alive : Running(h) = {}

(* What a handler tells of its signals agrees as soon as no posix_handler  *)
(* is in the middle of recording one: a last signal exactly if there is a  *)
(* flag, that of the last signal among them, and no flag without a count.  *)
(* Handlers created and destroyed meanwhile do not split a signal.         *)
AnswersAgree ==
  \A h \in alive : (disciplined /\ Running(h) = {}) =>
    /\ lastSig[h] \in received[h] \union (IF received[h] = {} THEN {0} ELSE {})
    /\ totalCount[h] >= Cardinality(received[h])

-----------------------------------------------------------------------------
\* What the documentation says and the code does not keep.

(* A handler that is alive hears of signals ("Get number of signals        *)
(* received since creation", signal_handler.cpp): it does not once a later *)
(* one was created, or any other destroyed.                                *)
AliveIsHeard == \A h \in alive : doing = Nothing => signalState = h
=============================================================================
