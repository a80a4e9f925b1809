# vynx_http in TLA+

A verification project for vynx_http, the C++20 networking and HTTP client
library of this repository: TLA+ modules that model its components from their
source, TLC runs that check small instances, and TLAPS proofs of the properties
that matter most for every value of the constants.

Paths below are relative to the repository: `event_loop.cpp` stands for
`src/event_loop.cpp`, `event_loop.h` for `include/vynx_http/event_loop.h`.

## 1. The system

### Components

| component | state | operations |
| --- | --- | --- |
| **event_loop** (`event_loop.cpp`) | `running`, `stopped`, the task queue under its mutex, the vector of timers, the map from native handles to handlers | `run`, `run_once`, `stop`, `post`, `schedule_timer` (two overloads), `cancel_timer`, `register_socket`, `modify_socket`, `unregister_socket` |
| **poller** (`platform.cpp`) | the kernel's set of handles (epoll or kqueue) | `add`, `modify`, `remove`, `wait` |
| **timeout_manager** (`timeout_manager.cpp`) | entries by handle and type, statistics, all under one mutex | `start_timeout`, `cancel_timeout`, `cancel_all`, `reset_idle`, `set_event_loop`, and the callback of its timers |
| **http_parser** (`http_parser.cpp`) | the state, the buffer, bytes of body to come, the response so far | `feed`, `reset`, `release_response` |
| **http_client** (`http_client.cpp`) | the pool of keep-alive connections, the cookie jar, the TLS context, the configuration | `execute`, `execute_async`, `on_redirect` |
| **cookie_jar** (`http_client.cpp`) | a list of cookies | `set_cookie`, `build_cookie_header`, `clear` |
| **tls_context** (`tls_context.cpp`) | references to OpenSSL's contexts and sessions | `ssl_ctx_wrapper::create`, `tls_context::create`, `handshake`, the destructors and moves |
| **byte_buffer** (`byte_buffer.h`) | a vector with a read and a write position | `write`, `ensure_capacity`, `advance_write`, `read`, `advance_read`, `compact`, `reset`, moves |
| **buffer_pool**, buffer_guard (`buffer_pool.h`) | a free list under a mutex; a buffer and its pool | `acquire`, `release`, `clear`; the guard's constructor, destructor, moves and `release` |
| **dns_resolver** (`dns_resolver.cpp`) | the cache and its counters, the configuration | `resolve`, `resolve_async`, `resolve_record`, `clear_cache`, `update_config` |
| **happy_eyeballs** (`dns_resolver.cpp`) | none beyond a call | `connect`, `connect_async` |
| **tcp_socket** (`tcp_socket.cpp`) | a descriptor, its state, the non-blocking flag | `create`, `from_fd`, `connect`, `send`, `receive`, `shutdown`, `close`, `set_non_blocking` |
| **signal_handler** (`signal_handler.cpp`) | callbacks, flags and counts of each handler, one global pointer, the actions of the process | `create`, the destructor, moves, `register_callback`, `unregister_callback`, `ignore`, `restore_default`, the handler the kernel calls, `register_loop_shutdown` |
| http_types, logger, results | values | |

### How they interact

* `http_client::execute` is synchronous: it takes a `tcp_socket` from the pool
  or connects one, sends, and loops over `recv` and `http_parser::feed` until
  the parser is complete. A redirect is a recursive call with a smaller budget.
  `execute_async` posts a closure to the event loop that calls `execute` there.
* `event_loop` calls tasks, `on_event` and timer callbacks on its own thread.
  Only `post` and `stop` may be called from others. Each callback may call back
  into the loop and change what the running iteration is about to visit.
* `timeout_manager` keeps an id of a loop timer in each entry. The timer's
  callback takes the manager's mutex, on the loop's thread, and calls the user.
* `http_parser` accumulates the body in a `byte_buffer`; `release_response`
  moves it out.
* `dns_resolver` is called by any thread; its cache is under a mutex, the
  query between lookup and store is not, nor is the configuration.
  `happy_eyeballs` resolves a name with it and gives each address a
  `tcp_socket` of its own, which then connects by name and not by address.
* The entries of `http_client`'s pool own their TLS sessions, and the client
  owns the context that sessions refer to. Its cookie jar stands between one
  response and the next request, also along a redirect.
* A `buffer_guard` brings its buffer back to the pool it came from; a buffer may
  also be released to another pool, or kept.
* `posix_handler` finds the last created `signal_handler` through a global
  pointer, on whatever thread the kernel runs it. `register_loop_shutdown` has a
  timer of the loop ask the handler for what was received, and stop the loop.

### What is hard

Interleavings: `post` and `stop` against every point of an iteration; a timer
callback that waits for a mutex while its timeout is replaced; cache lookups
and stores around a query; a signal between any two steps of the handler's own
creation and destruction. Re-entrancy: callbacks that schedule, cancel,
register, unregister, throw, or execute requests. Stale state: events collected
before the handler left, handles used again by the kernel, pooled connections
the server has closed, the state of a destroyed signal handler. Ordering:
segment boundaries in a response, bytes of one exchange found by the next,
header fields and cookies carried from hop to hop. Partial failure: a context, a
session, a handshake or a connection attempt that fails after others have
succeeded. Boundaries: empty bodies, capacity 0, a full cache, a full pool, the
redirect budget. `PROJECT.json` lists each hazard at its line with the
properties that would catch it.

### What makes each component correct

* event_loop: posted tasks run in order, each once, and eventually; a callback
  that throws takes no more with it than its batch; a one-shot timer fires once;
  a live timer that is due fires eventually; `stop()` ends `run()`; data reaches
  its handler.
* timeout_manager: every started timeout is exactly one of active, fired,
  cancelled, and counted so; an active one is armed by its own timer; no live
  timer is left without an entry; every timeout happens.
* http_parser: the outcome does not depend on segmentation; exact bodies;
  complete at the end of the response and not before; a bounded header buffer.
* http_client: requests go to their origin, over a connection of the right
  scheme and the session verified for its host; answers are matched to
  their requests; redirects are bounded; credentials stay with their host; the
  fields and cookies of a request are its own; no session or context leaks or
  goes too early; calls return.
* byte_buffer: a queue of bytes. buffer_pool: one owner for each buffer, which
  it gets empty. dns_resolver: a bounded cache, honest counters, the addresses
  of the host. happy_eyeballs: a fair order, a connection or nothing, and nothing
  left of an attempt when the next begins.
  tcp_socket: a state that agrees with the kernel's.
* signal_handler: no signal is handled on a freed state, what it tells of its
  signals agrees, and SIGINT and SIGTERM end `run()`.

## 2. The modules

| module | models | proofs |
| --- | --- | --- |
| `TaskExecutor` | abstract: tasks are executed in the order of `post()`, each once | |
| `LoopTimers` | the timer service of `event_loop`: the vector, one pass of `process_timers` | `LoopTimersProofs` |
| `Poller` | epoll and kqueue, kernel handles, the loop's handler map | |
| `EventLoop` | `run`, `run_once`, the iteration, tasks, dispatch; composes `LoopTimers` and `Poller`, implements `TaskExecutor` | `LoopShutdownProofs` |
| `TimeoutManager` | `timeout_manager` over `LoopTimers` | `TimeoutManagerProofs` |
| `Selection` | the loops that select some elements of a vector, for `CookieJar`, `Exchange`, `DnsResolver` and `HappyEyeballs` | `SelectionProofs` |
| `HttpParser` | `http_parser` | `ExchangeProofs` |
| `CookieJar` | `cookie_jar` | `ExchangeProofs` |
| `Exchange` | the header fields, cookies and parser of `do_execute` from hop to hop; composes `HttpParser` and `CookieJar` | `ExchangeProofs` |
| `HttpClient` | `execute`, the pool, redirects, and the servers | `TlsClientProofs` |
| `TlsContext` | `ssl_ctx_wrapper`, `tls_context` and what OpenSSL counts | `TlsClientProofs` |
| `TlsClient` | who owns which session of a client; composes `HttpClient` and `TlsContext` | `TlsClientProofs` |
| `ByteQueue` | abstract: a queue of bytes | |
| `ByteBuffer` | `byte_buffer`, implements `ByteQueue` | `BufferPoolProofs` |
| `BufferPool` | `buffer_pool` and `buffer_guard` over `ByteBuffer` | `BufferPoolProofs` |
| `DnsResolver` | `resolve`, the cache and its configuration | `HappyEyeballsProofs` |
| `TcpSocket` | `tcp_socket` next to the kernel's socket | `HappyEyeballsProofs` |
| `HappyEyeballs` | `happy_eyeballs::connect`; composes `DnsResolver` and `TcpSocket` | `HappyEyeballsProofs` |
| `SignalHandler` | `signal_handler` and `posix_handler` | `LoopShutdownProofs` |
| `LoopShutdown` | `register_loop_shutdown`; composes `EventLoop` and `SignalHandler` | `LoopShutdownProofs` |

`MC_*` modules hold definitions for constants that a configuration cannot
write: responses, origins, symmetry sets. Definitions whose name has an
underscore and a comment that starts with "Fault:" are variations of the code
that a property must detect; no specification uses them.

### LoopTimers and EventLoop

A timer record keeps the ticks left until its expiry and its interval instead
of time points; `Elapse` is one tick of the steady clock. Ids are never used
again, so the vector is the set `present` visited in the order of ids.
`process_timers` is cut at its callbacks: `PassBegin` reads the clock (`due`,
and `lag` counts the ticks since), `FireBegin` calls the next due callback,
`FireEnd` re-arms or marks the record, `PassEnd` erases. The capacity of the
vector is modelled because `schedule_timer` in a callback can move the records:
the pass is then `detached`, and continues in freed memory, where the callbacks
were moved from (`TimersCrash`) and marks are lost.

The loop thread's program counter `pc` walks `run()` (`reset`, `check`) and
`run_once` (`swap`, `tasks`, `wait`, `events`, `timers`). `UserCode` says when
the loop thread is in user code - outside `run()` or in one of the three kinds
of callbacks - and so may call the unsynchronised operations. `Post` and `Stop`
have no such guard. `CallbackThrows` unwinds everything that is on the way.
`CalculateTimeout` gives the set of possible waits: with only cancelled
records the code converts the distance to `time_point::max()` to an `int`, and
what comes out is one of two values, 0 or `OverflowWait`.

`Poller` identifies a handler with the socket it was registered for, and lets
the kernel give a closed handle to a new socket. `ReportsHandle` tells kqueue,
which fills in `event_data::handle`, from epoll, which does not.

### TimeoutManager

The mutex cuts the operations: `StartTimeout` is two steps (the mutex is held
between them; `StartStores` does the rest), `reset_idle` is `ResetCancels`, a
released mutex, `ResetStarts`, `StartStores`; the timer callback is
`TimerFires`, `CallbackLocks`, the user's code, `CallbackUnlocks`. The variable
`disciplined`, chosen once, separates two uses: callers on the loop thread
between passes, and callers on another thread that also take the loop away and
re-enter from callbacks.

### HttpParser

One action per turn of `feed()`'s loops and per way out. Tokens stand for
lines; chunk sizes and bodies keep their bytes, because a body may look like a
size line or a line end. The variable `response` is what the server sends,
`sent` how much of it TCP has delivered; `Feed(n)` delivers any next segment.
What makes a response well-formed is stated apart from the parser, in
`IsWellFormed`: a status line, fields and an empty line of three tokens each,
and a body of the announced length, up to the end, or in chunks whose places in
the wire and in the body the response's field `chunks` lists.

### HttpClient

`do_execute` is cut where it blocks: connect, handshake, send, each receive,
and the redirect callback. An origin is a pool key. The servers are part of the
module: they answer the oldest request owed, with any framing, with or without
a redirect and with or without `Connection: close`, and may close at any time.
What is on the wire is a sequence of pieces: a whole response, the start of one
that the parser does not take for complete, the line end behind the last chunk,
the end of the stream.

### CookieJar and Exchange

`Exchange` is the half of `do_execute` that `HttpClient` leaves out. The fields
of a request are records with the hop and the host they were made for, so that a
field carried too far shows. `apply_defaults` is `Defaults`, the copy for a
redirect `Redirected`. The first answer arrives in every segmentation through
`HttpParser`'s actions, and sets the cookies; the answers of later hops come
whole, because what their bytes do to a parser is the same. A user's own parser
is used, reset and released before the first request. The jar keeps its list and
compares domains and paths as the code does, by suffix and prefix; the reference
that `CookiesAreTheLatest` compares it with is a rule by labels and path
elements over `latest`, a history of what was set last under each name, domain
and path. It is the rule of the code and not that of RFC 6265: the jar files a
cookie without Domain under the host that set it (`http_client.cpp:111`) and
forgets that it did, so that subdomains get it, too (`HostOnlyStaysHome`), and
it takes the whole target of a request, with its query, for the path.

### TlsContext and TlsClient

Contexts and sessions are numbered. A context has the number of references
OpenSSL counts, a session its context, host and whether its handshake is done.
`TlsClient` adds `tls`, the session each pool entry owns, and `newTls`, the one
of a connection on its way to the pool; each step of `HttpClient` that removes
an entry frees its session in the same step (`FreeRemoved`). `EndClient` and
`EndEntries` are the destructor, whose members go in reverse order.

### ByteBuffer and BufferPool

`ByteBuffer` keeps the vector's bytes and both positions; the doubling loop of
`grow()` is a sequence of steps whose capacity wraps at `SizeLimit`, so that its
end is not an assumption; in fact it need not end (`GrowReturns`). `BufferPool`
follows the bytes of one buffer, `Tracked`, wherever it is, and of the others
only where they are: in a pool's stack (`pool`), in a guard (`held`, with its
pool in `home`) or with the user (`loose`).

### DnsResolver, TcpSocket, HappyEyeballs

`DnsResolver` has one program counter per thread, and splits `cache_misses_++`
in its read and its write, as it is outside of the mutex. `Zone` is what
getaddrinfo knows. A query takes one address after the other and reads the
configuration for each, so that an update comes in between. The cache keeps
records: a family and bytes (`Record`), and an answer from it is made of them
(`Address`), without the scope of an IPv6 address. Ports are left out, because
`connect` passes its own. `TcpSocket` keeps the object's state beside the
kernel's, which the peer and the network change at any time. In `HappyEyeballs`
one of the resolver's threads, `Caller`, resolves, interleaves and tries (by
name, and not at the addresses it has put in order); the other threads go on
resolving meanwhile. The socket is the one of the current attempt or of a user,
who gives it back before the next call.

### SignalHandler and LoopShutdown

A handler is the address of its state, which a later handler may get again.
`create` and the destructor are cut at each `sigaction()`, `posix_handler` at
each access of shared state (`LoadState`, `SetReceived`, `SetLastSignal`,
`CountSignal`, `CallCallback`); `frames` stacks its executions, since it may be
interrupted by another signal. A freed state that is touched may crash the
process. The history variable `disciplined` says whether handlers were destroyed
with signals blocked on other threads and never assigned over while in use;
without that the code promises nothing, and `StateIsAlive` says what it keeps
with it. `LoopShutdown` puts the loop and the handlers on one thread: a step of
the loop is possible only while no `posix_handler` is on top of it, and a signal
ends the poller's wait.

## 3. The runs

| run | question | bounds |
| --- | --- | --- |
| `loop_iterations` | `TypeOK`, `OneShotFiresOnce`, `ExecutesInOrder`, `PostedTaskRuns`, `StopEndsRun`, `TimerFires` | 2 tasks, 2 timers, delay 1 |
| `loop_faults` | `TimerFires` with callbacks that throw and schedule | 3 timers, delay 0, `run_once(-1)`, `run_once(0)` |
| `loop_events` | `OnlyBatchesAreLost`, `EventDelivered` with kqueue and callbacks that throw | 2 handles, 3 sockets, 2 tasks |
| `loop_epoll` | violated: `EventDelivered` with epoll | 1 handle, 1 socket |
| `signals` | `StateIsAlive`, `AnswersAgree`, `SignalEndsRun` | 2 handlers, 2 threads, SIGINT and one that does not stop, 2 deliveries |
| `timeouts` | `StatisticsAgree`, `TimersMatchEntries`, `FiresOwnTimer`, `TimeoutHappens` | 2 handles, 2 types, 2 timeouts |
| `parser` | `HeaderBufferBounded`, `ParsesFaithfully`, `CompleteAtItsEnd`, `FieldsBelong`, `CookiesAreTheLatest` | 14 responses, limits 3 and 2; 3 hosts, 3 paths, 4 cookie lines, 4 cookies, 2 hops |
| `parser_chunk_split` | violated: `ParsesFaithfully` for chunked responses in segments | 3 responses |
| `client_pool` | `RedirectsBounded`, `CredentialsStayHome`, `SecuredForItsHost`, `NothingLeaks` | 3 origins, 2 of them https, 1 redirect, 1 nested request |
| `client_returns` | `ExecuteReturns`, `OwnAnswer` | 2 origins, 1 of them https, 3 framings, 1 redirect, 1 nested request |
| `buffers` | `TypeOK`, `BuffersAreOwned`, `AcquiredIsEmpty`, `IsQueue` | 3 buffers, 2 pools, 2 guards, capacities 0 to 2, sizes that wrap at 8, 5 bytes required at most |
| `connect` | `CacheBounded`, `NeverOvercounted`, `AnswersAreTheHosts`, `OrderIsFair`, `ResultIsClean`, `ConnectedIsReal`, `EstablishedIsUsable` | 2 threads, 3 hosts, `connect` to 2 of them, 4 addresses, IPv6 preferred, maximum 0 or 1, 3 calls |

Several of these are conjunctions of invariants with a name and a comment of
their own: `StatisticsAgree` is `Conservation` and `ActiveCountIsRight`,
`TimersMatchEntries` is `ActiveIsArmed` and `NoOrphanTimer`, `CompleteAtItsEnd`
is `WholeIsParsed` and `CompleteIsWhole`, `NothingLeaks` is
`ContextsAreCounted` and `SessionsAreOwned`, `BuffersAreOwned` is `OneOwner` and
`PoolBounded`, and `SecuredForItsHost` includes `SentToOrigin`. Each larger
module also states its types (`TypeOK`), for proofs to build on; runs check them
where a theorem is about them.

**Why the bounds are enough.** Two tasks show any reordering or loss at the
swap, since a task posted during a batch and one in it already differ. Three
timers are the least with which a vector reallocates under a pass that still has
a record to visit; two suffice for a callback that cancels the other. Two
handles are needed for an event that is pending while another's handler runs,
and three sockets for a handle that is used again. Two handlers are one and the
one that takes the pointer over, and two signals interrupt each other, or come
before and after any step of an owner. Two timeouts are one and its successor.
The parser's responses hold every framing and every kind of bad line; a body of
two bytes has every cut position, and header limits of 3 tokens are exceeded by
4. Of three hosts one is in the domain of another and one only ends like it, and
the paths are related in the same way; two hops are a redirect and one from
where it led; a jar of four cookies can hold some that a request carries, by
host and by domain, next to some that it does not. Three origins are two that
differ by scheme only, on one port, and one with another host; one redirect
exhausts a budget of one, and the nested request shows the pool changing under a
suspended execution. Three buffers fill a pool while two guards exchange theirs;
a pool that was given more than it takes back, and one that gives and takes,
differ in every branch of `release`. Sizes that wrap at 8 let a capacity of 1 or
2 double past what fits as well as reach it. In the cache, three hosts are one
more than the bound of the largest maximum, so that a cache that does not evict
breaks it, also after the maximum was lowered from 1 to 0; a query of a host
with both families can be split by an update, and one with IPv6 only can be left
without any address, or have lost its scope. The order of two addresses is
enough to tell which family is first; that longer ones are fair, too, is
`OrderStaysFair`.

**Deadlock** is checked unless the system may stop for good: a loop that has
crashed or that was left by an exception with `running` raised (`loop_faults`,
`loop_events`), a process that a signal has terminated (`signals`) and a parser
whose response has been read or that hangs (`parser`, `parser_chunk_split`).

**Fairness.** `EventLoop`: weak fairness of the loop thread's own steps, of
callbacks returning and of the clock; none of `post`, `stop`, or the network.
`run()` is a thread that the system schedules, and no step of it waits for a
user. `TimeoutManager`: the loop iterates, a call that has begun goes on, time
passes. `HttpClient`: the executing thread goes on unless it blocks, and a
server answers or closes in the end; without the latter `ExecuteReturns` is
false, because no timeout of the configuration reaches a system call. A
redirect callback that executes requests returns in the end; at each depth of
nesting that is strong fairness, since a callback that could return may go on
with another request each time. `LoopShutdown`: as for `EventLoop`, and
`posix_handler` goes on on each thread; signals need not arrive, and come to an
end. `BufferPool`: a `grow()` that is running goes on; only `GrowReturns`, which
is refuted, asks for it.

## 4. The proofs

The proofs are about the specifications that the runs check, without their
fairness: `Spec` of `EventLoop`, `TimeoutManager`, `HttpClient`, `Exchange`,
`BufferPool` and `HappyEyeballs`, `ShutdownSpec`, `TlsClientSpec`, and those of
the parts that are composed further (`ResolverSpec`, `SocketSpec`,
`BufferSpec`). Each safety theorem comes from an inductive invariant; what the
invariant says beyond the property is given below. The assumptions are the
named ones of the modules, which TLC evaluates in every run. Most of them only
give types to the constants; those that say more are

* `OriginsAssumption` (`HttpClient`): the origin that `on_redirect` makes of a
  relative location is an origin, too; and ports are in 1..65535, as `parse_url`
  rejects all others;
* `NoneAssumption` (`HttpClient`): what stands for "no connection", "no request"
  and "no piece" is none;
* `ZoneAssumption` (`DnsResolver`): getaddrinfo returns addresses;
* `WellFormedAssumption` (`HttpParser`): the responses called well-formed are
  laid out as `IsWellFormed` says, and `max_header_buffer` is at least 2 tokens,
  what a line may have in the buffer before its last token arrives;
* `PoolAssumption`, `SignalsAssumption`: no buffer and no address of a handler
  is what stands for "none".

**LoopTimersProofs.** Lemmas about the timer service for its two users, the
loop and the timeout manager: what each operation does to types, to the records
and to the timers that are alive (`TimersStepType`, `FiredInv`).

**LoopShutdownProofs**, about `EventLoop`:

* `TypeCorrect`: `Spec => []TypeOK`, for any numbers of tasks, timers, handles.
* `TasksInOrder`: without throwing callbacks (`~CallbacksThrow`), the loop
  implements `TaskExecutor` under the mapping `pending <- batch \o taskQueue`.
  Swapping is a stutter because the batch is empty outside of `process_tasks`:
  that is the invariant the step proof needs (`BatchInv`).
* `OneShotOnce`: a one-shot timer fires at most once, if callbacks neither throw
  nor schedule. `OneShotFiresOnce` is not inductive: nothing in it prevents a
  fired timer from being found due again. `FiredInv` and `PassInv` add that a
  fired one-shot is cancelled or is the one whose callback is running, that a
  pass is confined to the timer phase, and that ids not yet handed out have not
  fired.
* `ThrowingLosesItsBatch`: `OnlyBatchesAreLost`. With callbacks that throw, each
  step is one of `TaskExecutor` or that in which a task takes the rest of its
  batch with it; `BatchInv` again says that no other step finds one.

and about `SignalHandler` under `LoopShutdown`, for any signals,
threads and addresses:

* `NoFreedState`: `StateIsAlive`, while the callers are disciplined.
  `PointersInv` says where a handler's address may be: the global pointer and
  every execution of `posix_handler` on every thread refer to nothing or to a
  handler that is there, and no execution is left on another thread while one is
  destroyed. `OwnerInv` says that the pointer was cleared before the state goes.
* `RecordsAgree`: `AnswersAgree`. A signal is flagged, remembered and counted in
  several steps, and any of them may be interrupted by another signal, so that
  the three disagree for a while. `RecordInv` accounts for it: what is flagged
  is counted or is still to be counted by an execution on some stack, so the
  total is at least the number of signals flagged and not on a stack.
  `FreshInv` says that an address which is used again starts with nothing.

**TimeoutManagerProofs.** `ManagerInv` is inductive.

* `StatisticsAlwaysAgree`: `StatisticsAgree`. The count of active timeouts is a
  cardinality over the entries, and each operation changes one entry.
* `TimersAlwaysMatch`: `TimersMatchEntries`, with disciplined callers.
  `ScheduledInv` says that all timers are one-shot ones with an owner, and that
  no reallocation leaves a pass behind; `CallInv` that a caller that has the
  mutex has it alone; `FiringInv` what holds between a timer's callback and the
  retirement of its entry, and between the two steps of a replacement, when
  there is a timer without an entry or the reverse.
* `TimersFireTheirOwn`: `FiresOwnTimer` is an action property over `FiringInv`:
  while the callback waits for the mutex, the entry still names its timer.

**BufferPoolProofs**, about `ByteBuffer`:

* `PositionsStayInside`: `TypeOK` is inductive; one lemma for each operation
  that moves bytes.
* `ImplementsQueue`: `byte_buffer` implements `ByteQueue` under the mapping
  `queue <- Contents`. Three lemmas about the window of unread bytes carry it:
  what writing behind it (`WindowPuts`), moving it to the front (`WindowMoves`)
  and reading from it (`WindowGets`) make of it. Besides `TypeOK` a step needs
  only that the bytes `grow()` is about to write are one of the inputs.

and about `BufferPool`, for any buffers, pools and guards:

* `OwnedByOne`: `BuffersAreOwned`. A buffer is in one stack at one place, or in
  one guard, or with the user; a stack grows in `release()` only while it is
  below its maximum. `PoolTypeOK` gives the types of the stacks and guards.
* `PooledIsQueue`: the buffer that is followed remains a `ByteQueue`; a step of
  the pools maps to a step of the queue or a stutter. `RestsUnowned` is needed
  so that no `grow()` is under way in a buffer that changes its owner.
* `AcquiresEmpty`: `AcquiredIsEmpty` is an action property over the same.

**TlsClientProofs**, about `HttpClient`:

* `ClientTypes`: the types. `PlaceInv` says for each place of `do_execute` what
  it has there: no pool entry while it connects, that of the request while it
  exchanges messages, an answer, a target.
* `AnswersOwn`: `OwnAnswer`. `ExchangeInv` says of every connection in the pool
  what may be on it: nothing but line ends and an end of stream when no request
  uses it, and at most one answer, to the request that is executed, when one
  does. So a stale byte can fail a request but not answer it.
* `RedirectsAreBounded`, `CredentialsAreKept`: `RequestInv` gives hops and
  budget of a request their sum, `MaxRedirects`, also of those that are
  suspended in a redirect callback, and says that one with credentials is for
  the host they were given for.

and about `TlsClient`:

* `NothingIsLeaked`: `NothingLeaks`. `SessionInv` ties the sessions to the pool:
  exactly the entries of https origins have one, with a finished handshake and
  for their host, and a handshake in progress has its own. Counting the
  references is a lemma for each of making, freeing and moving one.
* `SentSecured`: `SecuredForItsHost`, from `SessionInv` and the place.
* `TlsRequestsBounded`, `TlsCredentialsAreKept`: the theorems
  about `HttpClient` hold of the composition, because each of its steps is one
  of `HttpClient` or leaves the client alone.

**SelectionProofs.** What a loop that selects elements of a vector returns:
which elements (`SelectedElements`), each once and in order (`SelectsOneMore`),
and how two complementary selections divide a vector (`SelectedHalves`). The
loop is a recursive function, and the induction over its turns is by the least
element of a set of counterexamples, in place of the library's theorems, whose
parameter is a predicate.

**ExchangeProofs**, about the parser as `receive_response` uses it, for any
responses and any segments:

* `HeaderIsBounded`: `HeaderBufferBounded`, also of parsers that were reset.
* `LengthIsKept`: a body with a `Content-Length` that is complete has that
  length, and is what follows the empty line on the wire. Both come from
  `ParserInv`: the body and then the buffer are, in this order, what follows a
  line end on the wire, up to what was sent, and the rest of a body and what is
  missing add up.
* `ParsedFaithfully` and `CompletesAtItsEnd`: `ParsesFaithfully` and
  `CompleteAtItsEnd`, for any number of fields, chunks and segments. For a
  response with k fields `FaithfulInv` says where the parser is in it
  (`FaithfulTo(k)`): in the head, the buffer begins with line i of the wire, and
  `chunked` and the content length are those of the i - 1 fields before it; in a
  plain body, body and buffer are what follows the head; between two chunks the
  buffer begins with chunk j and the body is what the chunks before it carry.
  The lemmas of a line (`HeadLine`, `EmptyLine`, `ChunkLine`) say that the first
  line end in the buffer is the one the response has there, and that without one
  there is more to come. The hypothesis `ChunksComeWhole`, that chunked
  responses are delivered in one piece, is what the code needs: run
  `parser_chunk_split` refutes the property without it. Where chunks begin is
  given, not computed, so the proof needs no induction over them.

about the cookie jar and the requests:

* `JarHoldsLatest`: the jar has each cookie once, with the value set last.
* `FieldsStayWhereTheyBelong`: `FieldsBelong`. `RequestInv` says of a request
  that is being prepared that nothing of an earlier hop was copied but what may
  be carried; that `apply_defaults` then adds fields of this hop only is
  `DefaultsAre`.
* `RequestsCarryTheLatest`: `CookiesAreTheLatest`. A request has no cookies until
  it is sent, the jar is that of `JarHoldsLatest`, and what
  `build_cookie_header` selects is what the rule selects: `DomainsMatch` and
  `PathsMatch` show the code's comparisons, by suffix and by prefix, equal to
  the rule's definitions by labels and path elements, for any hosts, domains and
  paths. What is filed under which domain is the code's own choice
  (`HostOnlyStaysHome`).

**HappyEyeballsProofs**, about `DnsResolver`:

* `CacheStaysBounded`: `CacheInv` is `CacheBounded` and that the cache is
  finite. The bound is the largest maximum that was configured, plus one. A
  store evicts under the same lock under which it inserts, and the lemma
  `EvictedLeavesRoom` says that what is left then is within the maximum; so one
  more entry is the worst, however many threads found the cache not full before.
* `StatsNeverOvercount`: `cache_misses_` is read and written in two steps, and
  the write of a slow thread can lower it. `StatsInv` therefore bounds not only
  the counter but also the value each thread has read, by the calls that are
  not hits and not still to be counted.
* `AnswersMatch`: `AnswersAreTheHosts`, up to the scope. `AnswerInv` says the
  same of the addresses that the records of an entry make (`EntryIsRight`) and
  of what a thread is about to store, and of a query under way that what it has
  taken and what is left are the host's and miss no IPv4 address (`Filtering`).
  A record made of an address and back is the address without its scope
  (`AddressOfRecord`), which is why being stored again changes nothing more.

about `TcpSocket`:

* `ConnectedAgrees`: `AgreesInv` adds to `ConnectedIsReal` that an object
  without a descriptor has no kernel socket, and that a connect in progress is
  reported as such.
* `EstablishedStaysUsable`: for callers that never receive into an empty
  buffer. `EndInv` says that a connection whose object is disconnected is at its
  end or shut down.

and about `HappyEyeballs`:

* `SocketIsImplemented`, `ResolverIsImplemented`: every step of the composition
  is a step of `TcpSocket` or leaves it alone, and likewise of `DnsResolver`. The
  theorems about either therefore hold in the composition.
* `ConnectReturnsClean`: `connect()` returns a real connection, or an error with
  nothing left open, for any zone, number of threads and of addresses, and
  no attempt leaves anything to the next.
  `ConnectInv` ties each place of `connect()` to what there is of a socket: none
  between attempts, a valid one after an attempt that succeeded.
* `OrderStaysFair`: `OrderIsFair`, about the order that is computed; what is
  tried is not in that order (`TriesInOrder`). That taking two vectors in turn
  takes all of both, and leaves one family behind only when the other is at its
  end, is proved of any two vectors (`InTurnTakesAll`, `InTurnIsFair`,
  `InterleavedIsFair`). `OrderInv` adds that the answer the order was made of
  does not change under it.

**Only model-checked.** Liveness (`PostedTaskRuns`, `StopEndsRun`, `TimerFires`,
`EventDelivered`, `TimeoutHappens`, `SignalEndsRun`, `ExecuteReturns`) is
outside of what TLAPS proves here: it needs fairness and
ENABLED. What a recursive definition computes for every input is out of its
reach, too, but for the selections of `SelectionProofs`; so the size of a chunk
(`SizeOf`) is the same operator in the parser and in the definition of a
well-formed chunk. Every safety property and action property of the passing
runs is a theorem.

## 5. Where the code differs from its documentation

Two disagreements have runs of their own. `loop_epoll`: on Linux no handler is
ever called (`platform.cpp:89` reports the handle -1, `event_loop.cpp:156` looks
it up). `parser_chunk_split`: a chunk that arrives in two segments loses its
size line (`http_parser.cpp:307`).

Others are stated as properties at the end of their modules, under "What the
documentation says and the code does not keep" or, where no documentation
speaks of it, "What the code does not keep"; TLC refutes each of them on an
instance of the size above.

| property | what happens |
| --- | --- |
| `StopIsNotLost` | `run()` raises `running` and then lowers `stopped` (`event_loop.cpp:125-126`): a `stop()` in between is overwritten |
| `RunningMeansRun` | an exception of a callback leaves `run()` with `running` raised; it can never be run again |
| `IdleWaitIsDefault` | with only cancelled timers the wait is a truncated `time_point::max()` (`event_loop.cpp:98`) |
| `HandlerOfItsSocket` | the handler of a closed socket stays in the map and `modify_socket` registers it for the next socket with that handle (`event_loop.cpp:249`) |
| `OneShotFiresOnce` with `ScheduleInTimer` | a one-shot fires again after its callback scheduled a timer (`event_loop.cpp:45`) |
| `FiresOwnTimer` without `disciplined` | a callback that waits for the mutex retires the timeout that replaced its own (`timeout_manager.cpp:92`) |
| `CallsReturn` | a timeout callback that calls the manager waits for the mutex its thread holds (`timeout_manager.cpp:96`) |
| `ResetKeepsCallback` | `reset_idle` replaces the user's callback by a no-op (`timeout_manager.cpp:175`) |
| `FeedReturns` | after `release_response` and `reset` the body has capacity 0 and `feed` doubles it for ever (`byte_buffer.h:177`) |
| `CompleteIsWhole` for split chunked responses | the parser is complete before the line end behind the last chunk (`http_parser.cpp:301`) |
| `CloseIsHonoured` | a redirect with `Connection: close` leaves its connection in the pool (`http_client.cpp:523`) |
| `RelativeStaysHome` | a relative redirect drops port 80 or 443 whatever the scheme (`http_client.cpp:538`) |
| `CredentialsStayInOrigin` | a redirect to another scheme or port of the same host keeps the credentials, which `http_client.cpp:600` calls "cross-origin" (`http_client.cpp:574`) |
| `HostOnlyStaysHome` | a cookie without Domain is sent to subdomains of the host that set it, which RFC 6265 forbids (`http_client.cpp:111`, `:131`) |
| `GrowReturns` | `grow()` doubles a capacity of 0 for ever, and one that wraps to 0 (`byte_buffer.h:177`) |
| `AnsweredIsReturned` | a late line end behind the last chunk fails the next request; an answer to HEAD that announces a body is never complete (`http_client.cpp:687`) |
| `CacheWithinMax` | the eviction leaves a full cache alone, which grows by one more (`dns_resolver.cpp:53`) |
| `ScopesAreKept` | a link-local address from the cache has lost its scope (`dns_resolver.cpp:142`) |
| `CallsAreCounted` | two threads lose a miss (`dns_resolver.cpp:154`) |
| `TriesInOrder` | every attempt connects by name, to the one address `resolve_address` chooses, and not to the address whose turn it is (`dns_resolver.cpp:312`) |
| `CapacityKept` | a pool takes back buffers of any capacity, also ones that were moved out of (`buffer_pool.h:107`) |
| `AliveIsHeard` | a handler hears no signal once a later one was created or any other destroyed (`signal_handler.cpp:161`, `:181`) |
| `ConnectedIsUsable` | a connect in progress never becomes connected; an empty `receive` disconnects (`tcp_socket.cpp:239`, `:309`) |

What the models show without a property of its own: the delays and timeouts of
`happy_eyeballs` and the timeout of `dns_resolver` are never read;
`config().tls` is ignored once the first https request has made the context
(`http_client.cpp:375`); a `Cookie` field of the user is replaced by the jar's;
a cookie's domain is not compared with the host that sets it, and its `Secure`
and `Expires` are not used; a path that is followed by a query instead of a
slash does not match.

## 6. What is left out

* Values and formatting: request and response text, URLs, log lines. The
  parser's lines are tokens, its status codes valid or not; the client's URLs
  are origins. Header values that no decision reads.
* `get_stats()` of the loop and of sockets; event masks; the Windows poller and
  the console handler of Windows.
* `execute_async` concurrent with `execute`: both use `connections_` without a
  lock, which is undefined behaviour the model does not follow.
* `run_once()` called from a callback of the loop (`event_loop.cpp:140`), which
  nothing forbids: it would swap out and execute tasks, and erase timers, inside
  of the batch or pass that is under way. `run()` on two threads at once,
  callbacks that throw in the timeout manager, interim (1xx) responses.
  `resolve_record`, which changes no state.
* The `_async` operations of `tcp_socket.h`, which are declared and not defined.
* What OpenSSL does with the bytes of a session: `read`, `write` and `shutdown`
  of `tls_context` hand over its results. The verification of a certificate is
  part of a handshake that succeeds.
* `from_fd` of a descriptor that is not connected: the code takes any and says
  connected (`tcp_socket.cpp:195`), and `tcp_socket.h:76` does not ask for more.
  SIGPIPE in `send`, which passes no MSG_NOSIGNAL (`tcp_socket.cpp:259`): a
  process that does not ignore it ends there.
* `verify_peer` off: the handshakes of the model verify their host.
* The ports of addresses. Those of answers from the cache are the present ones
  of the configuration and may differ from those of the query
  (`dns_resolver.cpp:135`); `connect` uses neither.
* Exhausted memory, and the `length_error` of a vector, wherever one grows.
* `logger`, `results`, `http_types`: no state of their own that a property could
  be about; what `http_headers` does to the fields of a request is in `Exchange`.

## 7. Plan

1. Done: all components of section 1 but the value types, their compositions,
   and the proofs of section 4.
2. Prove next: the theorems about the parser for `ParserSpec`, whose steps the
   lemmas already cover, and for `Exchange` the steps that map to it; the
   reference counts of `TlsContext` as a refinement of an abstract owner.
3. Compose, if the state space allows: `HttpClient` over the parser's states,
   `TimeoutManager` over `EventLoop` as an instance instead of the timer service
   alone, `execute_async` as a task of `EventLoop`.
