----------------------------- MODULE BufferPool -----------------------------
(***************************************************************************)
(* vynx_http::buffer_pool and buffer_guard: who has which buffer. One of   *)
(* the buffers is Tracked: its bytes are those of ByteBuffer, used by its  *)
(* owner between acquire() and release(). Each operation of a pool is one  *)
(* step, under the mutex of the pool.                                      *)
(***************************************************************************)
EXTENDS ByteBuffer

CONSTANTS
  Buffers,          \* bound: the buffers there may be at once
  Tracked,          \* the one whose bytes are followed
  NoBuffer,         \* an empty unique_ptr
  Guards,           \* the buffer_guard objects
  Pools,
  Config            \* config_ of each pool: initial, max and capacity

ASSUME PoolAssumption ==
  /\ Tracked \in Buffers
  /\ NoBuffer \notin Buffers
  /\ Config \in [Pools -> [initial : Nat, max : Nat, capacity : Capacities]]

VARIABLES
  pool,             \* pool_ of each pool, a stack
  held,             \* buffer_ of each guard
  home,             \* pool_ of each guard
  loose             \* the buffers that the user has without a guard

poolVars == <<pool, held, home, loose>>
vars == <<bufferVars, poolVars>>

Slots == UNION {{<<p, i>> : i \in DOMAIN pool[p]} : p \in Pools}
At(s) == pool[s[1]][s[2]]

Pooled(b) == \E s \in Slots : At(s) = b
Owned(b) == b \in loose \/ \E g \in Guards : held[g] = b
Exists(b) == Pooled(b) \/ Owned(b)

Distinct == \A s, t \in Slots : At(s) = At(t) => s = t

(* The constructor fills the pools; a buffer that does not exist is one    *)
(* without memory.                                                         *)
Init ==
  /\ pool \in [Pools -> UNION {[1..Config[p].initial -> Buffers] : p \in Pools}]
  /\ \A p \in Pools : Len(pool[p]) = Config[p].initial
  /\ Distinct
  /\ held = [g \in Guards |-> NoBuffer]
  /\ home \in [Guards -> Pools]
  /\ loose = {}
  /\ BufferInit
  /\ \A s \in Slots : At(s) = Tracked => capacity = Config[s[1]].capacity
  /\ ~Pooled(Tracked) => capacity = 0

-----------------------------------------------------------------------------
\* What happens to the bytes of a buffer.

\* No call of the buffer is running.
Quiet(b) == b = Tracked => growing = -1

\* It has n bytes of memory, all of them to be written.
Renewed(b, n) ==
  IF b = Tracked
    THEN /\ Quiet(b)
         /\ data' = Memory(n)
         /\ readPos' = 0
         /\ writePos' = 0
         /\ UNCHANGED <<growing, wanted>>
    ELSE UNCHANGED bufferVars

Construct(b, p) == Renewed(b, Config[p].capacity)
Destroy(b) == Renewed(b, 0)
ResetBuffer(b) == IF b = Tracked THEN Reset ELSE UNCHANGED bufferVars

-----------------------------------------------------------------------------
\* buffer_pool.

(* acquire(): the buffer that came back last, or a new one. *)
AcquireFrom(p, b) ==
  \/ /\ pool[p] # <<>>
     /\ b = pool[p][Len(pool[p])]
     /\ pool' = [pool EXCEPT ![p] = SubSeq(@, 1, Len(@) - 1)]
     /\ ResetBuffer(b)
  \/ /\ pool[p] = <<>>
     /\ ~Exists(b)
     /\ Construct(b, p)
     /\ UNCHANGED pool

(* release() *)
ReleaseTo(p, b) ==
  IF Len(pool[p]) < Config[p].max
    THEN /\ pool' = [pool EXCEPT ![p] = Append(@, b)]
         /\ ResetBuffer(b)
    ELSE /\ Destroy(b)
         /\ UNCHANGED pool

(* The user's own calls. *)
Acquire(p, b) ==
  /\ AcquireFrom(p, b)
  /\ loose' = loose \union {b}
  /\ UNCHANGED <<held, home>>

Release(p, b) ==
  /\ b \in loose
  /\ ReleaseTo(p, b)
  /\ loose' = loose \ {b}
  /\ UNCHANGED <<held, home>>

Drop(b) ==
  /\ b \in loose
  /\ Destroy(b)
  /\ loose' = loose \ {b}
  /\ UNCHANGED <<pool, held, home>>

Clear(p) ==
  /\ pool[p] # <<>>
  /\ pool' = [pool EXCEPT ![p] = <<>>]
  /\ IF \E s \in Slots : s[1] = p /\ At(s) = Tracked
       THEN Destroy(Tracked) ELSE UNCHANGED bufferVars
  /\ UNCHANGED <<held, home, loose>>

-----------------------------------------------------------------------------
\* buffer_guard.

(* A new guard, in place of one without a buffer. *)
GuardAcquire(g, p, b) ==
  /\ held[g] = NoBuffer
  /\ AcquireFrom(p, b)
  /\ held' = [held EXCEPT ![g] = b]
  /\ home' = [home EXCEPT ![g] = p]
  /\ UNCHANGED loose

(* The destructor. *)
GuardEnds(g) ==
  /\ held[g] # NoBuffer
  /\ ReleaseTo(home[g], held[g])
  /\ held' = [held EXCEPT ![g] = NoBuffer]
  /\ UNCHANGED <<home, loose>>

(* A new guard is moved from another one, and has its pool. *)
GuardMoved(g, h) ==
  /\ g # h
  /\ held[g] = NoBuffer
  /\ Quiet(held[h])
  /\ held' = [held EXCEPT ![g] = held[h], ![h] = NoBuffer]
  /\ home' = [home EXCEPT ![g] = home[h]]
  /\ UNCHANGED <<bufferVars, pool, loose>>

(* operator=(&&): the buffer of g goes back to its pool, and g stays a     *)
(* guard of that pool whichever the buffer of h came from.                 *)
GuardAssign(g, h) ==
  /\ g # h
  /\ Quiet(held[h])
  /\ IF held[g] # NoBuffer THEN ReleaseTo(home[g], held[g]) ELSE UNCHANGED <<pool, bufferVars>>
  /\ held' = [held EXCEPT ![g] = held[h], ![h] = NoBuffer]
  /\ UNCHANGED <<home, loose>>

\* Fault: the guard keeps the buffer that it hands out.
GuardRelease_Keeps(g) ==
  /\ held[g] # NoBuffer
  /\ Quiet(held[g])
  /\ loose' = loose \union {held[g]}
  /\ UNCHANGED <<bufferVars, pool, held, home>>

(* release(): the user has the buffer now. *)
GuardRelease(g) ==
  /\ held[g] # NoBuffer
  /\ Quiet(held[g])
  /\ loose' = loose \union {held[g]}
  /\ held' = [held EXCEPT ![g] = NoBuffer]
  /\ UNCHANGED <<bufferVars, pool, home>>

-----------------------------------------------------------------------------

(* Its owner uses the buffer. *)
Use ==
  /\ Owned(Tracked)
  /\ BufferNext
  /\ UNCHANGED poolVars

PoolNext ==
  \/ \E p \in Pools, b \in Buffers : Acquire(p, b) \/ Release(p, b)
  \/ \E b \in Buffers : Drop(b)
  \/ \E p \in Pools : Clear(p)
  \/ \E g \in Guards, p \in Pools, b \in Buffers : GuardAcquire(g, p, b)
  \/ \E g, h \in Guards : GuardMoved(g, h) \/ GuardAssign(g, h)
  \/ \E g \in Guards : GuardEnds(g) \/ GuardRelease(g)

Next == PoolNext \/ Use

Spec == Init /\ [][Next]_vars

(* A call of the buffer goes on. Only GrowReturns asks for it. *)
FairSpec == Spec /\ WF_vars(Grow /\ UNCHANGED poolVars)

-----------------------------------------------------------------------------
\* Properties.

(* A buffer is in one place: not twice in the pools, not with two guards,  *)
(* and nobody has one that the next acquire() hands out, however guards    *)
(* are moved, assigned and released.                                       *)
OneOwner ==
  /\ Distinct
  /\ \A g, h \in Guards : held[g] = held[h] /\ held[g] # NoBuffer => g = h
  /\ \A g \in Guards : held[g] \notin loose
  /\ \A b \in Buffers : ~(Pooled(b) /\ Owned(b))

(* A pool keeps no more buffers than it was given or may take back.        *)
PoolBounded ==
  \A p \in Pools :
    Len(pool[p]) <= IF Config[p].initial > Config[p].max THEN Config[p].initial
                                                         ELSE Config[p].max

(* Buffers go around between pools, guards and users, and none is shared   *)
(* or piles up.                                                            *)
BuffersAreOwned == OneOwner /\ PoolBounded

(* Who acquires a buffer does not see the bytes of the owner before, nor   *)
(* of any write that was not finished.                                     *)
AcquiredIsEmpty ==
  [][~Owned(Tracked) /\ Owned(Tracked)' => Contents' = <<>> /\ growing' = -1]_vars

-----------------------------------------------------------------------------
\* What the documentation says and the code does not keep.

(* The buffers of a pool have its buffer_capacity (buffer_pool.h): not one *)
(* that was moved out of, nor one that a guard brought from another pool.  *)
CapacityKept == \A s \in Slots : At(s) = Tracked => capacity >= Config[s[1]].capacity
=============================================================================
