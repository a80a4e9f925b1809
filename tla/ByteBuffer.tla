----------------------------- MODULE ByteBuffer -----------------------------
(***************************************************************************)
(* vynx_http::byte_buffer: a vector with a read and a write position, that *)
(* compacts itself and doubles its capacity when a write does not fit.     *)
(* The loop of grow() is a sequence of steps on a size_t, which wraps      *)
(* around. There is always memory for what a vector asks for.              *)
(***************************************************************************)
EXTENDS Integers, Sequences

CONSTANTS
  Bytes,            \* the bytes that are written
  Zero,             \* what new memory holds
  Inputs,           \* the byte strings that are written at once
  Capacities,       \* capacities given to the constructor
  Moves,            \* buffers are moved
  SizeLimit,        \* what a size_t wraps at: 2^64
  MaxRequired       \* bound: bytes a write asks for, on top of the old ones,
                    \* a sum that does not wrap itself

ASSUME BufferAssumption ==
  /\ Zero \in Bytes
  /\ Inputs \subseteq Seq(Bytes)
  /\ Capacities \subseteq Nat
  /\ Moves \in BOOLEAN
  /\ SizeLimit \in Nat
  /\ MaxRequired \in 0..SizeLimit - 1

VARIABLES
  data,             \* data_, a sequence as long as the capacity
  readPos,          \* read_pos_
  writePos,         \* write_pos_
  growing,          \* the capacity grow() has come to, -1 outside
  wanted            \* the bytes to write and the room they need, while it runs

bufferVars == <<data, readPos, writePos, growing, wanted>>

Nothing == [bytes |-> <<>>, room |-> 0]

Memory(n) == [i \in 1..n |-> Zero]

BufferInit ==
  /\ \E c \in Capacities : data = Memory(c)
  /\ readPos = 0
  /\ writePos = 0
  /\ growing = -1
  /\ wanted = Nothing

capacity == Len(data)
available == capacity - writePos
Contents == SubSeq(data, readPos + 1, writePos)

\* The vector d with the bytes s from position p on.
Overwrite(d, p, s) ==
  [i \in 1..Len(d) |-> IF i \in p + 1..p + Len(s) THEN s[i - p] ELSE d[i]]

\* Fault: one byte more than there is room for.
Reserve_OffByOne(s, n) ==
  /\ growing = -1
  /\ writePos + n <= MaxRequired
  /\ IF n > available + 1
       THEN /\ growing' = capacity
            /\ wanted' = [bytes |-> s, room |-> n]
            /\ UNCHANGED <<data, writePos>>
       ELSE /\ data' = Overwrite(data, writePos, s)
            /\ writePos' = writePos + Len(s)
            /\ UNCHANGED <<growing, wanted>>
  /\ UNCHANGED readPos

(* ensure_capacity(n), and then s is written: at once if there is room.    *)
Reserve(s, n) ==
  /\ growing = -1
  /\ writePos + n <= MaxRequired
  /\ IF n > available
       THEN /\ growing' = capacity
            /\ wanted' = [bytes |-> s, room |-> n]
            /\ UNCHANGED <<data, writePos>>
       ELSE /\ data' = Overwrite(data, writePos, s)
            /\ writePos' = writePos + Len(s)
            /\ UNCHANGED <<growing, wanted>>
  /\ UNCHANGED readPos

Write(s) == Reserve(s, Len(s))
EnsureCapacity(n) == Reserve(<<>>, n)

(* The caller fills in bytes at write_ptr() and calls advance_write().     *)
Fill(s) ==
  /\ growing = -1
  /\ Len(s) <= available
  /\ data' = Overwrite(data, writePos, s)
  /\ writePos' = writePos + Len(s)
  /\ UNCHANGED <<readPos, growing, wanted>>

Required == writePos + wanted.room

(* while (new_capacity < required) new_capacity *= 2 *)
GrowLoop ==
  /\ growing # -1
  /\ growing < Required
  /\ growing' = (2 * growing) % SizeLimit
  /\ UNCHANGED <<data, readPos, writePos, wanted>>

\* Fault: all the old memory is copied, but the positions start over.
GrowEnds_CopiesAll ==
  /\ growing # -1
  /\ growing >= Required
  /\ data' = Overwrite(Overwrite(Memory(growing), 0, data), Len(Contents), wanted.bytes)
  /\ readPos' = 0
  /\ writePos' = Len(Contents) + Len(wanted.bytes)
  /\ growing' = -1
  /\ wanted' = Nothing

(* The unread bytes move to the front of the new memory; write() goes on.  *)
GrowEnds ==
  /\ growing # -1
  /\ growing >= Required
  /\ data' = Overwrite(Overwrite(Memory(growing), 0, Contents), Len(Contents), wanted.bytes)
  /\ readPos' = 0
  /\ writePos' = Len(Contents) + Len(wanted.bytes)
  /\ growing' = -1
  /\ wanted' = Nothing

(* read() and advance_read(). *)
Read(n) ==
  /\ growing = -1
  /\ n <= Len(Contents)
  /\ readPos' = readPos + n
  /\ UNCHANGED <<data, writePos, growing, wanted>>

Compact ==
  /\ growing = -1
  /\ readPos # 0
  /\ data' = Overwrite(data, 0, Contents)
  /\ readPos' = 0
  /\ writePos' = Len(Contents)
  /\ UNCHANGED <<growing, wanted>>

\* Fault: the bytes can be read again.
Reset_Rewinds ==
  /\ growing = -1
  /\ readPos' = 0
  /\ UNCHANGED <<data, writePos, growing, wanted>>

(* reset() and clear(). *)
Reset ==
  /\ growing = -1
  /\ readPos' = 0
  /\ writePos' = 0
  /\ UNCHANGED <<data, growing, wanted>>

(* The buffer is moved from: its vector is empty. *)
MoveOut ==
  /\ Moves
  /\ growing = -1
  /\ data' = <<>>
  /\ readPos' = 0
  /\ writePos' = 0
  /\ UNCHANGED <<growing, wanted>>

(* A buffer constructed from bytes is moved in. *)
MoveIn(s) ==
  /\ Moves
  /\ growing = -1
  /\ data' = s
  /\ readPos' = 0
  /\ writePos' = Len(s)
  /\ UNCHANGED <<growing, wanted>>

Grow == GrowLoop \/ GrowEnds

BufferNext ==
  \/ \E s \in Inputs : Write(s) \/ Fill(s) \/ MoveIn(s)
  \/ \E n \in 0..MaxRequired : EnsureCapacity(n) \/ Read(n)
  \/ Grow \/ Compact \/ Reset \/ MoveOut

BufferSpec == BufferInit /\ [][BufferNext]_bufferVars

-----------------------------------------------------------------------------
\* Properties.

(* The positions are in order and inside of the memory: no byte is read    *)
(* that was not written, and none is written behind the end.               *)
TypeOK ==
  /\ data \in Seq(Bytes)
  /\ readPos \in Nat
  /\ writePos \in Nat
  /\ readPos <= writePos
  /\ writePos <= Len(data)
  /\ growing \in Nat \union {-1}
  /\ wanted \in [bytes : Seq(Bytes), room : Nat]
  /\ Len(wanted.bytes) <= wanted.room

\* The abstract specification of the buffer.
Queue == INSTANCE ByteQueue WITH queue <- Contents

(* A byte_buffer is a queue of bytes (ByteQueue): neither growing nor      *)
(* compacting, nor any mixture of reads and writes between them, loses,    *)
(* repeats or reorders what was written.                                   *)
IsQueue == Queue!Spec

-----------------------------------------------------------------------------
\* What the code does not keep.

(* A write that does not fit returns, under FairSpec of BufferPool: it     *)
(* does not in a buffer without memory, nor when more than half of         *)
(* SizeLimit is required, where the doubled capacity wraps to 0.           *)
GrowReturns == growing # -1 ~> growing = -1
=============================================================================
