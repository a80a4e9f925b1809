-------------------------- MODULE BufferPoolProofs --------------------------
(***************************************************************************)
(* Theorems about ByteBuffer, for any bytes, inputs and capacities, and    *)
(* about BufferPool, for any buffers, guards and pools.                    *)
(***************************************************************************)
EXTENDS BufferPool, SequenceTheorems, TLAPS

USE BufferAssumption DEF BufferAssumption

-----------------------------------------------------------------------------
\* The operators the buffer is built from.

(* Overwriting keeps the length of the memory. *)
LEMMA OverwriteIs ==
  ASSUME NEW d \in Seq(Bytes), NEW p \in Nat, NEW s \in Seq(Bytes)
  PROVE  /\ Overwrite(d, p, s) \in Seq(Bytes)
         /\ Len(Overwrite(d, p, s)) = Len(d)
         /\ \A i \in 1..Len(d) :
              Overwrite(d, p, s)[i] = IF i \in p + 1..p + Len(s) THEN s[i - p] ELSE d[i]
<1>1. \A i \in 1..Len(d) : (IF i \in p + 1..p + Len(s) THEN s[i - p] ELSE d[i]) \in Bytes
  <2> SUFFICES ASSUME NEW i \in 1..Len(d), i \in p + 1..p + Len(s)
               PROVE  s[i - p] \in Bytes
    OBVIOUS
  <2>1. i - p \in 1..Len(s)
    OBVIOUS
  <2> QED
    BY <2>1
<1>2. Overwrite(d, p, s) \in [1..Len(d) -> Bytes]
  BY <1>1 DEF Overwrite
<1>3. Len(d) \in Nat
  OBVIOUS
<1> QED
  BY <1>2, <1>3 DEF Overwrite

(* The memory of a capacity. *)
LEMMA MemoryIs ==
  ASSUME NEW n \in Nat
  PROVE  Memory(n) \in Seq(Bytes) /\ Len(Memory(n)) = n
BY DEF Memory

(* The unread bytes, one by one. *)
LEMMA ContentsIs ==
  ASSUME NEW d \in Seq(Bytes), NEW r \in Nat, NEW w \in Nat, r <= w, w <= Len(d)
  PROVE  /\ SubSeq(d, r + 1, w) \in Seq(Bytes)
         /\ Len(SubSeq(d, r + 1, w)) = w - r
         /\ \A i \in 1..w - r : SubSeq(d, r + 1, w)[i] = d[r + i]
<1>1. r + 1 \in Int /\ w \in Int
  OBVIOUS
<1>2. \A i \in r + 1..w : i \in 1..Len(d)
  OBVIOUS
<1>3. SubSeq(d, r + 1, w) \in Seq(Bytes)
  BY <1>1, <1>2, SubSeqProperties
<1>4. Len(SubSeq(d, r + 1, w)) = w - r
  BY <1>1, <1>2, SubSeqProperties
<1>5. ASSUME NEW i \in 1..w - r
      PROVE  SubSeq(d, r + 1, w)[i] = d[r + i]
  BY <1>1, <1>2, SubSeqProperties
<1> QED
  BY <1>3, <1>4, <1>5

-----------------------------------------------------------------------------
\* Types.

(* The unread bytes are those between the two positions. *)
LEMMA ContentsType ==
  ASSUME TypeOK
  PROVE  /\ Contents \in Seq(Bytes)
         /\ Len(Contents) = writePos - readPos
         /\ \A i \in 1..writePos - readPos : Contents[i] = data[readPos + i]
BY ContentsIs DEF TypeOK, Contents

(* What every call that writes at once does to the positions. *)
LEMMA WrittenType ==
  ASSUME TypeOK, NEW s \in Seq(Bytes), Len(s) <= available,
         data' = Overwrite(data, writePos, s), writePos' = writePos + Len(s),
         UNCHANGED <<readPos, growing, wanted>>
  PROVE  TypeOK'
<1>1. /\ Overwrite(data, writePos, s) \in Seq(Bytes)
      /\ Len(Overwrite(data, writePos, s)) = Len(data)
  BY OverwriteIs DEF TypeOK
<1>2. writePos + Len(s) <= Len(data) /\ Len(s) \in Nat
  BY DEF TypeOK, available, capacity
<1> QED
  BY <1>1, <1>2 DEF TypeOK

(* ensure_capacity(), with what is written into the room. *)
LEMMA ReserveType ==
  ASSUME TypeOK, NEW s \in Seq(Bytes), NEW n \in Nat, Len(s) <= n, Reserve(s, n)
  PROVE  TypeOK'
<1>1. CASE n > available
  BY <1>1 DEF Reserve, TypeOK, available, capacity
<1>2. CASE ~(n > available)
  <2>1. Len(s) <= available
    BY <1>2 DEF TypeOK, available, capacity
  <2> QED
    BY <1>2, <2>1, WrittenType DEF Reserve
<1> QED
  BY <1>1, <1>2

(* grow() ends with room for the unread bytes and the new ones. *)
LEMMA GrowEndsType ==
  ASSUME TypeOK, GrowEnds
  PROVE  /\ TypeOK'
         /\ Overwrite(Memory(growing), 0, Contents) \in Seq(Bytes)
         /\ Len(Overwrite(Memory(growing), 0, Contents)) = growing
<1> DEFINE moved == Overwrite(Memory(growing), 0, Contents)
<1>1. growing \in Nat /\ growing >= writePos + wanted.room
  BY DEF GrowEnds, TypeOK, Required
<1>2. wanted.bytes \in Seq(Bytes) /\ wanted.room \in Nat /\ Len(wanted.bytes) <= wanted.room
  BY DEF TypeOK
<1>3. moved \in Seq(Bytes) /\ Len(moved) = growing
  <2>1. Memory(growing) \in Seq(Bytes) /\ Len(Memory(growing)) = growing
    BY <1>1, MemoryIs
  <2>2. Contents \in Seq(Bytes) /\ 0 \in Nat
    BY ContentsType
  <2> QED
    BY <2>1, <2>2, OverwriteIs
<1>4. Len(Contents) \in Nat /\ Len(Contents) = writePos - readPos
  BY ContentsType
<1>5. /\ data' = Overwrite(moved, Len(Contents), wanted.bytes)
      /\ readPos' = 0
      /\ writePos' = Len(Contents) + Len(wanted.bytes)
      /\ growing' = -1
      /\ wanted' = Nothing
  BY DEF GrowEnds
<1>6. data' \in Seq(Bytes) /\ Len(data') = growing
  <2> HIDE DEF moved
  <2> QED
    BY <1>2, <1>3, <1>4, <1>5, OverwriteIs
<1>7. Len(wanted.bytes) \in Nat /\ writePos \in Nat /\ readPos \in Nat
  BY <1>2 DEF TypeOK
<1>8. writePos' \in Nat /\ readPos' <= writePos' /\ writePos' <= Len(data')
  BY <1>1, <1>2, <1>4, <1>5, <1>6, <1>7, SMTT(30)
<1>9. wanted' \in [bytes : Seq(Bytes), room : Nat] /\ Len(wanted'.bytes) <= wanted'.room
  BY <1>5 DEF Nothing
<1> QED
  BY <1>3, <1>5, <1>6, <1>8, <1>9 DEF TypeOK

(* compact(). *)
LEMMA CompactType ==
  ASSUME TypeOK, Compact
  PROVE  TypeOK'
<1>1. /\ Overwrite(data, 0, Contents) \in Seq(Bytes)
      /\ Len(Overwrite(data, 0, Contents)) = Len(data)
  <2>1. data \in Seq(Bytes) /\ Contents \in Seq(Bytes) /\ 0 \in Nat
    BY ContentsType DEF TypeOK
  <2> QED
    BY <2>1, OverwriteIs
<1>2. Len(Contents) \in Nat /\ Len(Contents) <= Len(data)
  BY ContentsType DEF TypeOK
<1> QED
  BY <1>1, <1>2 DEF Compact, TypeOK

(* No operation moves a position over the other one or out of the memory,  *)
(* and every write finds the room that it was granted.                     *)
LEMMA TypeInductive ==
  ASSUME TypeOK, [BufferNext]_bufferVars
  PROVE  TypeOK'
<1>1. ASSUME NEW s \in Inputs, Write(s) \/ Fill(s) \/ MoveIn(s)
      PROVE  TypeOK'
  <2>1. s \in Seq(Bytes) /\ Len(s) \in Nat
    OBVIOUS
  <2>2. CASE Write(s)
    BY <2>1, <2>2, ReserveType DEF Write
  <2>3. CASE Fill(s)
    BY <2>1, <2>3, WrittenType DEF Fill
  <2>4. CASE MoveIn(s)
    BY <2>1, <2>4 DEF MoveIn, TypeOK
  <2> QED
    BY <1>1, <2>2, <2>3, <2>4
<1>2. ASSUME NEW n \in 0..MaxRequired, EnsureCapacity(n) \/ Read(n)
      PROVE  TypeOK'
  <2>1. n \in Nat
    OBVIOUS
  <2>2. CASE EnsureCapacity(n)
    <3>1. <<>> \in Seq(Bytes) /\ Len(<<>>) <= n
      BY <2>1, EmptySeq
    <3>2. Reserve(<<>>, n)
      BY <2>2 DEF EnsureCapacity
    <3> QED
      BY <2>1, <3>1, <3>2, ReserveType
  <2>3. CASE Read(n)
    <3>1. n <= writePos - readPos
      BY <2>3, ContentsType DEF Read
    <3> QED
      BY <2>1, <2>3, <3>1 DEF Read, TypeOK
  <2> QED
    BY <1>2, <2>2, <2>3
<1>3. CASE GrowLoop
  BY <1>3 DEF GrowLoop, TypeOK
<1>4. CASE GrowEnds
  BY <1>4, GrowEndsType
<1>5. CASE Compact
  BY <1>5, CompactType
<1>6. CASE Reset
  BY <1>6 DEF Reset, TypeOK
<1>7. CASE MoveOut
  BY <1>7 DEF MoveOut, TypeOK
<1>8. CASE UNCHANGED bufferVars
  BY <1>8 DEF bufferVars, TypeOK
<1> QED
  BY <1>1, <1>2, <1>3, <1>4, <1>5, <1>6, <1>7, <1>8 DEF BufferNext, Grow

(* The positions of a byte_buffer stay in order and inside of its memory.  *)
THEOREM PositionsStayInside == BufferSpec => []TypeOK
<1>1. BufferInit => TypeOK
  BY MemoryIs DEF BufferInit, TypeOK, Nothing
<1>2. TypeOK /\ [BufferNext]_bufferVars => TypeOK'
  BY TypeInductive
<1> QED
  BY <1>1, <1>2, PTL DEF BufferSpec

-----------------------------------------------------------------------------
\* Implementing ByteQueue.

(* Bytes written behind the unread ones are appended to them. *)
LEMMA WindowPuts ==
  ASSUME NEW d \in Seq(Bytes), NEW r \in Nat, NEW w \in Nat, NEW s \in Seq(Bytes),
         r <= w, w + Len(s) <= Len(d)
  PROVE  SubSeq(Overwrite(d, w, s), r + 1, w + Len(s)) = SubSeq(d, r + 1, w) \o s
<1> DEFINE o == Overwrite(d, w, s)
           new == SubSeq(o, r + 1, w + Len(s))
           old == SubSeq(d, r + 1, w)
<1>1. /\ o \in Seq(Bytes) /\ Len(o) = Len(d)
      /\ \A i \in 1..Len(d) : o[i] = IF i \in w + 1..w + Len(s) THEN s[i - w] ELSE d[i]
  BY OverwriteIs
<1>2. Len(s) \in Nat /\ Len(d) \in Nat
  OBVIOUS
<1> HIDE DEF o
<1>3. w + Len(s) \in Nat /\ r <= w + Len(s) /\ w + Len(s) <= Len(o)
  BY <1>1, <1>2
<1>4. /\ new \in Seq(Bytes) /\ Len(new) = w + Len(s) - r
      /\ \A i \in 1..w + Len(s) - r : new[i] = o[r + i]
  BY <1>1, <1>3, ContentsIs
<1>5. w <= Len(d)
  BY <1>2
<1>6. /\ old \in Seq(Bytes) /\ Len(old) = w - r
      /\ \A i \in 1..w - r : old[i] = d[r + i]
  BY <1>5, ContentsIs
<1> HIDE DEF new, old
<1>7. /\ old \o s \in Seq(Bytes) /\ Len(old \o s) = w - r + Len(s)
      /\ \A i \in 1..w - r + Len(s) :
           (old \o s)[i] = IF i <= w - r THEN old[i] ELSE s[i - (w - r)]
  <2>1. /\ old \o s \in Seq(Bytes) /\ Len(old \o s) = Len(old) + Len(s)
        /\ \A i \in 1..Len(old) + Len(s) :
             (old \o s)[i] = IF i <= Len(old) THEN old[i] ELSE s[i - Len(old)]
    <3>1. old \in Seq(Bytes)
      BY <1>6
    <3> QED
      BY <3>1, ConcatProperties, Zenon
  <2> QED
    BY <1>6, <2>1, Zenon
<1>8. Len(new) = Len(old \o s)
  BY <1>2, <1>4, <1>7
<1>9. ASSUME NEW i \in 1..Len(new)
      PROVE  new[i] = (old \o s)[i]
  <2>1. i \in 1..w + Len(s) - r /\ r + i \in 1..Len(d)
    BY <1>1, <1>2, <1>3, <1>4
  <2>2. new[i] = IF r + i \in w + 1..w + Len(s) THEN s[r + i - w] ELSE d[r + i]
    BY <1>1, <1>4, <2>1
  <2>3. CASE i <= w - r
    <3>1. new[i] = d[r + i]
      BY <2>1, <2>2, <2>3
    <3>2. i \in 1..w - r /\ i \in 1..w - r + Len(s)
      BY <1>2, <2>1, <2>3
    <3> QED
      BY <1>6, <1>7, <2>3, <3>1, <3>2
  <2>4. CASE ~(i <= w - r)
    <3>1. r + i \in w + 1..w + Len(s) /\ r + i - w = i - (w - r)
      BY <1>2, <2>1, <2>4
    <3>2. i \in 1..w - r + Len(s)
      BY <1>2, <2>1
    <3> QED
      BY <1>7, <2>2, <2>4, <3>1, <3>2
  <2> QED
    BY <2>3, <2>4
<1>10. new = old \o s
  BY <1>4, <1>7, <1>8, <1>9, SeqEqual
<1> QED
  BY <1>10 DEF new, old, o

(* Bytes moved to the front are the unread ones there. *)
LEMMA WindowMoves ==
  ASSUME NEW d \in Seq(Bytes), NEW c \in Seq(Bytes), Len(c) <= Len(d)
  PROVE  SubSeq(Overwrite(d, 0, c), 1, Len(c)) = c
<1>1. PICK p \in Nat : p = 0
  OBVIOUS
<1>2. p <= p /\ p + Len(c) <= Len(d)
  BY <1>1
<1>3. SubSeq(Overwrite(d, p, c), p + 1, p + Len(c)) = SubSeq(d, p + 1, p) \o c
  BY <1>2, WindowPuts, Zenon
<1>4. SubSeq(d, p + 1, p) = <<>>
  BY <1>1, SubSeqEmpty
<1>5. <<>> \o c = c
  BY ConcatEmptySeq
<1>6. p + 1 = 1 /\ p + Len(c) = Len(c)
  BY <1>1
<1> QED
  BY <1>1, <1>3, <1>4, <1>5, <1>6

(* Bytes that are read leave at the front. *)
LEMMA WindowGets ==
  ASSUME NEW d \in Seq(Bytes), NEW r \in Nat, NEW w \in Nat, NEW n \in Nat,
         w <= Len(d), r + n <= w
  PROVE  SubSeq(d, r + n + 1, w)
           = SubSeq(SubSeq(d, r + 1, w), n + 1, Len(SubSeq(d, r + 1, w)))
<1> DEFINE old == SubSeq(d, r + 1, w)
           left == SubSeq(d, r + n + 1, w)
           rest == SubSeq(old, n + 1, Len(old))
<1>1. /\ old \in Seq(Bytes) /\ Len(old) = w - r
      /\ \A i \in 1..w - r : old[i] = d[r + i]
  BY ContentsIs
<1>2. r + n \in Nat
  OBVIOUS
<1>3. /\ left \in Seq(Bytes) /\ Len(left) = w - (r + n)
      /\ \A i \in 1..w - (r + n) : left[i] = d[r + n + i]
  BY <1>2, ContentsIs
<1> HIDE DEF old, left
<1>4. n <= Len(old) /\ Len(old) \in Nat
  BY <1>1
<1>5. /\ rest \in Seq(Bytes) /\ Len(rest) = Len(old) - n
      /\ \A i \in 1..Len(old) - n : rest[i] = old[n + i]
  BY <1>1, <1>4, ContentsIs
<1> HIDE DEF rest
<1>6. ASSUME NEW i \in 1..Len(left)
      PROVE  left[i] = rest[i]
  <2>1. i \in 1..w - (r + n) /\ i \in 1..Len(old) - n /\ n + i \in 1..w - r
    BY <1>1, <1>3
  <2>2. left[i] = d[r + n + i] /\ rest[i] = old[n + i] /\ old[n + i] = d[r + (n + i)]
    BY <1>1, <1>3, <1>5, <2>1
  <2>3. r + n + i = r + (n + i)
    OBVIOUS
  <2> QED
    BY <2>2, <2>3
<1>7. Len(left) = Len(rest)
  BY <1>1, <1>3, <1>5, SMTT(30)
<1>8. left = rest
  BY <1>3, <1>5, <1>6, <1>7, SeqEqual
<1> QED
  BY <1>8 DEF left, rest, old

(* The bytes that grow() will write are one of the inputs, or none. *)
WantedInv == wanted.bytes \in Inputs \union {<<>>}

(* What grow() is about to write stays one of the inputs. *)
LEMMA WantedInductive ==
  ASSUME TypeOK, WantedInv, [BufferNext]_bufferVars
  PROVE  WantedInv'
<1> USE DEF WantedInv
<1>1. ASSUME NEW s \in Inputs \union {<<>>}, NEW n, Reserve(s, n)
      PROVE  WantedInv'
  <2>1. wanted' \in {wanted, [bytes |-> s, room |-> n]}
    BY <1>1 DEF Reserve
  <2> QED
    BY <2>1
<1>2. CASE GrowEnds
  BY <1>2 DEF GrowEnds, Nothing
<1>3. CASE wanted' = wanted
  BY <1>3
<1>4. \/ \E s \in Inputs : Reserve(s, Len(s))
      \/ \E n \in 0..MaxRequired : Reserve(<<>>, n)
      \/ GrowEnds
      \/ wanted' = wanted
  BY DEF BufferNext, Write, EnsureCapacity, Grow, Fill, MoveIn, Read, GrowLoop, Compact,
         Reset, MoveOut, bufferVars
<1> QED
  BY <1>1, <1>2, <1>3, <1>4

(* A write that finds room appends its bytes. *)
LEMMA WrittenPuts ==
  ASSUME TypeOK, NEW s \in Seq(Bytes), Len(s) <= available,
         data' = Overwrite(data, writePos, s), writePos' = writePos + Len(s),
         readPos' = readPos
  PROVE  Contents' = Contents \o s
<1>1. writePos + Len(s) <= Len(data)
  BY DEF TypeOK, available, capacity
<1>2. SubSeq(Overwrite(data, writePos, s), readPos + 1, writePos + Len(s)) = Contents \o s
  <2>1. data \in Seq(Bytes) /\ readPos \in Nat /\ writePos \in Nat /\ readPos <= writePos
    BY DEF TypeOK
  <2>2. SubSeq(Overwrite(data, writePos, s), readPos + 1, writePos + Len(s))
          = SubSeq(data, readPos + 1, writePos) \o s
    BY <1>1, <2>1, WindowPuts
  <2> QED
    BY <2>2 DEF Contents
<1>3. Contents' = SubSeq(data', readPos' + 1, writePos')
  BY DEF Contents
<1> QED
  BY <1>2, <1>3

(* A write appends its bytes, or nothing while it has to grow first. *)
LEMMA ReservePuts ==
  ASSUME TypeOK, NEW s \in Seq(Bytes), NEW n \in Nat, Len(s) <= n, Reserve(s, n)
  PROVE  Contents' \in {Contents, Contents \o s}
<1>1. CASE n > available
  BY <1>1 DEF Reserve, Contents
<1>2. CASE ~(n > available)
  <2>1. Len(s) <= available
    BY <1>2 DEF TypeOK, available, capacity
  <2> QED
    BY <1>2, <2>1, WrittenPuts DEF Reserve
<1> QED
  BY <1>1, <1>2

(* grow() moves the unread bytes and appends those of the write.           *)
LEMMA GrowEndsPuts ==
  ASSUME TypeOK, GrowEnds
  PROVE  Contents' = Contents \o wanted.bytes
<1> DEFINE moved == Overwrite(Memory(growing), 0, Contents)
           k == Len(Contents)
<1>1. PICK r \in Nat : r = 0
  OBVIOUS
<1>2. moved \in Seq(Bytes) /\ Len(moved) = growing
  BY GrowEndsType
<1>3. k \in Nat /\ r <= k /\ wanted.bytes \in Seq(Bytes)
  BY <1>1, ContentsType DEF TypeOK
<1>4. k + Len(wanted.bytes) <= growing
  <2>1. growing \in Nat /\ growing >= writePos + wanted.room
    BY DEF GrowEnds, TypeOK, Required
  <2>2. k <= writePos
    BY ContentsType DEF TypeOK
  <2> QED
    BY <1>3, <2>1, <2>2 DEF TypeOK
<1>5. SubSeq(moved, 1, k) = Contents
  <2>1. growing \in Nat
    BY <1>2
  <2>2. Memory(growing) \in Seq(Bytes) /\ k <= Len(Memory(growing))
    BY <1>3, <1>4, <2>1, MemoryIs
  <2> QED
    BY <2>2, ContentsType, WindowMoves
<1>6. /\ data' = Overwrite(moved, k, wanted.bytes)
      /\ readPos' = 0
      /\ writePos' = k + Len(wanted.bytes)
  BY DEF GrowEnds
<1> HIDE DEF moved, k
<1>7. SubSeq(Overwrite(moved, k, wanted.bytes), r + 1, k + Len(wanted.bytes))
        = SubSeq(moved, r + 1, k) \o wanted.bytes
  BY <1>2, <1>3, <1>4, WindowPuts
<1>8. r + 1 = 1 /\ readPos' + 1 = 1
  BY <1>1, <1>6
<1>9. Contents' = SubSeq(data', readPos' + 1, writePos')
  BY DEF Contents
<1> QED
  BY <1>5, <1>6, <1>7, <1>8, <1>9

(* compact() moves the unread bytes and changes none of them. *)
LEMMA CompactKeeps ==
  ASSUME TypeOK, Compact
  PROVE  Contents' = Contents
<1>1. Len(Contents) <= Len(data)
  BY ContentsType DEF TypeOK
<1>2. SubSeq(Overwrite(data, 0, Contents), 1, Len(Contents)) = Contents
  BY <1>1, ContentsType, WindowMoves DEF TypeOK
<1>3. Contents' = SubSeq(data', readPos' + 1, writePos')
  BY DEF Contents
<1>4. data' = Overwrite(data, 0, Contents) /\ readPos' + 1 = 1 /\ writePos' = Len(Contents)
  BY DEF Compact
<1> QED
  BY <1>2, <1>3, <1>4

(* Bytes are read from the front; reset() and a move discard them all. *)
LEMMA ReadGets ==
  ASSUME TypeOK, NEW n \in Nat, Read(n)
  PROVE  Contents' = SubSeq(Contents, n + 1, Len(Contents))
<1>1. n <= writePos - readPos
  BY ContentsType DEF Read
<1>2. SubSeq(data, readPos + n + 1, writePos) = SubSeq(Contents, n + 1, Len(Contents))
  BY <1>1, WindowGets DEF TypeOK, Contents
<1> QED
  BY <1>2 DEF Read, Contents

(* reset() reads everything. *)
LEMMA DiscardGets ==
  ASSUME TypeOK, readPos' = 0, writePos' = 0
  PROVE  Contents' = SubSeq(Contents, Len(Contents) + 1, Len(Contents))
<1>1. Len(Contents) \in Nat
  BY ContentsType
<1>2. SubSeq(Contents, Len(Contents) + 1, Len(Contents)) = <<>>
  BY <1>1, SubSeqEmpty
<1>3. Contents' = SubSeq(data', readPos' + 1, writePos')
  BY DEF Contents
<1>4. SubSeq(data', readPos' + 1, writePos') = <<>>
  BY SubSeqEmpty
<1> QED
  BY <1>2, <1>3, <1>4

(* Every step of the buffer is one of the queue, or leaves it as it is.    *)
LEMMA StepImplements ==
  ASSUME TypeOK, WantedInv, [BufferNext]_bufferVars
  PROVE  [Queue!Next]_Contents
<1>1. ASSUME NEW s \in Inputs, Contents' = Contents \o s
      PROVE  Queue!Next
  BY <1>1 DEF Queue!Next, Queue!Put
<1>2. ASSUME NEW n \in 0..Len(Contents), Contents' = SubSeq(Contents, n + 1, Len(Contents))
      PROVE  Queue!Next
  BY <1>2 DEF Queue!Next, Queue!Get
<1>3. Contents \in Seq(Bytes) /\ Len(Contents) \in Nat
  BY ContentsType
<1>4. ASSUME NEW s \in Inputs, Write(s) \/ Fill(s)
      PROVE  [Queue!Next]_Contents
  <2>1. s \in Seq(Bytes) /\ Len(s) \in Nat /\ Len(s) <= Len(s)
    OBVIOUS
  <2>2. Contents' \in {Contents, Contents \o s}
    BY <1>4, <2>1, ReservePuts, WrittenPuts DEF Write, Fill
  <2> QED
    BY <1>1, <2>2
<1>5. ASSUME NEW s \in Inputs, MoveIn(s)
      PROVE  Queue!Next
  <2>1. SubSeq(s, 1, Len(s)) = s
    BY SubSeqFull
  <2>2. Contents' = s
    BY <1>5, <2>1 DEF MoveIn, Contents
  <2> QED
    BY <2>2 DEF Queue!Next, Queue!Replace
<1>6. ASSUME NEW n \in 0..MaxRequired, EnsureCapacity(n)
      PROVE  Contents' = Contents
  <2>1. n \in Nat /\ <<>> \in Seq(Bytes) /\ Len(<<>>) <= n
    BY EmptySeq
  <2>2. Reserve(<<>>, n)
    BY <1>6 DEF EnsureCapacity
  <2>3. Contents' \in {Contents, Contents \o <<>>}
    BY <2>1, <2>2, ReservePuts
  <2> QED
    BY <1>3, <2>3, ConcatEmptySeq
<1>7. ASSUME NEW n \in 0..MaxRequired, Read(n)
      PROVE  Queue!Next
  <2>1. n \in 0..Len(Contents)
    BY <1>3, <1>7 DEF Read
  <2> QED
    BY <1>2, <1>7, <2>1, ReadGets
<1>8. CASE GrowEnds
  <2>1. Contents' = Contents \o wanted.bytes
    BY <1>8, GrowEndsPuts
  <2>2. CASE wanted.bytes \in Inputs
    BY <1>1, <2>1, <2>2
  <2>3. CASE wanted.bytes = <<>>
    BY <1>3, <2>1, <2>3, ConcatEmptySeq
  <2> QED
    BY <2>2, <2>3 DEF WantedInv
<1>9. CASE Compact
  BY <1>9, CompactKeeps
<1>10. CASE Reset \/ MoveOut
  <2>1. Len(Contents) \in 0..Len(Contents)
    BY <1>3
  <2> QED
    BY <1>2, <1>10, <2>1, DiscardGets DEF Reset, MoveOut
<1>11. CASE GrowLoop \/ UNCHANGED bufferVars
  BY <1>11 DEF GrowLoop, bufferVars, Contents
<1> QED
  BY <1>4, <1>5, <1>6, <1>7, <1>8, <1>9, <1>10, <1>11 DEF BufferNext, Grow

(* byte_buffer is a queue of bytes: whatever is written, read, grown,      *)
(* compacted and moved, the bytes come out once and in order.              *)
THEOREM ImplementsQueue == BufferSpec => IsQueue
<1>1. BufferInit => TypeOK /\ WantedInv /\ Queue!Init
  <2> SUFFICES ASSUME BufferInit PROVE TypeOK /\ WantedInv /\ Queue!Init
    OBVIOUS
  <2>1. TypeOK
    BY MemoryIs DEF BufferInit, TypeOK, Nothing
  <2>2. WantedInv
    BY DEF BufferInit, WantedInv, Nothing
  <2>3. Contents = <<>>
    BY SubSeqEmpty DEF BufferInit, Contents
  <2> QED
    BY <2>1, <2>2, <2>3 DEF Queue!Init
<1>2. TypeOK /\ WantedInv /\ [BufferNext]_bufferVars => TypeOK' /\ WantedInv'
  BY TypeInductive, WantedInductive
<1>3. TypeOK /\ WantedInv /\ [BufferNext]_bufferVars => [Queue!Next]_Contents
  BY StepImplements
<1> QED
  BY <1>1, <1>2, <1>3, PTL DEF BufferSpec, IsQueue, Queue!Spec

-----------------------------------------------------------------------------
\* The pools: the inductive invariant.

USE PoolAssumption DEF PoolAssumption

PoolTypeOK ==
  /\ pool \in [Pools -> Seq(Buffers)]
  /\ held \in [Guards -> Buffers \union {NoBuffer}]
  /\ home \in [Guards -> Pools]
  /\ loose \subseteq Buffers

\* Who has a buffer is the only one who has it.
OwnedOnce ==
  /\ \A g, h \in Guards : held[g] = held[h] /\ held[g] # NoBuffer => g = h
  /\ \A g \in Guards : held[g] \notin loose

\* No call runs in a buffer that nobody has.
RestsUnowned == ~Owned(Tracked) => growing = -1

PoolInv ==
  /\ TypeOK
  /\ WantedInv
  /\ PoolTypeOK
  /\ BuffersAreOwned
  /\ RestsUnowned

-----------------------------------------------------------------------------
\* The stacks of the pools, as values.

In(P, b) == \E p \in Pools : \E i \in 1..Len(P[p]) : P[p][i] = b

Once(P) ==
  \A p, q \in Pools : \A i \in 1..Len(P[p]), j \in 1..Len(P[q]) :
    P[p][i] = P[q][j] => p = q /\ i = j

Most(p) == IF Config[p].initial > Config[p].max THEN Config[p].initial ELSE Config[p].max

(* A slot is a pool and a place in its stack. *)
LEMMA SlotIs ==
  ASSUME NEW P \in [Pools -> Seq(Buffers)], NEW s
  PROVE  s \in UNION {{<<p, i>> : i \in DOMAIN P[p]} : p \in Pools}
           <=> \E p \in Pools : \E i \in 1..Len(P[p]) : s = <<p, i>>
<1>1. \A p \in Pools : DOMAIN P[p] = 1..Len(P[p])
  OBVIOUS
<1> QED
  BY <1>1

(* A buffer is on the stacks, and once, in either way to say it. *)
LEMMA SlotsOf ==
  ASSUME NEW P \in [Pools -> Seq(Buffers)],
         NEW S, S = UNION {{<<p, i>> : i \in DOMAIN P[p]} : p \in Pools}
  PROVE  /\ \A b : (\E s \in S : P[s[1]][s[2]] = b) <=> In(P, b)
         /\ (\A s, t \in S : P[s[1]][s[2]] = P[t[1]][t[2]] => s = t) <=> Once(P)
<1>1. \A s : s \in S <=> \E p \in Pools : \E i \in 1..Len(P[p]) : s = <<p, i>>
  BY SlotIs
<1>2. ASSUME NEW b
      PROVE  (\E s \in S : P[s[1]][s[2]] = b) <=> In(P, b)
  <2>1. ASSUME NEW s \in S, P[s[1]][s[2]] = b
        PROVE  In(P, b)
    <3>1. PICK p \in Pools : \E i \in 1..Len(P[p]) : s = <<p, i>>
      BY <1>1
    <3> QED
      BY <2>1, <3>1 DEF In
  <2>2. ASSUME NEW p \in Pools, NEW i \in 1..Len(P[p]), P[p][i] = b
        PROVE  \E s \in S : P[s[1]][s[2]] = b
    <3>1. <<p, i>> \in S /\ P[<<p, i>>[1]][<<p, i>>[2]] = b
      BY <1>1, <2>2
    <3> QED
      BY <3>1
  <2> QED
    BY <2>1, <2>2 DEF In
<1>3. ASSUME \A s, t \in S : P[s[1]][s[2]] = P[t[1]][t[2]] => s = t
      PROVE  Once(P)
  <2> SUFFICES ASSUME NEW p \in Pools, NEW q \in Pools,
                      NEW i \in 1..Len(P[p]), NEW j \in 1..Len(P[q]), P[p][i] = P[q][j]
               PROVE  p = q /\ i = j
    BY DEF Once
  <2>1. /\ <<p, i>> \in S /\ <<q, j>> \in S
        /\ P[<<p, i>>[1]][<<p, i>>[2]] = P[<<q, j>>[1]][<<q, j>>[2]]
    BY <1>1
  <2>2. <<p, i>> = <<q, j>>
    BY <1>3, <2>1
  <2> QED
    BY <2>2
<1>4. ASSUME Once(P), NEW s \in S, NEW t \in S, P[s[1]][s[2]] = P[t[1]][t[2]]
      PROVE  s = t
  <2>1. PICK p \in Pools : \E i \in 1..Len(P[p]) : s = <<p, i>>
    BY <1>1
  <2>2. PICK i \in 1..Len(P[p]) : s = <<p, i>>
    BY <2>1
  <2>3. PICK q \in Pools : \E j \in 1..Len(P[q]) : t = <<q, j>>
    BY <1>1
  <2>4. PICK j \in 1..Len(P[q]) : t = <<q, j>>
    BY <2>3
  <2>5. P[p][i] = P[q][j]
    BY <1>4, <2>2, <2>4
  <2> QED
    BY <1>4, <2>2, <2>4, <2>5 DEF Once
<1> QED
  BY <1>2, <1>3, <1>4

(* The pools as rigid stacks, so that what is proved of stacks applies, *)
LEMMA StacksAre ==
  ASSUME pool \in [Pools -> Seq(Buffers)]
  PROVE  /\ \A b : Pooled(b) <=> In(pool, b)
         /\ Distinct <=> Once(pool)
BY SlotsOf DEF Pooled, Distinct, Slots, At

(* and the same of the next state. *)
LEMMA StacksWillBe ==
  ASSUME pool' \in [Pools -> Seq(Buffers)]
  PROVE  /\ \A b : Pooled(b)' <=> In(pool', b)
         /\ Distinct' <=> Once(pool')
BY SlotsOf DEF Pooled, Distinct, Slots, At

(* The last buffer of a stack is the one taken from it. *)
LEMMA Popped ==
  ASSUME NEW P \in [Pools -> Seq(Buffers)], NEW p \in Pools, P[p] # <<>>, Once(P),
         NEW Q, Q = [P EXCEPT ![p] = SubSeq(P[p], 1, Len(P[p]) - 1)]
  PROVE  /\ Q \in [Pools -> Seq(Buffers)]
         /\ Once(Q)
         /\ P[p][Len(P[p])] \in Buffers
         /\ In(P, P[p][Len(P[p])])
         /\ ~In(Q, P[p][Len(P[p])])
         /\ \A c : In(Q, c) => In(P, c)
         /\ \A q \in Pools : Len(Q[q]) <= Len(P[q])
<1> DEFINE n == Len(P[p])
           rest == SubSeq(P[p], 1, n - 1)
<1>1. n \in Nat /\ n # 0 /\ n \in 1..n
  <2>1. n \in Nat
    OBVIOUS
  <2>2. n # 0
    BY EmptySeq
  <2> QED
    BY <2>1, <2>2
<1>2. /\ rest \in Seq(Buffers) /\ Len(rest) = n - 1
      /\ \A i \in 1..n - 1 : rest[i] = P[p][i]
  <2>1. \A i \in 1..n - 1 : P[p][i] \in Buffers
    BY <1>1
  <2>2. 1 \in Int /\ n - 1 \in Int
    BY <1>1
  <2>3. /\ rest \in Seq(Buffers)
        /\ Len(rest) = IF 1 <= n - 1 THEN n - 1 - 1 + 1 ELSE 0
        /\ \A i \in 1..n - 1 - 1 + 1 : rest[i] = P[p][1 + i - 1]
    BY <2>1, <2>2, SubSeqProperties
  <2> HIDE DEF rest
  <2>4. n - 1 - 1 + 1 = n - 1 /\ \A i \in 1..n - 1 : 1 + i - 1 = i
    BY <1>1
  <2>5. Len(rest) = n - 1
    <3> HIDE DEF n
    <3>1. CASE 1 <= n - 1
      BY <1>1, <2>3, <3>1
    <3>2. CASE ~(1 <= n - 1)
      <4>1. Len(rest) = 0
        BY <2>3, <3>2
      <4>2. n = 1
        BY <1>1, <3>2
      <4> QED
        BY <4>1, <4>2
    <3> QED
      BY <3>1, <3>2
  <2>6. ASSUME NEW i \in 1..n - 1
        PROVE  rest[i] = P[p][i]
    BY <2>3, <2>4
  <2> QED
    BY <2>3, <2>5, <2>6
<1>3. Q[p] = rest /\ \A q \in Pools : q # p => Q[q] = P[q]
  OBVIOUS
<1>4. Q \in [Pools -> Seq(Buffers)]
  BY <1>2
<1> HIDE DEF n, rest
<1>5. ASSUME NEW q \in Pools
      PROVE  /\ Len(Q[q]) <= Len(P[q])
             /\ \A i \in 1..Len(Q[q]) : i \in 1..Len(P[q]) /\ Q[q][i] = P[q][i]
  <2>1. CASE q = p
    BY <1>1, <1>2, <1>3, <2>1 DEF n
  <2>2. CASE q # p
    BY <1>3, <2>2
  <2> QED
    BY <2>1, <2>2
<1>6. Once(Q)
  BY <1>5, SMTT(20) DEF Once
<1>7. \A c : In(Q, c) => In(P, c)
  BY <1>5 DEF In
<1>8. In(P, P[p][n]) /\ P[p][n] \in Buffers
  BY <1>1 DEF In, n
<1>9. ASSUME NEW q \in Pools, NEW i \in 1..Len(Q[q]), Q[q][i] = P[p][n]
      PROVE  FALSE
  <2>1. i \in 1..Len(P[q]) /\ P[q][i] = P[p][n]
    BY <1>5, <1>9
  <2>2. q = p /\ i = n
    BY <1>1, <2>1 DEF Once, n
  <2> QED
    BY <1>1, <1>2, <1>3, <2>2
<1> QED
  BY <1>4, <1>5, <1>6, <1>7, <1>8, <1>9 DEF n, In

\* The stacks Q are the stacks P with b on top of the one of p.
OnTop(P, p, b, Q) ==
  /\ Len(Q[p]) = Len(P[p]) + 1
  /\ \A i \in 1..Len(P[p]) : Q[p][i] = P[p][i]
  /\ Q[p][Len(P[p]) + 1] = b
  /\ \A q \in Pools : q # p => Q[q] = P[q]

(* A buffer that is in no stack may be put on one. *)
LEMMA Pushed ==
  ASSUME NEW P \in [Pools -> Seq(Buffers)], NEW p \in Pools, NEW b,
         Once(P), ~In(P, b),
         NEW Q \in [Pools -> Seq(Buffers)], OnTop(P, p, b, Q)
  PROVE  /\ Once(Q)
         /\ \A c : In(Q, c) => In(P, c) \/ c = b
<1> DEFINE n == Len(P[p])
<1>1. /\ n \in Nat
      /\ Len(Q[p]) = n + 1
      /\ \A i \in 1..n : Q[p][i] = P[p][i]
      /\ Q[p][n + 1] = b
  BY DEF OnTop
<1>2. \A q \in Pools : q # p => Q[q] = P[q]
  BY DEF OnTop
<1> HIDE DEF n
<1>3. ASSUME NEW q \in Pools, NEW i \in 1..Len(Q[q])
      PROVE  \/ i \in 1..Len(P[q]) /\ Q[q][i] = P[q][i]
             \/ q = p /\ i = n + 1 /\ Q[q][i] = b
  <2>1. CASE q # p
    BY <1>2, <2>1
  <2>2. CASE q = p /\ i \in 1..n
    BY <1>1, <1>2, <2>2 DEF n
  <2>3. CASE q = p /\ i = n + 1
    BY <1>1, <1>2, <2>3
  <2> QED
    BY <1>1, <1>2, <2>1, <2>2, <2>3
<1>4. \A q \in Pools : \A i \in 1..Len(P[q]) : P[q][i] # b
  BY DEF In
<1>5. Once(Q)
  <2> SUFFICES ASSUME NEW q \in Pools, NEW r \in Pools,
                      NEW i \in 1..Len(Q[q]), NEW j \in 1..Len(Q[r]), Q[q][i] = Q[r][j]
               PROVE  q = r /\ i = j
    BY DEF Once
  <2>1. \/ i \in 1..Len(P[q]) /\ Q[q][i] = P[q][i]
        \/ q = p /\ i = n + 1 /\ Q[q][i] = b
    BY <1>3
  <2>2. \/ j \in 1..Len(P[r]) /\ Q[r][j] = P[r][j]
        \/ r = p /\ j = n + 1 /\ Q[r][j] = b
    BY <1>3
  <2>3. CASE i \in 1..Len(P[q]) /\ j \in 1..Len(P[r]) /\ P[q][i] = P[r][j]
    BY <2>3 DEF Once
  <2> QED
    BY <1>4, <2>1, <2>2, <2>3
<1>6. \A c : In(Q, c) => In(P, c) \/ c = b
  BY <1>3 DEF In
<1> QED
  BY <1>5, <1>6

(* clear() empties one stack. *)
LEMMA Cleared ==
  ASSUME NEW P \in [Pools -> Seq(Buffers)], NEW p \in Pools, Once(P),
         NEW Q, Q = [P EXCEPT ![p] = <<>>]
  PROVE  /\ Q \in [Pools -> Seq(Buffers)]
         /\ Once(Q)
         /\ \A c : In(Q, c) => In(P, c)
         /\ \A q \in Pools : Len(Q[q]) <= Len(P[q])
<1>1. <<>> \in Seq(Buffers) /\ Len(<<>>) = 0
  BY EmptySeq
<1>2. Q[p] = <<>> /\ \A q \in Pools : q # p => Q[q] = P[q]
  OBVIOUS
<1>3. Q \in [Pools -> Seq(Buffers)]
  BY <1>1
<1>4. ASSUME NEW q \in Pools
      PROVE  /\ Len(Q[q]) <= Len(P[q])
             /\ \A i \in 1..Len(Q[q]) : q # p
  BY <1>1, <1>2
<1>5. Once(Q)
  <2> SUFFICES ASSUME NEW q \in Pools, NEW r \in Pools,
                      NEW i \in 1..Len(Q[q]), NEW j \in 1..Len(Q[r]), Q[q][i] = Q[r][j]
               PROVE  q = r /\ i = j
    BY DEF Once
  <2>1. q # p /\ r # p
    BY <1>4
  <2> QED
    BY <1>2, <2>1 DEF Once
<1>6. \A c : In(Q, c) => In(P, c)
  BY <1>2, <1>4 DEF In
<1> QED
  BY <1>3, <1>4, <1>5, <1>6

-----------------------------------------------------------------------------
\* The bytes of a buffer that changes hands.

(* acquire() and release() leave a buffer without bytes, to its users a    *)
(* queue whose bytes were discarded.                                       *)
LEMMA Emptied ==
  ASSUME TypeOK, WantedInv, NEW b, NEW n \in Nat, ResetBuffer(b) \/ Renewed(b, n)
  PROVE  /\ TypeOK'
         /\ WantedInv'
         /\ [Queue!Next]_Contents
         /\ growing' = growing
         /\ b = Tracked => growing = -1 /\ Contents' = <<>>
<1>1. CASE b # Tracked
  BY <1>1 DEF ResetBuffer, Renewed, bufferVars, TypeOK, WantedInv, Contents
<1>2. CASE b = Tracked
  <2>1. /\ growing = -1
        /\ data' \in {data, Memory(n)}
        /\ readPos' = 0
        /\ writePos' = 0
        /\ UNCHANGED <<growing, wanted>>
    BY <1>2 DEF ResetBuffer, Renewed, Reset, Quiet
  <2>2. data' \in Seq(Bytes) /\ Len(data') \in Nat
    BY <2>1, MemoryIs DEF TypeOK
  <2>3. TypeOK' /\ WantedInv'
    BY <2>1, <2>2 DEF TypeOK, WantedInv
  <2>4. Contents' = SubSeq(Contents, Len(Contents) + 1, Len(Contents))
    BY <2>1, DiscardGets
  <2>5. Len(Contents) \in 0..Len(Contents)
    BY ContentsType
  <2>6. Queue!Next
    BY <2>4, <2>5 DEF Queue!Next, Queue!Get
  <2>7. SubSeq(data', 1, 0) = <<>>
    BY SubSeqEmpty
  <2>8. Contents' = <<>>
    BY <2>1, <2>7 DEF Contents
  <2> QED
    BY <2>1, <2>3, <2>6, <2>8
<1> QED
  BY <1>1, <1>2

(* The numbers of a configuration. *)
LEMMA CapacityOfPool ==
  ASSUME NEW p \in Pools
  PROVE  /\ Config[p].capacity \in Nat
         /\ Config[p].initial \in Nat
         /\ Config[p].max \in Nat
         /\ Most(p) \in Nat /\ Config[p].initial <= Most(p) /\ Config[p].max <= Most(p)
<1>1. Config[p] \in [initial : Nat, max : Nat, capacity : Capacities]
  OBVIOUS
<1>2. Config[p].capacity \in Nat /\ Config[p].initial \in Nat /\ Config[p].max \in Nat
  BY <1>1
<1> QED
  BY <1>2 DEF Most

-----------------------------------------------------------------------------
\* acquire() and release().

(* acquire() hands out a buffer that nobody has, without bytes, and it is  *)
(* not in the pools any more.                                              *)
LEMMA AcquireFromStep ==
  ASSUME PoolInv, NEW p \in Pools, NEW b \in Buffers, AcquireFrom(p, b)
  PROVE  /\ pool' \in [Pools -> Seq(Buffers)]
         /\ Distinct'
         /\ PoolBounded'
         /\ ~Owned(b)
         /\ ~Pooled(b)'
         /\ \A c : Pooled(c)' => Pooled(c)
         /\ TypeOK' /\ WantedInv' /\ [Queue!Next]_Contents
         /\ growing' = growing
         /\ b = Tracked => growing = -1 /\ Contents' = <<>>
<1>1. /\ pool \in [Pools -> Seq(Buffers)]
      /\ \A c : Pooled(c) <=> In(pool, c)
      /\ Once(pool)
      /\ \A c \in Buffers : ~(Pooled(c) /\ Owned(c))
      /\ \A q \in Pools : Len(pool[q]) <= Most(q)
  BY StacksAre DEF PoolInv, PoolTypeOK, BuffersAreOwned, OneOwner, PoolBounded, Most
<1>2. TypeOK /\ WantedInv
  BY DEF PoolInv
<1>3. CASE pool[p] # <<>> /\ b = pool[p][Len(pool[p])]
           /\ pool' = [pool EXCEPT ![p] = SubSeq(@, 1, Len(@) - 1)] /\ ResetBuffer(b)
  <2>1. /\ pool' \in [Pools -> Seq(Buffers)]
        /\ Once(pool')
        /\ In(pool, b)
        /\ ~In(pool', b)
        /\ \A c : In(pool', c) => In(pool, c)
        /\ \A q \in Pools : Len(pool'[q]) <= Len(pool[q])
    <3>1. pool' = [pool EXCEPT ![p] = SubSeq(pool[p], 1, Len(pool[p]) - 1)]
      BY <1>3
    <3> QED
      BY <1>1, <1>3, <3>1, Popped
  <2>2. Distinct' /\ ~Pooled(b)' /\ \A c : Pooled(c)' => Pooled(c)
    BY <1>1, <2>1, StacksWillBe
  <2>3. PoolBounded'
    <3>1. \A q \in Pools : Len(pool[q]) \in Nat /\ Len(pool'[q]) \in Nat /\ Most(q) \in Nat
      BY <1>1, <2>1, CapacityOfPool
    <3>2. \A q \in Pools : Len(pool'[q]) <= Most(q)
      BY <1>1, <2>1, <3>1
    <3> QED
      BY <3>2 DEF PoolBounded, Most
  <2>4. ~Owned(b)
    BY <1>1, <2>1
  <2>5. /\ TypeOK' /\ WantedInv' /\ [Queue!Next]_Contents
        /\ growing' = growing
        /\ b = Tracked => growing = -1 /\ Contents' = <<>>
    <3>1. 0 \in Nat
      OBVIOUS
    <3> QED
      BY <1>2, <1>3, <3>1, Emptied
  <2> QED
    BY <2>1, <2>2, <2>3, <2>4, <2>5
<1>4. CASE ~Exists(b) /\ Construct(b, p) /\ pool' = pool
  <2>1. /\ pool' \in [Pools -> Seq(Buffers)]
        /\ \A c : Pooled(c)' <=> Pooled(c)
        /\ Distinct'
    BY <1>1, <1>4, StacksWillBe
  <2>2. PoolBounded'
    BY <1>4 DEF PoolInv, BuffersAreOwned, PoolBounded
  <2>3. ~Owned(b) /\ ~Pooled(b)'
    BY <1>4, <2>1 DEF Exists
  <2>4. /\ TypeOK' /\ WantedInv' /\ [Queue!Next]_Contents
        /\ growing' = growing
        /\ b = Tracked => growing = -1 /\ Contents' = <<>>
    BY <1>2, <1>4, CapacityOfPool, Emptied DEF Construct
  <2> QED
    BY <2>1, <2>2, <2>3, <2>4
<1> QED
  BY <1>3, <1>4 DEF AcquireFrom

(* release() gives a buffer of its caller to a pool that has room for it.  *)
LEMMA ReleaseToStep ==
  ASSUME PoolInv, NEW p \in Pools, NEW b \in Buffers, Owned(b), ReleaseTo(p, b)
  PROVE  /\ pool' \in [Pools -> Seq(Buffers)]
         /\ Distinct'
         /\ PoolBounded'
         /\ \A c : Pooled(c)' => Pooled(c) \/ c = b
         /\ TypeOK' /\ WantedInv' /\ [Queue!Next]_Contents
         /\ growing' = growing
         /\ b = Tracked => growing = -1
<1>1. /\ pool \in [Pools -> Seq(Buffers)]
      /\ \A c : Pooled(c) <=> In(pool, c)
      /\ Once(pool)
      /\ ~Pooled(b)
      /\ \A q \in Pools : Len(pool[q]) <= Most(q)
  BY StacksAre DEF PoolInv, PoolTypeOK, BuffersAreOwned, OneOwner, PoolBounded, Most
<1>2. TypeOK /\ WantedInv /\ 0 \in Nat
  BY DEF PoolInv
<1>3. /\ TypeOK' /\ WantedInv' /\ [Queue!Next]_Contents
      /\ growing' = growing
      /\ b = Tracked => growing = -1
  <2>1. ResetBuffer(b) \/ Renewed(b, 0)
    BY DEF ReleaseTo, Destroy
  <2> QED
    BY <1>2, <2>1, Emptied
<1>4. CASE Len(pool[p]) < Config[p].max /\ pool' = [pool EXCEPT ![p] = Append(@, b)]
  <2>1. /\ pool' \in [Pools -> Seq(Buffers)]
        /\ Once(pool')
        /\ \A c : In(pool', c) => In(pool, c) \/ c = b
        /\ Len(pool'[p]) = Len(pool[p]) + 1
        /\ \A q \in Pools : q # p => pool'[q] = pool[q]
    <3>1. pool' = [pool EXCEPT ![p] = Append(pool[p], b)]
      BY <1>4
    <3>2. pool \in [Pools -> Seq(Buffers)] /\ Once(pool) /\ ~In(pool, b)
      BY <1>1
    <3>3. /\ pool'[p] = Append(pool[p], b)
          /\ \A q \in Pools : q # p => pool'[q] = pool[q]
          /\ pool' \in [Pools -> Seq(Buffers)]
      BY <3>1, <3>2, AppendProperties
    <3>4. OnTop(pool, p, b, pool') /\ Len(pool'[p]) = Len(pool[p]) + 1
      BY <3>2, <3>3, AppendProperties DEF OnTop
    <3>5. Once(pool') /\ \A c : In(pool', c) => In(pool, c) \/ c = b
      BY <3>2, <3>3, <3>4, Pushed
    <3> QED
      BY <3>3, <3>4, <3>5
  <2>2. Distinct' /\ \A c : Pooled(c)' => Pooled(c) \/ c = b
    BY <1>1, <2>1, StacksWillBe
  <2>3. PoolBounded'
    <3>1. Len(pool[p]) \in Nat /\ Most(p) \in Nat /\ Config[p].max \in Nat
          /\ Config[p].max <= Most(p)
      BY <1>1, CapacityOfPool
    <3>2. Len(pool'[p]) <= Most(p)
      BY <1>4, <2>1, <3>1
    <3>3. \A q \in Pools : Len(pool'[q]) <= Most(q)
      BY <1>1, <2>1, <3>2
    <3> QED
      BY <3>3 DEF PoolBounded, Most
  <2> QED
    BY <1>3, <2>1, <2>2, <2>3
<1>5. CASE pool' = pool
  <2>1. /\ pool' \in [Pools -> Seq(Buffers)]
        /\ \A c : Pooled(c)' <=> Pooled(c)
        /\ Distinct'
    BY <1>1, <1>5, StacksWillBe
  <2>2. PoolBounded'
    BY <1>5 DEF PoolInv, BuffersAreOwned, PoolBounded
  <2> QED
    BY <1>3, <2>1, <2>2
<1> QED
  BY <1>4, <1>5 DEF ReleaseTo

-----------------------------------------------------------------------------
\* Who has a buffer before and after a step.

\* Who has got the tracked buffer sees no byte in it.
GotClean == ~Owned(Tracked) /\ Owned(Tracked)' => Contents' = <<>> /\ growing' = -1

(* Somebody has one buffer more, that came from where nobody had it.       *)
LEMMA Gained ==
  ASSUME PoolInv, NEW b,
         PoolTypeOK', Distinct', PoolBounded', OwnedOnce', TypeOK', WantedInv',
         growing' = growing,
         \A c \in Buffers : Owned(c)' <=> Owned(c) \/ c = b,
         \A c \in Buffers : Pooled(c)' => Pooled(c),
         ~Pooled(b)',
         b = Tracked => growing = -1 /\ Contents' = <<>>
  PROVE  PoolInv' /\ GotClean
<1>1. \A c \in Buffers : ~(Pooled(c) /\ Owned(c))
  BY DEF PoolInv, BuffersAreOwned, OneOwner
<1>2. \A c \in Buffers : ~(Pooled(c)' /\ Owned(c)')
  BY <1>1
<1>3. Tracked \in Buffers
  OBVIOUS
<1>4. RestsUnowned'
  BY <1>3 DEF PoolInv, RestsUnowned
<1>5. GotClean
  BY <1>3 DEF GotClean
<1> QED
  BY <1>2, <1>4, <1>5 DEF PoolInv, BuffersAreOwned, OneOwner, OwnedOnce

(* Somebody has one buffer less, and it may be in the pools now.           *)
LEMMA Lost ==
  ASSUME PoolInv, NEW b,
         PoolTypeOK', Distinct', PoolBounded', OwnedOnce', TypeOK', WantedInv',
         growing' = growing,
         \A c \in Buffers : Owned(c)' <=> Owned(c) /\ c # b,
         \A c \in Buffers : Pooled(c)' => Pooled(c) \/ c = b,
         b = Tracked => growing = -1
  PROVE  PoolInv' /\ GotClean
<1>1. \A c \in Buffers : ~(Pooled(c) /\ Owned(c))
  BY DEF PoolInv, BuffersAreOwned, OneOwner
<1>2. \A c \in Buffers : ~(Pooled(c)' /\ Owned(c)')
  BY <1>1
<1>3. Tracked \in Buffers
  OBVIOUS
<1>4. RestsUnowned'
  BY <1>3 DEF PoolInv, RestsUnowned
<1>5. GotClean
  BY <1>3 DEF GotClean
<1> QED
  BY <1>2, <1>4, <1>5 DEF PoolInv, BuffersAreOwned, OneOwner, OwnedOnce

\* A step of the pools: nothing is shared, and the bytes are those of a queue.
Good == PoolInv' /\ GotClean /\ [Queue!Next]_Contents

(* acquire(). *)
LEMMA AcquireStep ==
  ASSUME PoolInv, NEW p \in Pools, NEW b \in Buffers, Acquire(p, b)
  PROVE  Good
<1>1. /\ pool' \in [Pools -> Seq(Buffers)] /\ Distinct' /\ PoolBounded'
      /\ ~Owned(b) /\ ~Pooled(b)'
      /\ \A c : Pooled(c)' => Pooled(c)
      /\ TypeOK' /\ WantedInv' /\ [Queue!Next]_Contents
      /\ growing' = growing
      /\ b = Tracked => growing = -1 /\ Contents' = <<>>
  BY AcquireFromStep DEF Acquire
<1>2. loose' = loose \union {b} /\ held' = held /\ home' = home
  BY DEF Acquire
<1>3. PoolTypeOK'
  BY <1>1, <1>2 DEF PoolInv, PoolTypeOK
<1>4. OwnedOnce'
  BY <1>1, <1>2 DEF PoolInv, BuffersAreOwned, OneOwner, OwnedOnce, Owned
<1>5. \A c \in Buffers : Owned(c)' <=> Owned(c) \/ c = b
  BY <1>2 DEF Owned
<1>6. PoolInv' /\ GotClean
  BY <1>1, <1>3, <1>4, <1>5, Gained
<1> QED
  BY <1>1, <1>6 DEF Good

(* A guard's constructor. *)
LEMMA GuardAcquireStep ==
  ASSUME PoolInv, NEW g \in Guards, NEW p \in Pools, NEW b \in Buffers, GuardAcquire(g, p, b)
  PROVE  Good
<1>1. /\ pool' \in [Pools -> Seq(Buffers)] /\ Distinct' /\ PoolBounded'
      /\ ~Owned(b) /\ ~Pooled(b)'
      /\ \A c : Pooled(c)' => Pooled(c)
      /\ TypeOK' /\ WantedInv' /\ [Queue!Next]_Contents
      /\ growing' = growing
      /\ b = Tracked => growing = -1 /\ Contents' = <<>>
  BY AcquireFromStep DEF GuardAcquire
<1>2. /\ held[g] = NoBuffer
      /\ held' = [held EXCEPT ![g] = b]
      /\ home' = [home EXCEPT ![g] = p]
      /\ loose' = loose
  BY DEF GuardAcquire
<1>3. held \in [Guards -> Buffers \union {NoBuffer}]
  BY DEF PoolInv, PoolTypeOK
<1>4. PoolTypeOK'
  BY <1>1, <1>2 DEF PoolInv, PoolTypeOK
<1>5. OwnedOnce'
  BY <1>1, <1>2, <1>3 DEF PoolInv, BuffersAreOwned, OneOwner, OwnedOnce, Owned
<1>6. \A c \in Buffers : Owned(c)' <=> Owned(c) \/ c = b
  BY <1>2, <1>3 DEF Owned
<1>7. PoolInv' /\ GotClean
  BY <1>1, <1>4, <1>5, <1>6, Gained
<1> QED
  BY <1>1, <1>7 DEF Good

(* release(). *)
LEMMA ReleaseStep ==
  ASSUME PoolInv, NEW p \in Pools, NEW b \in Buffers, Release(p, b)
  PROVE  Good
<1>1. Owned(b)
  BY DEF Release, Owned
<1>2. /\ pool' \in [Pools -> Seq(Buffers)] /\ Distinct' /\ PoolBounded'
      /\ \A c : Pooled(c)' => Pooled(c) \/ c = b
      /\ TypeOK' /\ WantedInv' /\ [Queue!Next]_Contents
      /\ growing' = growing
      /\ b = Tracked => growing = -1
  BY <1>1, ReleaseToStep DEF Release
<1>3. b \in loose /\ loose' = loose \ {b} /\ held' = held /\ home' = home
  BY DEF Release
<1>4. PoolTypeOK'
  BY <1>2, <1>3 DEF PoolInv, PoolTypeOK
<1>5. OwnedOnce'
  BY <1>3 DEF PoolInv, BuffersAreOwned, OneOwner, OwnedOnce
<1>6. \A c \in Buffers : Owned(c)' <=> Owned(c) /\ c # b
  BY <1>3 DEF PoolInv, BuffersAreOwned, OneOwner, Owned
<1>7. PoolInv' /\ GotClean
  BY <1>2, <1>4, <1>5, <1>6, Lost
<1> QED
  BY <1>2, <1>7 DEF Good

(* The end of a buffer that its user keeps. *)
LEMMA DropStep ==
  ASSUME PoolInv, NEW b \in Buffers, Drop(b)
  PROVE  Good
<1>1. b \in loose /\ Destroy(b) /\ loose' = loose \ {b} /\ UNCHANGED <<pool, held, home>>
  BY DEF Drop
<1>2. /\ TypeOK' /\ WantedInv' /\ [Queue!Next]_Contents
      /\ growing' = growing
      /\ b = Tracked => growing = -1
  <2>1. 0 \in Nat
    OBVIOUS
  <2> QED
    BY <1>1, <2>1, Emptied DEF PoolInv, Destroy
<1>3. PoolTypeOK' /\ PoolBounded'
  BY <1>1 DEF PoolInv, PoolTypeOK, BuffersAreOwned, PoolBounded
<1>4. Distinct' /\ OwnedOnce' /\ \A c \in Buffers : Pooled(c)' => Pooled(c)
  BY <1>1 DEF PoolInv, BuffersAreOwned, OneOwner, OwnedOnce, Distinct, Pooled, Slots, At
<1>5. \A c \in Buffers : Owned(c)' <=> Owned(c) /\ c # b
  BY <1>1 DEF PoolInv, BuffersAreOwned, OneOwner, Owned
<1>6. PoolInv' /\ GotClean
  BY <1>2, <1>3, <1>4, <1>5, Lost
<1> QED
  BY <1>2, <1>6 DEF Good

(* clear(). *)
LEMMA ClearStep ==
  ASSUME PoolInv, NEW p \in Pools, Clear(p)
  PROVE  Good
<1>1. pool' = [pool EXCEPT ![p] = <<>>] /\ UNCHANGED <<held, home, loose>>
  BY DEF Clear
<1>2. /\ pool \in [Pools -> Seq(Buffers)]
      /\ \A c : Pooled(c) <=> In(pool, c)
      /\ Once(pool)
      /\ \A q \in Pools : Len(pool[q]) <= Most(q)
  BY StacksAre DEF PoolInv, PoolTypeOK, BuffersAreOwned, OneOwner, PoolBounded, Most
<1>3. /\ pool' \in [Pools -> Seq(Buffers)]
      /\ Once(pool')
      /\ \A c : In(pool', c) => In(pool, c)
      /\ \A q \in Pools : Len(pool'[q]) <= Len(pool[q])
  BY <1>1, <1>2, Cleared
<1>4. Distinct' /\ \A c : Pooled(c)' => Pooled(c)
  BY <1>2, <1>3, StacksWillBe
<1>5. PoolBounded'
  <2>1. \A q \in Pools : Len(pool[q]) \in Nat /\ Len(pool'[q]) \in Nat /\ Most(q) \in Nat
    BY <1>2, <1>3, CapacityOfPool
  <2>2. \A q \in Pools : Len(pool'[q]) <= Most(q)
    BY <1>2, <1>3, <2>1
  <2> QED
    BY <2>2 DEF PoolBounded, Most
<1>6. /\ TypeOK' /\ WantedInv' /\ [Queue!Next]_Contents
      /\ growing' = growing
  <2>1. CASE Destroy(Tracked)
    <3>1. 0 \in Nat
      OBVIOUS
    <3> QED
      BY <2>1, <3>1, Emptied DEF PoolInv, Destroy
  <2>2. CASE UNCHANGED bufferVars
    BY <2>2 DEF PoolInv, bufferVars, TypeOK, WantedInv, Contents
  <2> QED
    BY <2>1, <2>2 DEF Clear
<1>7. PoolTypeOK' /\ OwnedOnce'
  BY <1>1, <1>3 DEF PoolInv, PoolTypeOK, BuffersAreOwned, OneOwner, OwnedOnce
<1>8. \A c \in Buffers : Owned(c)' <=> Owned(c) /\ c # NoBuffer
  BY <1>1 DEF Owned
<1>9. PoolInv' /\ GotClean
  <2>1. NoBuffer # Tracked
    OBVIOUS
  <2> QED
    BY <1>4, <1>5, <1>6, <1>7, <1>8, <2>1, Lost
<1> QED
  BY <1>6, <1>9 DEF Good

(* A guard's destructor. *)
LEMMA GuardEndsStep ==
  ASSUME PoolInv, NEW g \in Guards, GuardEnds(g)
  PROVE  Good
<1>1. /\ held[g] # NoBuffer
      /\ ReleaseTo(home[g], held[g])
      /\ held' = [held EXCEPT ![g] = NoBuffer]
      /\ UNCHANGED <<home, loose>>
  BY DEF GuardEnds
<1>2. /\ held \in [Guards -> Buffers \union {NoBuffer}]
      /\ held[g] \in Buffers /\ home[g] \in Pools /\ Owned(held[g])
  BY <1>1 DEF PoolInv, PoolTypeOK, Owned
<1>3. /\ pool' \in [Pools -> Seq(Buffers)] /\ Distinct' /\ PoolBounded'
      /\ \A c : Pooled(c)' => Pooled(c) \/ c = held[g]
      /\ TypeOK' /\ WantedInv' /\ [Queue!Next]_Contents
      /\ growing' = growing
      /\ held[g] = Tracked => growing = -1
  BY <1>1, <1>2, ReleaseToStep
<1>4. PoolTypeOK'
  BY <1>1, <1>3 DEF PoolInv, PoolTypeOK
<1>5. OwnedOnce'
  <2>1. NoBuffer \notin loose
    BY DEF PoolInv, PoolTypeOK
  <2> QED
    BY <1>1, <1>2, <2>1 DEF PoolInv, BuffersAreOwned, OneOwner, OwnedOnce
<1>6. \A c \in Buffers : Owned(c)' <=> Owned(c) /\ c # held[g]
  BY <1>1, <1>2 DEF PoolInv, BuffersAreOwned, OneOwner, Owned
<1>7. PoolInv' /\ GotClean
  BY <1>3, <1>4, <1>5, <1>6, Lost
<1> QED
  BY <1>3, <1>7 DEF Good

(* A guard that takes the buffer of another one. *)
LEMMA TakenOver ==
  ASSUME PoolInv, NEW g \in Guards, NEW h \in Guards, g # h,
         held' = [held EXCEPT ![g] = held[h], ![h] = NoBuffer], loose' = loose
  PROVE  /\ held' \in [Guards -> Buffers \union {NoBuffer}]
         /\ OwnedOnce'
         /\ \A c \in Buffers : Owned(c)' <=> Owned(c) /\ c # held[g]
<1>1. /\ held \in [Guards -> Buffers \union {NoBuffer}]
      /\ NoBuffer \notin loose
      /\ \A i, j \in Guards : held[i] = held[j] /\ held[i] # NoBuffer => i = j
      /\ \A i \in Guards : held[i] \notin loose
  BY DEF PoolInv, PoolTypeOK, BuffersAreOwned, OneOwner
<1>2. /\ held' \in [Guards -> Buffers \union {NoBuffer}]
      /\ held'[g] = held[h]
      /\ held'[h] = NoBuffer
      /\ \A i \in Guards \ {g, h} : held'[i] = held[i]
  BY <1>1
<1>3. OwnedOnce'
  BY <1>1, <1>2 DEF OwnedOnce
<1>4. ASSUME NEW c \in Buffers
      PROVE  Owned(c)' <=> Owned(c) /\ c # held[g]
  <2>1. c # NoBuffer
    OBVIOUS
  <2>2. (\E i \in Guards : held'[i] = c) => (\E i \in Guards : held[i] = c) /\ c # held[g]
    BY <1>1, <1>2, <2>1
  <2>3. (\E i \in Guards : held[i] = c) /\ c # held[g] => (\E i \in Guards : held'[i] = c)
    BY <1>1, <1>2, <2>1
  <2>4. c \in loose => c # held[g]
    BY <1>1
  <2> QED
    BY <2>2, <2>3, <2>4 DEF Owned
<1> QED
  BY <1>2, <1>3, <1>4

(* The move constructor of a guard. *)
LEMMA GuardMovedStep ==
  ASSUME PoolInv, NEW g \in Guards, NEW h \in Guards, GuardMoved(g, h)
  PROVE  Good
<1>1. /\ g # h /\ held[g] = NoBuffer
      /\ held' = [held EXCEPT ![g] = held[h], ![h] = NoBuffer]
      /\ home' = [home EXCEPT ![g] = home[h]]
      /\ UNCHANGED <<bufferVars, pool, loose>>
  BY DEF GuardMoved
<1>2. /\ held' \in [Guards -> Buffers \union {NoBuffer}]
      /\ OwnedOnce'
      /\ \A c \in Buffers : Owned(c)' <=> Owned(c) /\ c # held[g]
  BY <1>1, TakenOver
<1>3. PoolTypeOK' /\ PoolBounded'
  BY <1>1, <1>2 DEF PoolInv, PoolTypeOK, BuffersAreOwned, PoolBounded
<1>4. Distinct' /\ \A c \in Buffers : Pooled(c)' => Pooled(c)
  BY <1>1 DEF PoolInv, BuffersAreOwned, OneOwner, Distinct, Pooled, Slots, At
<1>5. /\ TypeOK' /\ WantedInv' /\ [Queue!Next]_Contents
      /\ growing' = growing
  BY <1>1 DEF PoolInv, bufferVars, TypeOK, WantedInv, Contents
<1>6. PoolInv' /\ GotClean
  <2>1. held[g] # Tracked
    BY <1>1
  <2> QED
    BY <1>2, <1>3, <1>4, <1>5, <2>1, Lost
<1> QED
  BY <1>5, <1>6 DEF Good

(* The move assignment of a guard. *)
LEMMA GuardAssignStep ==
  ASSUME PoolInv, NEW g \in Guards, NEW h \in Guards, GuardAssign(g, h)
  PROVE  Good
<1>1. /\ g # h
      /\ held' = [held EXCEPT ![g] = held[h], ![h] = NoBuffer]
      /\ home' = home /\ loose' = loose
  BY DEF GuardAssign
<1>2. /\ held' \in [Guards -> Buffers \union {NoBuffer}]
      /\ OwnedOnce'
      /\ \A c \in Buffers : Owned(c)' <=> Owned(c) /\ c # held[g]
  BY <1>1, TakenOver
<1>3. /\ pool' \in [Pools -> Seq(Buffers)] /\ Distinct' /\ PoolBounded'
      /\ \A c \in Buffers : Pooled(c)' => Pooled(c) \/ c = held[g]
      /\ TypeOK' /\ WantedInv' /\ [Queue!Next]_Contents
      /\ growing' = growing
      /\ held[g] = Tracked => growing = -1
  <2>1. CASE held[g] # NoBuffer /\ ReleaseTo(home[g], held[g])
    <3>1. held[g] \in Buffers /\ home[g] \in Pools /\ Owned(held[g])
      BY <2>1 DEF PoolInv, PoolTypeOK, Owned
    <3> QED
      BY <2>1, <3>1, ReleaseToStep
  <2>2. CASE held[g] = NoBuffer /\ UNCHANGED <<pool, bufferVars>>
    <3>1. pool' \in [Pools -> Seq(Buffers)] /\ PoolBounded'
      BY <2>2 DEF PoolInv, PoolTypeOK, BuffersAreOwned, PoolBounded
    <3>2. Distinct' /\ \A c \in Buffers : Pooled(c)' => Pooled(c)
      BY <2>2 DEF PoolInv, BuffersAreOwned, OneOwner, Distinct, Pooled, Slots, At
    <3>3. /\ TypeOK' /\ WantedInv' /\ [Queue!Next]_Contents
          /\ growing' = growing
      BY <2>2 DEF PoolInv, bufferVars, TypeOK, WantedInv, Contents
    <3> QED
      BY <2>2, <3>1, <3>2, <3>3
  <2> QED
    BY <2>1, <2>2 DEF GuardAssign
<1>4. PoolTypeOK'
  BY <1>1, <1>2, <1>3 DEF PoolInv, PoolTypeOK
<1>5. PoolInv' /\ GotClean
  BY <1>2, <1>3, <1>4, Lost
<1> QED
  BY <1>3, <1>5 DEF Good

(* What a guard releases belongs to the user. *)
LEMMA GuardReleaseStep ==
  ASSUME PoolInv, NEW g \in Guards, GuardRelease(g)
  PROVE  Good
<1>1. /\ held[g] # NoBuffer
      /\ loose' = loose \union {held[g]}
      /\ held' = [held EXCEPT ![g] = NoBuffer]
      /\ UNCHANGED <<bufferVars, pool, home>>
  BY DEF GuardRelease
<1>2. /\ held \in [Guards -> Buffers \union {NoBuffer}]
      /\ held[g] \in Buffers
      /\ NoBuffer \notin loose
  BY <1>1 DEF PoolInv, PoolTypeOK
<1>3. PoolTypeOK' /\ PoolBounded'
  BY <1>1, <1>2 DEF PoolInv, PoolTypeOK, BuffersAreOwned, PoolBounded
<1>4. Distinct' /\ \A c \in Buffers : Pooled(c)' => Pooled(c)
  BY <1>1 DEF PoolInv, BuffersAreOwned, OneOwner, Distinct, Pooled, Slots, At
<1>5. /\ TypeOK' /\ WantedInv' /\ [Queue!Next]_Contents
      /\ growing' = growing
  BY <1>1 DEF PoolInv, bufferVars, TypeOK, WantedInv, Contents
<1>6. OwnedOnce'
  BY <1>1, <1>2 DEF PoolInv, BuffersAreOwned, OneOwner, OwnedOnce
<1>7. \A c \in Buffers : Owned(c)' <=> Owned(c) /\ c # NoBuffer
  BY <1>1, <1>2 DEF Owned
<1>8. PoolInv' /\ GotClean
  <2>1. NoBuffer # Tracked
    OBVIOUS
  <2> QED
    BY <1>3, <1>4, <1>5, <1>6, <1>7, <2>1, Lost
<1> QED
  BY <1>5, <1>8 DEF Good

(* The owner of a buffer uses it. *)
LEMMA UseStep ==
  ASSUME PoolInv, Use
  PROVE  Good
<1>1. BufferNext /\ UNCHANGED poolVars /\ Owned(Tracked)
  BY DEF Use
<1>2. TypeOK' /\ WantedInv' /\ [Queue!Next]_Contents
  BY <1>1, TypeInductive, WantedInductive, StepImplements DEF PoolInv
<1>3. PoolTypeOK' /\ BuffersAreOwned' /\ Owned(Tracked)'
  BY <1>1 DEF PoolInv, poolVars, PoolTypeOK, BuffersAreOwned, PoolBounded, OneOwner,
              Distinct, Pooled, Owned, Slots, At
<1>4. RestsUnowned' /\ GotClean
  BY <1>1, <1>3 DEF RestsUnowned, GotClean
<1> QED
  BY <1>2, <1>3, <1>4 DEF Good, PoolInv

(* Every step of the pools keeps a buffer with one owner. *)
LEMMA PoolStep ==
  ASSUME PoolInv, [Next]_vars
  PROVE  Good
<1>1. CASE UNCHANGED vars
  <2>1. PoolInv'
    BY <1>1 DEF PoolInv, vars, poolVars, bufferVars, TypeOK, WantedInv, PoolTypeOK,
                BuffersAreOwned, PoolBounded, OneOwner, Distinct, Pooled, Owned, Slots, At,
                RestsUnowned
  <2>2. Contents' = Contents /\ (Owned(Tracked)' => Owned(Tracked))
    BY <1>1 DEF vars, poolVars, bufferVars, Contents, Owned
  <2> QED
    BY <2>1, <2>2 DEF Good, GotClean
<1>2. CASE Use
  BY <1>2, UseStep
<1>3. CASE PoolNext
  BY <1>3, AcquireStep, ReleaseStep, DropStep, ClearStep, GuardAcquireStep,
     GuardMovedStep, GuardAssignStep, GuardEndsStep, GuardReleaseStep DEF PoolNext
<1> QED
  BY <1>1, <1>2, <1>3 DEF Next

-----------------------------------------------------------------------------
\* Theorems about the pools.

(* Pools begin with their initial buffers, which nobody else has. *)
LEMMA PoolInit ==
  ASSUME Init
  PROVE  PoolInv /\ Queue!Init
<1>1. TypeOK /\ WantedInv /\ growing = -1
  BY MemoryIs DEF Init, BufferInit, TypeOK, WantedInv, Nothing
<1>2. Queue!Init
  BY SubSeqEmpty DEF Init, BufferInit, Contents, Queue!Init
<1>3. pool \in [Pools -> Seq(Buffers)]
  <2>1. ASSUME NEW p \in Pools
        PROVE  pool[p] \in Seq(Buffers)
    <3>1. PICK q \in Pools : pool[p] \in [1..Config[q].initial -> Buffers]
      BY DEF Init
    <3>2. Config[q].initial \in Nat
      BY CapacityOfPool
    <3> QED
      BY <3>1, <3>2
  <2>2. pool = [p \in Pools |-> pool[p]]
    BY DEF Init
  <2> QED
    BY <2>1, <2>2
<1>4. PoolTypeOK /\ OwnedOnce /\ \A b \in Buffers : ~Owned(b)
  BY <1>3 DEF Init, PoolTypeOK, OwnedOnce, Owned
<1>5. PoolBounded
  <2>1. ASSUME NEW p \in Pools
        PROVE  Len(pool[p]) <= Most(p)
    BY CapacityOfPool DEF Init
  <2> QED
    BY <2>1 DEF PoolBounded, Most
<1>6. BuffersAreOwned
  BY <1>4, <1>5 DEF Init, BuffersAreOwned, OneOwner, OwnedOnce
<1> QED
  BY <1>1, <1>2, <1>4, <1>6 DEF PoolInv, RestsUnowned

(* The inductive invariant of the pools, their guards and users. *)
THEOREM PoolInvariant == Spec => []PoolInv
<1>1. PoolInv /\ [Next]_vars => PoolInv'
  BY PoolStep DEF Good
<1> QED
  BY <1>1, PoolInit, PTL DEF Spec

(* A buffer has one owner: however guards are moved, assigned and          *)
(* released, no buffer is shared by two of them, or by one and a pool, and *)
(* no pool outgrows what it was given or may take back.                    *)
THEOREM OwnedByOne == Spec => []BuffersAreOwned
<1>1. PoolInv => BuffersAreOwned
  BY DEF PoolInv
<1> QED
  BY <1>1, PoolInvariant, PTL

(* The bytes of a buffer are those of a queue through all of its owners:   *)
(* also acquire() and release() do no more than to discard what is in it.  *)
THEOREM PooledIsQueue == Spec => IsQueue /\ []TypeOK
<1>1. PoolInv /\ [Next]_vars => [Queue!Next]_Contents
  BY PoolStep DEF Good
<1>2. Init => Queue!Init
  BY PoolInit
<1>3. PoolInv => TypeOK
  BY DEF PoolInv
<1> QED
  BY <1>1, <1>2, <1>3, PoolInvariant, PTL DEF Spec, IsQueue, Queue!Spec

(* Who acquires a buffer sees no byte of the owner before. *)
THEOREM AcquiresEmpty == Spec => AcquiredIsEmpty
<1>1. PoolInv /\ [Next]_vars =>
        [~Owned(Tracked) /\ Owned(Tracked)' => Contents' = <<>> /\ growing' = -1]_vars
  BY PoolStep DEF Good, GotClean
<1> QED
  BY <1>1, PoolInvariant, PTL DEF Spec, AcquiredIsEmpty
=============================================================================
