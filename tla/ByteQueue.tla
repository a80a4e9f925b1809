----------------------------- MODULE ByteQueue ------------------------------
(***************************************************************************)
(* What vynx_http::byte_buffer promises its users: a queue of bytes. What  *)
(* was written is read once, in order, unless it is discarded as a whole.  *)
(***************************************************************************)
EXTENDS Naturals, Sequences

CONSTANT Inputs     \* the byte strings that are written at once

VARIABLE queue

Init == queue = <<>>

Put(s) == queue' = queue \o s

\* Some bytes are read, or all of them discarded.
Get(n) == queue' = SubSeq(queue, n + 1, Len(queue))

\* Another queue is moved here.
Replace(s) == queue' = s

Next ==
  \/ \E s \in Inputs : Put(s) \/ Replace(s)
  \/ \E n \in 0..Len(queue) : Get(n)

Spec == Init /\ [][Next]_queue
=============================================================================
