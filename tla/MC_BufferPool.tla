--------------------------- MODULE MC_BufferPool ----------------------------
(***************************************************************************)
(* Instances of BufferPool, and of the ByteBuffer in it, for TLC.          *)
(***************************************************************************)
EXTENDS BufferPool

CONSTANTS p1, p2

\* All strings of at most two bytes.
MCInputs == UNION {[1..n -> Bytes] : n \in 0..2}

(* A pool that gives and takes, and one that was given more than it takes. *)
MCPools == {p1, p2}
MCConfig ==
  [p \in MCPools |-> IF p = p1 THEN [initial |-> 1, max |-> 1, capacity |-> 1]
                               ELSE [initial |-> 1, max |-> 0, capacity |-> 2]]
=============================================================================
