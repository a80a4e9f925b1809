----------------------------- MODULE Selection ------------------------------
(***************************************************************************)
(* Loops that go through a vector and append what they look for to another *)
(* one. What is looked for is given by its indices, and not by a test as   *)
(* it is to SelectSeq, so that the result can be reasoned about.           *)
(***************************************************************************)
EXTENDS Naturals, Sequences

\* What has been selected of s when the loop is past the n-th element.
SelectedUpTo(s, I) ==
  LET selected[n \in 0 .. Len(s)] ==
        IF n = 0 THEN <<>>
        ELSE IF n \in I THEN Append(selected[n - 1], s[n]) ELSE selected[n - 1]
  IN  selected

(* The elements of s at the indices in I, in their order. *)
Selected(s, I) == SelectedUpTo(s, I)[Len(s)]
=============================================================================
