--------------------------- MODULE SelectionProofs ---------------------------
(***************************************************************************)
(* What a loop that selects elements of a vector returns, for every vector *)
(* and every choice. The library's theorems of induction need a predicate  *)
(* as their parameter; here a set takes its place, and its least element   *)
(* that of the first number for which the predicate fails.                 *)
(***************************************************************************)
EXTENDS Selection, SequenceTheorems, WellFoundedInduction, TLAPS

-----------------------------------------------------------------------------
\* Induction.

(* A set of numbers has a least one. *)
LEMMA LeastIs ==
  ASSUME NEW T, T \subseteq Nat, T # {}
  PROVE  \E p \in T : \A q \in T : p <= q
<1> DEFINE R == OpToRel(<, Nat)
<1>1. IsWellFoundedOn(R, Nat)
  BY NatLessThanWellFounded
<1>2. \A x, y \in Nat : <<y, x>> \in R <=> y < x
  BY DEF OpToRel
<1> HIDE DEF R
<1>3. PICK p \in T : \A q \in T : ~(<<q, p>> \in R)
  BY <1>1, WFMin
<1>4. ASSUME NEW q \in T
      PROVE  p <= q
  <2>1. p \in Nat /\ q \in Nat /\ ~(<<q, p>> \in R)
    BY <1>3
  <2>2. ~(q < p)
    BY <1>2, <2>1
  <2> QED
    BY <2>1, <2>2
<1> QED
  BY <1>4

(* A set that has 0, and with each number the next, has all up to a bound. *)
LEMMA InductionUpTo ==
  ASSUME NEW N \in Nat, NEW P,
         0 \in P,
         \A n \in 0 .. N - 1 : n \in P => n + 1 \in P
  PROVE  \A n \in 0 .. N : n \in P
<1> DEFINE T == {n \in 0 .. N : n \notin P}
<1> SUFFICES ASSUME T # {}
             PROVE  FALSE
  OBVIOUS
<1>0. T \subseteq Nat
  OBVIOUS
<1>1. PICK p \in T : \A q \in T : p <= q
  <2> HIDE DEF T
  <2> QED
    BY <1>0, LeastIs
<1>2. p \in 1 .. N /\ p \notin P
  BY <1>1
<1>3. p - 1 \in 0 .. N - 1 /\ (p - 1) + 1 = p /\ ~(p <= p - 1)
  BY <1>2
<1>4. p - 1 \in P
  BY <1>1, <1>3
<1> QED
  BY <1>2, <1>3, <1>4

-----------------------------------------------------------------------------
\* The loop.

(* One turn of the loop after the other.                                   *)
LEMMA SelectionTurns ==
  ASSUME NEW s, Len(s) \in Nat, NEW I
  PROVE  LET f == SelectedUpTo(s, I)
         IN  /\ f[0] = <<>>
             /\ \A n \in 1 .. Len(s) :
                  f[n] = IF n \in I THEN Append(f[n - 1], s[n]) ELSE f[n - 1]
<1> DEFINE N == Len(s)
           Turn(g, n) == IF n = 0 THEN <<>>
                         ELSE IF n \in I THEN Append(g[n - 1], s[n]) ELSE g[n - 1]
           P == {m \in 0 .. N : \E g : g = [n \in 0 .. m |-> Turn(g, n)]}
<1>1. N \in Nat
  OBVIOUS
<1>2. 0 \in P
  <2> DEFINE g == [n \in 0 .. 0 |-> <<>>]
  <2>1. g = [n \in 0 .. 0 |-> Turn(g, n)]
    OBVIOUS
  <2>2. 0 \in 0 .. N
    BY <1>1
  <2> HIDE DEF g
  <2> QED
    BY <2>1, <2>2
<1>3. ASSUME NEW m \in 0 .. N - 1, m \in P
      PROVE  m + 1 \in P
  <2>1. PICK g : g = [n \in 0 .. m |-> Turn(g, n)]
    BY <1>3
  <2> DEFINE h == [n \in 0 .. m + 1 |-> IF n = m + 1 THEN Turn(g, m + 1) ELSE g[n]]
  <2>2. ASSUME NEW n \in 0 .. m + 1
        PROVE  h[n] = Turn(h, n)
    <3>1. n # 0 => n - 1 \in 0 .. m + 1 /\ n - 1 # m + 1 /\ h[n - 1] = g[n - 1]
      BY <1>1
    <3>2. Turn(h, n) = Turn(g, n)
      BY <3>1
    <3>3. ASSUME n # m + 1
          PROVE  n \in 0 .. m /\ g[n] = Turn(g, n)
      <4>1. n \in 0 .. m
        BY <1>1, <3>3
      <4>2. \A i \in 0 .. m : g[i] = Turn(g, i)
        BY <2>1
      <4> HIDE DEF Turn
      <4> QED
        BY <4>1, <4>2
    <3> QED
      BY <3>2, <3>3
  <2>3. h = [n \in 0 .. m + 1 |-> Turn(h, n)]
    BY <2>2
  <2>4. m + 1 \in 0 .. N
    BY <1>1
  <2> QED
    BY <2>3, <2>4
<1>4. N \in P
  <2> HIDE DEF P
  <2>1. \A n \in 0 .. N : n \in P
    BY <1>1, <1>2, <1>3, InductionUpTo
  <2> QED
    BY <1>1, <2>1
<1>5. PICK g : g = [n \in 0 .. N |-> Turn(g, n)]
  BY <1>4
<1>6. SelectedUpTo(s, I) = [n \in 0 .. N |-> Turn(SelectedUpTo(s, I), n)]
  BY <1>5 DEF SelectedUpTo
<1>7. 0 \in 0 .. N /\ \A n \in 1 .. N : n \in 0 .. N /\ n # 0
  BY <1>1
<1> HIDE DEF N
<1> QED
  BY <1>6, <1>7 DEF N

-----------------------------------------------------------------------------
\* Its result.

(* The elements of t are those of s at the indices in J, each once.        *)
Selects(t, s, J) ==
  \E e \in [1 .. Len(t) -> J] :
    /\ \A k \in 1 .. Len(t) : t[k] = s[e[k]]
    /\ \A k, l \in 1 .. Len(t) : e[k] = e[l] => k = l
    /\ \A i \in J : \E k \in 1 .. Len(t) : e[k] = i

(* One more element is appended.                                           *)
LEMMA SelectsOneMore ==
  ASSUME NEW S, NEW s \in Seq(S), NEW t \in Seq(S), NEW J, NEW i \in DOMAIN s,
         i \notin J, Selects(t, s, J)
  PROVE  /\ Append(t, s[i]) \in Seq(S)
         /\ Len(Append(t, s[i])) = Len(t) + 1
         /\ Selects(Append(t, s[i]), s, J \union {i})
<1> DEFINE u == Append(t, s[i])
           m == Len(t) + 1
<1>1. Len(t) \in Nat /\ s[i] \in S
  BY LenProperties, ElementOfSeq
<1>2. /\ u \in Seq(S) /\ Len(u) = m /\ u[m] = s[i]
      /\ \A k \in 1 .. Len(t) : u[k] = t[k]
  BY <1>1, AppendProperties
<1>3. PICK e \in [1 .. Len(t) -> J] :
        /\ \A k \in 1 .. Len(t) : t[k] = s[e[k]]
        /\ \A k, l \in 1 .. Len(t) : e[k] = e[l] => k = l
        /\ \A j \in J : \E k \in 1 .. Len(t) : e[k] = j
  BY DEF Selects
<1> DEFINE d == [k \in 1 .. m |-> IF k = m THEN i ELSE e[k]]
<1>4. m \in 1 .. m /\ \A k \in 1 .. m : k = m \/ k \in 1 .. Len(t)
  BY <1>1
<1>5. /\ d \in [1 .. m -> J \union {i}] /\ d[m] = i
      /\ \A k \in 1 .. Len(t) : k \in 1 .. m /\ k # m /\ d[k] = e[k] /\ d[k] \in J
  <2>1. \A k \in 1 .. Len(t) : k \in 1 .. m /\ k # m /\ e[k] \in J
    BY <1>1
  <2> HIDE DEF m
  <2> QED
    BY <1>4, <2>1
<1> HIDE DEF d, m, u
<1>6. \A k \in 1 .. m : u[k] = s[d[k]]
  BY <1>2, <1>3, <1>4, <1>5
<1>7. ASSUME NEW k \in 1 .. m, NEW l \in 1 .. m, d[k] = d[l]
      PROVE  k = l
  BY <1>3, <1>4, <1>5, <1>7
<1>8. ASSUME NEW j \in J \union {i}
      PROVE  \E k \in 1 .. m : d[k] = j
  BY <1>3, <1>4, <1>5, <1>8
<1>9. Selects(u, s, J \union {i})
  <2>1. d \in [1 .. Len(u) -> J \union {i}]
    BY <1>2, <1>5
  <2>2. /\ \A k \in 1 .. Len(u) : u[k] = s[d[k]]
        /\ \A k, l \in 1 .. Len(u) : d[k] = d[l] => k = l
        /\ \A j \in J \union {i} : \E k \in 1 .. Len(u) : d[k] = j
    BY <1>2, <1>6, <1>7, <1>8
  <2> QED
    BY <2>1, <2>2 DEF Selects
<1> QED
  BY <1>2, <1>9 DEF u, m

(* What is selected are the elements at the indices, each once.            *)
LEMMA SelectedIs ==
  ASSUME NEW S, NEW s \in Seq(S), NEW I
  PROVE  /\ Selected(s, I) \in Seq(S)
         /\ Selects(Selected(s, I), s, I \intersect DOMAIN s)
<1> DEFINE f == SelectedUpTo(s, I)
           N == Len(s)
           P == {n \in 0 .. N : f[n] \in Seq(S) /\ Selects(f[n], s, I \intersect (1 .. n))}
<1>1. N \in Nat /\ DOMAIN s = 1 .. N
  BY LenProperties
<1>2. /\ f[0] = <<>>
      /\ \A n \in 1 .. N : f[n] = IF n \in I THEN Append(f[n - 1], s[n]) ELSE f[n - 1]
  BY <1>1, SelectionTurns
<1> HIDE DEF f, N
<1>3. 0 \in P
  <2>1. <<>> \in Seq(S) /\ 1 .. Len(<<>>) = {} /\ I \intersect (1 .. 0) = {} /\ 0 \in 0 .. N
    BY <1>1
  <2>2. <<>> \in [1 .. Len(<<>>) -> {}]
    BY <2>1
  <2>3. Selects(<<>>, s, I \intersect (1 .. 0))
    BY <2>1, <2>2 DEF Selects
  <2> QED
    BY <1>2, <2>1, <2>3
<1>4. ASSUME NEW n \in 0 .. N - 1, n \in P
      PROVE  n + 1 \in P
  <2>1. f[n] \in Seq(S) /\ Selects(f[n], s, I \intersect (1 .. n))
    BY <1>4
  <2>2. /\ n + 1 \in 0 .. N /\ n + 1 \in 1 .. N /\ (n + 1) - 1 = n
        /\ 1 .. n + 1 = (1 .. n) \union {n + 1} /\ n + 1 \notin 1 .. n
    BY <1>1
  <2>3. CASE n + 1 \in I
    <3>1. f[n + 1] = Append(f[n], s[n + 1])
      BY <1>2, <2>2, <2>3
    <3>2. I \intersect (1 .. n + 1) = (I \intersect (1 .. n)) \union {n + 1}
      BY <2>2, <2>3
    <3>3. n + 1 \in DOMAIN s /\ n + 1 \notin I \intersect (1 .. n)
      BY <1>1, <2>2
    <3>4. /\ Append(f[n], s[n + 1]) \in Seq(S)
          /\ Selects(Append(f[n], s[n + 1]), s, (I \intersect (1 .. n)) \union {n + 1})
      BY <2>1, <3>3, SelectsOneMore
    <3> QED
      BY <2>2, <3>1, <3>2, <3>4
  <2>4. CASE n + 1 \notin I
    <3>1. f[n + 1] = f[n]
      BY <1>2, <2>2, <2>4
    <3>2. I \intersect (1 .. n + 1) = I \intersect (1 .. n)
      BY <2>2, <2>4
    <3> QED
      BY <2>1, <2>2, <3>1, <3>2
  <2> QED
    BY <2>3, <2>4
<1>5. N \in P
  <2> HIDE DEF P
  <2>1. \A n \in 0 .. N : n \in P
    BY <1>1, <1>3, <1>4, InductionUpTo
  <2> QED
    BY <1>1, <2>1
<1> QED
  BY <1>1, <1>5 DEF Selected, f, N

(* So that they are elements of s, and none of those is left out.          *)
LEMMA SelectedElements ==
  ASSUME NEW S, NEW s \in Seq(S), NEW I, NEW t, t = Selected(s, I)
  PROVE  /\ \A k \in DOMAIN t : \E i \in I \intersect DOMAIN s : t[k] = s[i]
         /\ \A i \in I \intersect DOMAIN s : \E k \in DOMAIN t : t[k] = s[i]
<1>1. t \in Seq(S) /\ Selects(t, s, I \intersect DOMAIN s)
  BY SelectedIs
<1>2. PICK e \in [1 .. Len(t) -> I \intersect DOMAIN s] :
        /\ \A k \in 1 .. Len(t) : t[k] = s[e[k]]
        /\ \A i \in I \intersect DOMAIN s : \E k \in 1 .. Len(t) : e[k] = i
  BY <1>1 DEF Selects
<1>3. DOMAIN t = 1 .. Len(t)
  BY <1>1, LenProperties
<1>4. ASSUME NEW k \in DOMAIN t
      PROVE  \E i \in I \intersect DOMAIN s : t[k] = s[i]
  BY <1>2, <1>3, <1>4
<1>5. ASSUME NEW i \in I \intersect DOMAIN s
      PROVE  \E k \in DOMAIN t : t[k] = s[i]
  BY <1>2, <1>3, <1>5
<1> QED
  BY <1>4, <1>5

(* One more of either is one more of both. *)
LEMMA OneMoreOf ==
  \A a, b \in Nat : (a + 1) + b = (a + b) + 1 /\ a + (b + 1) = (a + b) + 1
OBVIOUS

(* One loop that selects and one that selects the rest leave nothing out.  *)
LEMMA SelectedHalves ==
  ASSUME NEW S, NEW s \in Seq(S), NEW I, NEW J, \A i \in DOMAIN s : i \in I <=> i \notin J
  PROVE  Len(Selected(s, I)) + Len(Selected(s, J)) = Len(s)
<1> DEFINE f == SelectedUpTo(s, I)
           g == SelectedUpTo(s, J)
           N == Len(s)
           P == {n \in 0 .. N : /\ f[n] \in Seq(S) /\ g[n] \in Seq(S)
                                /\ Len(f[n]) + Len(g[n]) = n}
<1>1. N \in Nat /\ DOMAIN s = 1 .. N
  BY LenProperties
<1>2. /\ f[0] = <<>>
      /\ \A n \in 1 .. N : f[n] = IF n \in I THEN Append(f[n - 1], s[n]) ELSE f[n - 1]
  BY <1>1, SelectionTurns
<1>3. /\ g[0] = <<>>
      /\ \A n \in 1 .. N : g[n] = IF n \in J THEN Append(g[n - 1], s[n]) ELSE g[n - 1]
  BY <1>1, SelectionTurns
<1> HIDE DEF f, g, N
<1>4. 0 \in P
  <2>1. <<>> \in Seq(S) /\ Len(<<>>) = 0 /\ 0 \in 0 .. N
    BY <1>1
  <2>2. Len(<<>>) + Len(<<>>) = 0
    BY <2>1
  <2>3. f[0] \in Seq(S) /\ g[0] \in Seq(S) /\ Len(f[0]) + Len(g[0]) = 0
    BY <1>2, <1>3, <2>1, <2>2
  <2> QED
    BY <2>1, <2>3
<1>5. ASSUME NEW n \in 0 .. N - 1, n \in P
      PROVE  n + 1 \in P
  <2>1. f[n] \in Seq(S) /\ g[n] \in Seq(S) /\ Len(f[n]) + Len(g[n]) = n
    BY <1>5
  <2>2. /\ n + 1 \in 0 .. N /\ n + 1 \in 1 .. N /\ (n + 1) - 1 = n
        /\ n + 1 \in I <=> n + 1 \notin J
    BY <1>1
  <2>3. s[n + 1] \in S
    BY <1>1, <2>2, ElementOfSeq
  <2>4. /\ Len(f[n]) \in Nat /\ Len(g[n]) \in Nat
        /\ Append(f[n], s[n + 1]) \in Seq(S) /\ Len(Append(f[n], s[n + 1])) = Len(f[n]) + 1
        /\ Append(g[n], s[n + 1]) \in Seq(S) /\ Len(Append(g[n], s[n + 1])) = Len(g[n]) + 1
    BY <2>1, <2>3, LenProperties, AppendProperties
  <2>5. CASE n + 1 \in I
    <3>1. f[n + 1] = Append(f[n], s[n + 1]) /\ g[n + 1] = g[n]
      BY <1>2, <1>3, <2>2, <2>5
    <3>2. Len(f[n + 1]) + Len(g[n + 1]) = n + 1
      <4>1. Len(f[n + 1]) = Len(f[n]) + 1 /\ Len(g[n + 1]) = Len(g[n])
        BY <2>4, <3>1
      <4>2. Len(f[n + 1]) + Len(g[n + 1]) = (Len(f[n]) + 1) + Len(g[n])
        BY <4>1
      <4>3. (Len(f[n]) + 1) + Len(g[n]) = n + 1
        BY <2>1, <2>4, OneMoreOf
      <4> QED
        BY <4>2, <4>3
    <3> QED
      BY <2>1, <2>2, <2>4, <3>1, <3>2
  <2>6. CASE n + 1 \notin I
    <3>1. f[n + 1] = f[n] /\ g[n + 1] = Append(g[n], s[n + 1])
      BY <1>2, <1>3, <2>2, <2>6
    <3>2. Len(f[n + 1]) + Len(g[n + 1]) = n + 1
      <4>1. Len(f[n + 1]) = Len(f[n]) /\ Len(g[n + 1]) = Len(g[n]) + 1
        BY <2>4, <3>1
      <4>2. Len(f[n + 1]) + Len(g[n + 1]) = Len(f[n]) + (Len(g[n]) + 1)
        BY <4>1
      <4>3. Len(f[n]) + (Len(g[n]) + 1) = n + 1
        BY <2>1, <2>4, OneMoreOf
      <4> QED
        BY <4>2, <4>3
    <3> QED
      BY <2>1, <2>2, <2>4, <3>1, <3>2
  <2> QED
    BY <2>5, <2>6
<1>6. N \in P
  <2> HIDE DEF P
  <2>1. \A n \in 0 .. N : n \in P
    BY <1>1, <1>4, <1>5, InductionUpTo
  <2> QED
    BY <1>1, <2>1
<1> QED
  BY <1>6 DEF Selected, f, g, N
=============================================================================
