--------------------------- MODULE ExchangeProofs ---------------------------
(***************************************************************************)
(* Theorems about Exchange: what its parser holds of a response, for any   *)
(* responses and segments, what its cookie jar holds, for any lines, and   *)
(* which header fields and cookies its requests carry from hop to hop.     *)
(***************************************************************************)
EXTENDS Exchange, SelectionProofs

-----------------------------------------------------------------------------
\* The inductive invariant of the parser.

Wire == response.wire

HeadStates == {"status_line", "headers"}
PlainStates == {"body_raw", "body_until_eof"}

\* The body and then the buffer are what follows the first h tokens fed.
Follows(h) ==
  /\ h + Len(body) + Len(buffer) = sent
  /\ \A i \in 1..Len(body) : body[i] = Wire[h + i]
  /\ \A i \in 1..Len(buffer) : buffer[i] = Wire[h + Len(body) + i]

\* A line ends in front of what follows h tokens.
EndsLine(h) == h >= 2 /\ Wire[h - 1] = "CR" /\ Wire[h] = "LF"

(* A body begins behind an empty line.                                     *)
EndsHead(h) == h >= 4 /\ EndsLine(h) /\ EndsLine(h - 2)

HeadInv ==
  state \in HeadStates =>
    /\ body = <<>>
    /\ \E h \in Nat : Follows(h) /\ (state = "headers" => EndsLine(h))

PlainInv ==
  state \in PlainStates /\ ~hung => \E h \in Nat : Follows(h) /\ EndsHead(h)

RawInv ==
  state = "body_raw" /\ ~hung =>
    /\ contentLength \in Nat
    /\ remaining \in Nat
    /\ Len(body) + remaining = contentLength

(* The body of a response with a length is as long as it says, and is what *)
(* follows the empty line behind its header fields.                        *)
LengthKept ==
  state = "complete" /\ ~chunked =>
    /\ Len(body) = contentLength
    /\ \E h \in Nat :
         /\ EndsHead(h)
         /\ h + Len(body) <= sent
         /\ \A i \in 1..Len(body) : body[i] = Wire[h + i]

ParserInv ==
  /\ response \in Responses
  /\ sent \in Nat /\ sent <= Len(Wire)
  /\ chunked \in BOOLEAN /\ feeding \in BOOLEAN /\ hung \in BOOLEAN /\ moved \in BOOLEAN
  /\ contentLength \in Nat \union {-1}
  /\ state \in HeadStates \union PlainStates => buffer \in Seq(STRING) /\ body \in Seq(STRING)
  /\ state = "complete" /\ ~chunked => body \in Seq(STRING)
  /\ state = "body_chunked" => chunked
  /\ state \in PlainStates => ~chunked
  /\ HeadInv /\ PlainInv /\ RawInv
  /\ LengthKept
  /\ HeaderBufferBounded

-----------------------------------------------------------------------------
\* The invariant of the jar.

(* The jar has the cookies that were set last, each once.                  *)
JarIsLatest ==
  /\ \A i, j \in DOMAIN jar : Key(jar[i]) = Key(jar[j]) => i = j
  /\ DOMAIN latest = {Key(jar[i]) : i \in DOMAIN jar}
  /\ \A i \in DOMAIN jar : latest[Key(jar[i])] = jar[i].value

JarInv == jar \in Seq({jar[i] : i \in DOMAIN jar}) /\ JarIsLatest

-----------------------------------------------------------------------------
\* Sequences and lines.

(* What SubSeq takes out of a sequence. *)
LEMMA WindowIs ==
  ASSUME NEW S, NEW d \in Seq(S), NEW r \in Nat, NEW w \in Nat, r <= w, w <= Len(d)
  PROVE  /\ SubSeq(d, r + 1, w) \in Seq(S)
         /\ Len(SubSeq(d, r + 1, w)) = w - r
         /\ \A i \in 1..w - r : SubSeq(d, r + 1, w)[i] = d[r + i]
<1>1. r + 1 \in Int /\ w \in Int
  OBVIOUS
<1>2. \A i \in r + 1..w : d[i] \in S
  OBVIOUS
<1>3. /\ SubSeq(d, r + 1, w) \in Seq(S)
      /\ Len(SubSeq(d, r + 1, w)) = IF r + 1 <= w THEN w - (r + 1) + 1 ELSE 0
      /\ \A i \in 1..w - (r + 1) + 1 : SubSeq(d, r + 1, w)[i] = d[(r + 1) + i - 1]
  BY <1>1, <1>2, SubSeqProperties
<1>4. Len(SubSeq(d, r + 1, w)) = w - r
  BY <1>3
<1>5. ASSUME NEW i \in 1..w - r
      PROVE  SubSeq(d, r + 1, w)[i] = d[r + i]
  <2>1. i \in 1..w - (r + 1) + 1 /\ (r + 1) + i - 1 = r + i
    OBVIOUS
  <2> QED
    BY <1>3, <2>1
<1> QED
  BY <1>3, <1>4, <1>5

(* Joined sequences, element by element. *)
LEMMA JoinedIs ==
  ASSUME NEW s \in Seq(STRING), NEW t \in Seq(STRING)
  PROVE  /\ s \o t \in Seq(STRING)
         /\ Len(s \o t) = Len(s) + Len(t)
         /\ \A i \in 1..Len(s) : (s \o t)[i] = s[i]
         /\ \A i \in 1..Len(t) : (s \o t)[Len(s) + i] = t[i]
<1>1. /\ s \o t \in Seq(STRING)
      /\ Len(s \o t) = Len(s) + Len(t)
      /\ \A i \in 1..Len(s) + Len(t) :
           (s \o t)[i] = IF i <= Len(s) THEN s[i] ELSE t[i - Len(s)]
  BY ConcatProperties, Zenon
<1>2. Len(s) \in Nat /\ Len(t) \in Nat
  OBVIOUS
<1>3. ASSUME NEW i \in 1..Len(s)
      PROVE  (s \o t)[i] = s[i]
  BY <1>1, <1>2
<1>4. ASSUME NEW i \in 1..Len(t)
      PROVE  (s \o t)[Len(s) + i] = t[i]
  <2>1. Len(s) + i \in 1..Len(s) + Len(t) /\ ~(Len(s) + i <= Len(s)) /\ Len(s) + i - Len(s) = i
    BY <1>2
  <2> QED
    BY <1>1, <2>1
<1> QED
  BY <1>1, <1>3, <1>4

(* A line of the buffer ends with CR and LF. *)
LEMMA LineEndIs ==
  ASSUME buffer \in Seq(STRING), HasLine
  PROVE  /\ LineEnd \in Nat /\ 1 <= LineEnd /\ LineEnd + 1 <= Len(buffer)
         /\ buffer[LineEnd] = "CR" /\ buffer[LineEnd + 1] = "LF"
<1>1. LineEnds \subseteq Nat /\ LineEnds # {}
  BY DEF LineEnds, HasLine
<1>2. \E p \in LineEnds : \A q \in LineEnds : p <= q
  BY <1>1, LeastIs
<1>3. LineEnd \in LineEnds
  BY <1>2 DEF LineEnd
<1>4. Len(buffer) \in Nat
  OBVIOUS
<1> QED
  BY <1>3, <1>4 DEF LineEnds

(* What is left in the buffer behind its first line. *)
LEMMA AfterLineIs ==
  ASSUME buffer \in Seq(STRING), HasLine
  PROVE  /\ AfterLine \in Seq(STRING)
         /\ Len(AfterLine) = Len(buffer) - (LineEnd + 1)
         /\ \A i \in 1..Len(buffer) - (LineEnd + 1) : AfterLine[i] = buffer[LineEnd + 1 + i]
<1>1. LineEnd + 1 \in Nat /\ LineEnd + 1 <= Len(buffer) /\ Len(buffer) \in Nat
  BY LineEndIs
<1>2. LineEnd + 2 = (LineEnd + 1) + 1
  BY LineEndIs
<1> DEFINE r == LineEnd + 1
<1>3. AfterLine = SubSeq(buffer, r + 1, Len(buffer))
  BY <1>2 DEF AfterLine
<1>4. r \in Nat /\ r <= Len(buffer)
  BY <1>1
<1> HIDE DEF r
<1>5. /\ AfterLine \in Seq(STRING)
      /\ Len(AfterLine) = Len(buffer) - r
      /\ \A i \in 1..Len(buffer) - r : AfterLine[i] = buffer[r + i]
  BY <1>1, <1>3, <1>4, WindowIs
<1> QED
  BY <1>5 DEF r

-----------------------------------------------------------------------------
\* What is held of the wire.

\* What the steps of feed() do to the buffer and the body.
Appends(n) ==
  /\ sent + n <= Len(Wire)
  /\ buffer' = buffer \o SubSeq(Wire, sent + 1, sent + n)
  /\ sent' = sent + n
  /\ UNCHANGED <<body, response>>

TakesLine == HasLine /\ buffer' = AfterLine /\ UNCHANGED <<body, response, sent>>

TakesBody(k) ==
  /\ k <= Len(buffer)
  /\ body' = body \o SubSeq(buffer, 1, k)
  /\ buffer' = Drop(buffer, k)
  /\ UNCHANGED <<response, sent>>

(* The wire carries tokens. *)
LEMMA WireType ==
  ASSUME response \in Responses
  PROVE  Wire \in Seq(STRING)
BY ParserAssumption DEF ParserAssumption, Wire

(* feed() appends the segment to the buffer. *)
LEMMA FedFollows ==
  ASSUME response \in Responses, sent \in Nat, NEW n \in Nat, Appends(n),
         buffer \in Seq(STRING), body \in Seq(STRING)
  PROVE  /\ buffer' \in Seq(STRING)
         /\ \A h \in Nat : Follows(h) => Follows(h)'
<1> DEFINE seg == SubSeq(Wire, sent + 1, sent + n)
<1>1. /\ seg \in Seq(STRING)
      /\ Len(seg) = n
      /\ \A i \in 1..n : seg[i] = Wire[sent + i]
  <2>1. sent + n \in Nat /\ sent <= sent + n /\ (sent + n) - sent = n
    OBVIOUS
  <2> QED
    BY <2>1, WireType, WindowIs DEF Appends
<1> HIDE DEF seg
<1>2. buffer' = buffer \o seg /\ sent' = sent + n /\ body' = body /\ Wire' = Wire
  BY DEF seg, Appends, Wire
<1>3. /\ buffer' \in Seq(STRING)
      /\ Len(buffer') = Len(buffer) + n
      /\ \A i \in 1..Len(buffer) : buffer'[i] = buffer[i]
      /\ \A i \in 1..n : buffer'[Len(buffer) + i] = seg[i]
  <2>1. /\ buffer \o seg \in Seq(STRING)
        /\ Len(buffer \o seg) = Len(buffer) + Len(seg)
        /\ \A i \in 1..Len(buffer) : (buffer \o seg)[i] = buffer[i]
        /\ \A i \in 1..Len(seg) : (buffer \o seg)[Len(buffer) + i] = seg[i]
    BY <1>1, JoinedIs
  <2> QED
    BY <1>1, <1>2, <2>1
<1>4. Len(buffer) \in Nat /\ Len(body) \in Nat
  OBVIOUS
<1>5. ASSUME NEW h \in Nat, Follows(h)
      PROVE  Follows(h)'
  <2>1. /\ h + Len(body) + Len(buffer) = sent
        /\ \A i \in 1..Len(body) : body[i] = Wire[h + i]
        /\ \A i \in 1..Len(buffer) : buffer[i] = Wire[h + Len(body) + i]
    BY <1>5 DEF Follows
  <2>2. h + Len(body) + Len(buffer') = sent'
    <3>1. /\ h + Len(body) + Len(buffer) = sent
          /\ Len(buffer') = Len(buffer) + n
          /\ sent' = sent + n
      BY <1>2, <1>3, <2>1
    <3> QED
      BY <1>4, <3>1
  <2>3. ASSUME NEW i \in 1..Len(buffer')
        PROVE  buffer'[i] = Wire[h + Len(body) + i]
    <3>1. CASE i <= Len(buffer)
      BY <1>3, <1>4, <2>1, <3>1
    <3>2. CASE ~(i <= Len(buffer))
      <4>1. PICK j \in 1..n : i = Len(buffer) + j
        <5>1. i - Len(buffer) \in 1..n /\ i = Len(buffer) + (i - Len(buffer))
          BY <1>3, <1>4, <3>2
        <5> QED
          BY <5>1
      <4>2. buffer'[i] = Wire[sent + j]
        BY <1>1, <1>3, <4>1
      <4>3. sent + j = h + Len(body) + i
        <5>1. h + Len(body) + Len(buffer) = sent /\ i = Len(buffer) + j
          BY <2>1, <4>1
        <5> QED
          BY <1>4, <4>1, <5>1
      <4> QED
        BY <4>2, <4>3
    <3> QED
      BY <3>1, <3>2
  <2> QED
    BY <1>2, <2>1, <2>2, <2>3 DEF Follows
<1> QED
  BY <1>3, <1>5

(* A line that is taken from the buffer was in front of what it holds now. *)
LEMMA LineFollows ==
  ASSUME buffer \in Seq(STRING), body = <<>>, NEW h \in Nat, Follows(h), TakesLine
  PROVE  /\ buffer' \in Seq(STRING)
         /\ \E g \in Nat : /\ Follows(g)' /\ EndsLine(g)'
                          /\ g = h + (LineEnd + 1) /\ (LineEnd = 1 => g = h + 2)
<1>1. /\ LineEnd \in Nat /\ 1 <= LineEnd /\ LineEnd + 1 <= Len(buffer)
      /\ buffer[LineEnd] = "CR" /\ buffer[LineEnd + 1] = "LF"
  BY LineEndIs DEF TakesLine
<1>2. Len(body) = 0 /\ Len(buffer) \in Nat
  OBVIOUS
<1>3. h + Len(buffer) = sent /\ \A i \in 1..Len(buffer) : buffer[i] = Wire[h + i]
  BY <1>2 DEF Follows
<1>4. /\ buffer' \in Seq(STRING)
      /\ Len(buffer') = Len(buffer) - (LineEnd + 1)
      /\ \A i \in 1..Len(buffer) - (LineEnd + 1) : buffer'[i] = buffer[LineEnd + 1 + i]
      /\ body' = body /\ sent' = sent /\ Wire' = Wire
  BY AfterLineIs DEF TakesLine, Wire
<1>5. PICK g \in Nat : g - 1 = h + LineEnd /\ g = h + (LineEnd + 1) /\ g >= 2
  <2> DEFINE b == h + (LineEnd + 1)
  <2>1. b \in Nat /\ b - 1 = h + LineEnd /\ b = h + (LineEnd + 1) /\ b >= 2
    BY <1>1
  <2> HIDE DEF b
  <2> QED
    BY <2>1
<1>6. EndsLine(g)
  BY <1>1, <1>2, <1>3, <1>5 DEF EndsLine
<1>7. g + 0 + Len(buffer') = sent'
  <2>1. /\ h + Len(buffer) = sent /\ sent' = sent /\ g = h + (LineEnd + 1)
        /\ Len(buffer') = Len(buffer) - (LineEnd + 1)
    BY <1>3, <1>4, <1>5
  <2> QED
    BY <1>1, <1>2, <2>1
<1>8. ASSUME NEW i \in 1..Len(buffer')
      PROVE  buffer'[i] = Wire[g + 0 + i]
  <2>1. LineEnd + 1 + i \in 1..Len(buffer) /\ h + (LineEnd + 1 + i) = g + 0 + i
    BY <1>1, <1>2, <1>4, <1>5
  <2> QED
    BY <1>3, <1>4, <2>1
<1>9. Len(body') = 0
  BY <1>2, <1>4
<1>10. Follows(g)'
  <2>1. /\ g + Len(body') + Len(buffer') = sent'
        /\ \A i \in 1..Len(buffer') : buffer'[i] = Wire'[g + Len(body') + i]
    BY <1>4, <1>7, <1>8, <1>9
  <2>2. \A i \in 1..Len(body') : FALSE
    BY <1>9
  <2> QED
    BY <2>1, <2>2 DEF Follows
<1>11. EndsLine(g)' /\ (LineEnd = 1 => g = h + 2)
  BY <1>1, <1>4, <1>5, <1>6 DEF EndsLine
<1> QED
  BY <1>4, <1>5, <1>6, <1>10, <1>11

(* Bytes of the body are taken from the front of the buffer. *)
LEMMA BodyFollows ==
  ASSUME buffer \in Seq(STRING), body \in Seq(STRING), NEW k \in Nat, TakesBody(k)
  PROVE  /\ buffer' \in Seq(STRING) /\ body' \in Seq(STRING)
         /\ Len(body') = Len(body) + k
         /\ \A h \in Nat : Follows(h) => Follows(h)'
<1> DEFINE taken == SubSeq(buffer, 1, k)
<1>1. Len(buffer) \in Nat /\ Len(body) \in Nat /\ k <= Len(buffer)
  BY DEF TakesBody
<1>2. /\ taken \in Seq(STRING)
      /\ Len(taken) = k
      /\ \A i \in 1..k : taken[i] = buffer[i]
  <2>1. PICK z \in Nat : z = 0
    OBVIOUS
  <2>2. z <= k
    BY <2>1
  <2>3. /\ SubSeq(buffer, z + 1, k) \in Seq(STRING)
        /\ Len(SubSeq(buffer, z + 1, k)) = k - z
        /\ \A i \in 1..k - z : SubSeq(buffer, z + 1, k)[i] = buffer[z + i]
    BY <1>1, <2>2, WindowIs
  <2>4. z + 1 = 1 /\ k - z = k /\ \A i \in 1..k : z + i = i
    BY <2>1
  <2> QED
    BY <2>3, <2>4
<1>3. /\ buffer' \in Seq(STRING)
      /\ Len(buffer') = Len(buffer) - k
      /\ \A i \in 1..Len(buffer) - k : buffer'[i] = buffer[k + i]
  BY <1>1, WindowIs DEF Drop, TakesBody
<1> HIDE DEF taken
<1>4. body' = body \o taken /\ sent' = sent /\ Wire' = Wire
  BY DEF taken, TakesBody, Wire
<1>5. /\ body' \in Seq(STRING)
      /\ Len(body') = Len(body) + k
      /\ \A i \in 1..Len(body) : body'[i] = body[i]
      /\ \A i \in 1..k : body'[Len(body) + i] = taken[i]
  <2>1. /\ body \o taken \in Seq(STRING)
        /\ Len(body \o taken) = Len(body) + Len(taken)
        /\ \A i \in 1..Len(body) : (body \o taken)[i] = body[i]
        /\ \A i \in 1..Len(taken) : (body \o taken)[Len(body) + i] = taken[i]
    BY <1>2, JoinedIs
  <2> QED
    BY <1>2, <1>4, <2>1
<1>6. ASSUME NEW h \in Nat, Follows(h)
      PROVE  Follows(h)'
  <2>1. /\ h + Len(body) + Len(buffer) = sent
        /\ \A i \in 1..Len(body) : body[i] = Wire[h + i]
        /\ \A i \in 1..Len(buffer) : buffer[i] = Wire[h + Len(body) + i]
    BY <1>6 DEF Follows
  <2>2. h + Len(body') + Len(buffer') = sent
    <3>1. /\ h + Len(body) + Len(buffer) = sent
          /\ Len(body') = Len(body) + k
          /\ Len(buffer') = Len(buffer) - k
      BY <1>3, <1>5, <2>1
    <3> QED
      BY <1>1, <3>1
  <2>3. ASSUME NEW i \in 1..Len(body')
        PROVE  body'[i] = Wire[h + i]
    <3>1. CASE i <= Len(body)
      BY <1>1, <1>5, <2>1, <3>1
    <3>2. CASE ~(i <= Len(body))
      <4>1. PICK j \in 1..k : i = Len(body) + j
        <5>1. i - Len(body) \in 1..k /\ i = Len(body) + (i - Len(body))
          BY <1>1, <1>5, <3>2
        <5> QED
          BY <5>1
      <4>2. body'[i] = buffer[j] /\ j \in 1..Len(buffer)
        BY <1>1, <1>2, <1>5, <4>1
      <4>3. h + Len(body) + j = h + i
        BY <1>1, <4>1
      <4> QED
        BY <2>1, <4>2, <4>3
    <3> QED
      BY <3>1, <3>2
  <2>4. ASSUME NEW i \in 1..Len(buffer')
        PROVE  buffer'[i] = Wire[h + Len(body') + i]
    <3>1. k + i \in 1..Len(buffer) /\ h + Len(body) + (k + i) = h + Len(body') + i
      <4>1. Len(body') = Len(body) + k /\ Len(buffer') = Len(buffer) - k
        BY <1>3, <1>5
      <4> QED
        BY <1>1, <4>1
    <3>2. buffer'[i] = buffer[k + i]
      BY <1>1, <1>3
    <3> QED
      BY <2>1, <3>1, <3>2
  <2> QED
    BY <1>4, <2>2, <2>3, <2>4 DEF Follows
<1> QED
  BY <1>3, <1>5, <1>6

-----------------------------------------------------------------------------
\* The steps of the parser.

Places == HeadStates \union PlainStates

(* feed() begins: a piece of the wire is put behind the buffer. *)
LEMMA FeedStep ==
  ASSUME ParserInv, NEW n \in 1..Len(Wire), Feed(n)
  PROVE  ParserInv'
<1>1. /\ ~hung /\ sent' = sent + n /\ sent + n <= Len(Wire)
      /\ UNCHANGED <<state, body, headVars, moved, hung, response>>
  BY DEF Feed, Wire
<1>2. n \in Nat /\ sent \in Nat /\ Len(Wire) \in Nat /\ sent <= sent + n /\ response \in Responses
  BY WireType DEF ParserInv
<1>3. sent' \in Nat /\ sent' <= Len(Wire)' /\ response' \in Responses
  BY <1>1, <1>2 DEF Wire
<1>4. CASE state \in {"complete", "error"}
  <2>1. feeding' = feeding /\ buffer' = buffer
    BY <1>4 DEF Feed
  <2>2. LengthKept'
    <3> SUFFICES ASSUME state = "complete", ~chunked
                 PROVE  LengthKept'
      BY <1>1 DEF LengthKept, headVars
    <3>1. Len(body) = contentLength /\ body \in Seq(STRING)
      BY DEF ParserInv, LengthKept
    <3>2. PICK h \in Nat : /\ EndsHead(h)
                           /\ h + Len(body) <= sent
                           /\ \A i \in 1..Len(body) : body[i] = Wire[h + i]
      BY DEF ParserInv, LengthKept
    <3>3. h + Len(body) <= sent'
      <4>1. Len(body) \in Nat
        BY <3>1
      <4> QED
        BY <1>1, <1>2, <3>2, <4>1
    <3>4. EndsHead(h)'
      BY <1>1, <3>2 DEF EndsHead, EndsLine, Wire
    <3> QED
      BY <1>1, <3>1, <3>2, <3>3, <3>4 DEF LengthKept, Wire, headVars
  <2> QED
    BY <1>1, <1>3, <1>4, <2>1, <2>2
       DEF ParserInv, HeadInv, PlainInv, RawInv, HeaderBufferBounded, HeadStates, PlainStates,
           headVars
<1>5. CASE state \notin {"complete", "error"}
  <2>1. Appends(n) /\ feeding' = TRUE
    BY <1>1, <1>5 DEF Feed, Appends, Wire
  <2>2. CASE state \in Places
    <3>1. buffer \in Seq(STRING) /\ body \in Seq(STRING)
      BY <2>2 DEF ParserInv, Places
    <3>2. buffer' \in Seq(STRING) /\ \A h \in Nat : Follows(h) => Follows(h)'
      BY <1>2, <2>1, <3>1, FedFollows
    <3>3. \A h \in Nat : EndsLine(h)' = EndsLine(h) /\ EndsHead(h)' = EndsHead(h)
      BY <1>1 DEF EndsHead, EndsLine, Wire
    <3>4. HeadInv' /\ PlainInv'
      BY <1>1, <3>2, <3>3 DEF ParserInv, HeadInv, PlainInv
    <3>5. RawInv'
      BY <1>1 DEF ParserInv, RawInv, headVars
    <3> QED
      BY <1>1, <1>3, <1>5, <2>1, <3>1, <3>2, <3>4, <3>5
         DEF ParserInv, LengthKept, HeaderBufferBounded, headVars
  <2>3. CASE state \notin Places
    BY <1>1, <1>3, <1>5, <2>1, <2>3
       DEF ParserInv, HeadInv, PlainInv, RawInv, LengthKept, HeaderBufferBounded, HeadStates,
           PlainStates, Places, headVars
  <2> QED
    BY <2>2, <2>3
<1> QED
  BY <1>4, <1>5

(* feed() fails, or waits for more. *)
LEMMA FailStep ==
  ASSUME ParserInv, Fail, UNCHANGED <<moved, wireVars>>
  PROVE  ParserInv'
BY DEF ParserInv, Fail, Return, wireVars, headVars, HeadInv, PlainInv, RawInv, LengthKept,
       HeaderBufferBounded, HeadStates, PlainStates, Wire

(* feed() returns for want of bytes. *)
LEMMA WaitStep ==
  ASSUME ParserInv, Return(state), UNCHANGED <<buffer, body, headVars, hung, moved, wireVars>>,
         state \in HeadStates => Len(buffer) <= MaxHeader
  PROVE  ParserInv'
<1>1. \A h \in Nat : /\ Follows(h)' = Follows(h)
                     /\ EndsLine(h)' = EndsLine(h)
                     /\ EndsHead(h)' = EndsHead(h)
  BY DEF Follows, EndsHead, EndsLine, Wire, wireVars
<1>2. HeadInv' /\ PlainInv' /\ RawInv'
  BY <1>1 DEF ParserInv, HeadInv, PlainInv, RawInv, Return, headVars
<1>3. LengthKept'
  BY <1>1 DEF ParserInv, LengthKept, Return, headVars, wireVars, Wire
<1>4. HeaderBufferBounded'
  BY DEF HeaderBufferBounded, Return, HeadStates
<1> QED
  BY <1>2, <1>3, <1>4 DEF ParserInv, Return, headVars, wireVars, Wire

(* No whole line: feed() waits for more, or the buffer is too large. *)
LEMMA NoLineStep ==
  ASSUME ParserInv, NoLine, UNCHANGED <<moved, wireVars>>
  PROVE  ParserInv'
<1>1. Len(buffer) \in Nat /\ MaxHeader \in Nat
  BY ParserAssumption DEF ParserAssumption, NoLine, ParserInv, HeadStates
<1>2. CASE Len(buffer) > MaxHeader
  BY <1>2, FailStep DEF NoLine
<1>3. CASE ~(Len(buffer) > MaxHeader)
  <2>1. Len(buffer) <= MaxHeader
    BY <1>1, <1>3
  <2> QED
    BY <1>3, <2>1, WaitStep DEF NoLine
<1> QED
  BY <1>2, <1>3

(* A line of the head is consumed, and the parser goes on.                 *)
LEMMA HeadLineStep ==
  ASSUME ParserInv, feeding, ~hung, state \in HeadStates, HasLine, UNCHANGED <<moved, wireVars>>,
         UNCHANGED <<body, feeding, hung>>, buffer' = AfterLine,
         state' \in HeadStates, chunked' \in BOOLEAN, contentLength' \in Nat \union {-1}
  PROVE  ParserInv'
<1>1. buffer \in Seq(STRING) /\ body = <<>> /\ body \in Seq(STRING)
  BY DEF ParserInv, HeadInv
<1>2. PICK h \in Nat : Follows(h)
  BY DEF ParserInv, HeadInv
<1>3. TakesLine
  BY DEF TakesLine, wireVars
<1>4. buffer' \in Seq(STRING) /\ \E g \in Nat : Follows(g)' /\ EndsLine(g)'
  BY <1>1, <1>2, <1>3, LineFollows
<1>5. HeadInv'
  BY <1>1, <1>4 DEF HeadInv
<1>6. state' \notin PlainStates \union {"complete", "body_chunked"}
  BY DEF HeadStates, PlainStates
<1> QED
  BY <1>1, <1>4, <1>5, <1>6
     DEF ParserInv, PlainInv, RawInv, LengthKept, HeaderBufferBounded, wireVars, Wire, PlainStates

(* process_status_line(). *)
LEMMA StatusLineStep ==
  ASSUME ParserInv, feeding, ~hung, StatusLine, UNCHANGED <<moved, wireVars>>
  PROVE  ParserInv'
<1>1. CASE IsStatusLine(Line)
  <2>1. /\ state \in HeadStates /\ state' \in HeadStates
        /\ chunked' \in BOOLEAN /\ contentLength' \in Nat \union {-1}
    BY <1>1 DEF StatusLine, HeadStates, headVars, ParserInv
  <2> QED
    BY <1>1, <2>1, HeadLineStep DEF StatusLine
<1>2. CASE ~IsStatusLine(Line)
  BY <1>2, FailStep DEF StatusLine
<1> QED
  BY <1>1, <1>2

(* process_headers(), of one line. *)
LEMMA HeaderLineStep ==
  ASSUME ParserInv, feeding, ~hung, HeaderLine, UNCHANGED <<moved, wireVars>>
  PROVE  ParserInv'
<1>1. CASE IsHeaderLine(Line)
  <2>1. state \in HeadStates /\ state' \in HeadStates
    BY <1>1 DEF HeaderLine, HeadStates
  <2>2. chunked' \in BOOLEAN
    BY <1>1 DEF HeaderLine
  <2>3. contentLength' \in Nat \union {-1}
    BY <1>1, ParserAssumption DEF ParserAssumption, HeaderLine, ParserInv
  <2> QED
    BY <1>1, <2>1, <2>2, <2>3, HeadLineStep DEF HeaderLine
<1>2. CASE ~IsHeaderLine(Line)
  BY <1>2, FailStep DEF HeaderLine
<1> QED
  BY <1>1, <1>2

(* The body begins behind the empty line, with all of its length to come.  *)
LEMMA EndOfHeadersStep ==
  ASSUME ParserInv, feeding, ~hung, EndOfHeaders, UNCHANGED <<moved, wireVars>>
  PROVE  ParserInv'
<1>1. /\ buffer \in Seq(STRING) /\ body = <<>> /\ body \in Seq(STRING)
      /\ chunked \in BOOLEAN /\ contentLength \in Nat \union {-1}
  BY DEF ParserInv, HeadInv, EndOfHeaders, HeadStates
<1>2. PICK h \in Nat : Follows(h) /\ EndsLine(h)
  BY DEF ParserInv, HeadInv, EndOfHeaders, HeadStates
<1>3. TakesLine
  BY DEF TakesLine, EndOfHeaders, wireVars
<1>4. PICK g \in Nat : Follows(g)' /\ EndsLine(g)' /\ (LineEnd = 1 => g = h + 2)
  BY <1>1, <1>2, <1>3, LineFollows
<1>5. buffer' \in Seq(STRING)
  BY <1>1, <1>2, <1>3, LineFollows
<1>6. LineEnd = 1
  <2>1. LineEnd \in Nat /\ 1 <= LineEnd /\ LineEnd + 1 <= Len(buffer)
    BY <1>1, LineEndIs DEF EndOfHeaders
  <2>2. Len(SubSeq(buffer, 1, LineEnd - 1)) = LineEnd - 1
    <3>1. PICK z \in Nat : z = 0
      OBVIOUS
    <3>2. LineEnd - 1 \in Nat /\ z <= LineEnd - 1 /\ LineEnd - 1 <= Len(buffer)
      BY <1>1, <2>1, <3>1
    <3>3. Len(SubSeq(buffer, z + 1, LineEnd - 1)) = LineEnd - 1 - z
      BY <1>1, <3>2, WindowIs
    <3> QED
      BY <2>1, <3>1, <3>3
  <2>3. SubSeq(buffer, 1, LineEnd - 1) = <<>>
    BY DEF EndOfHeaders, Line
  <2>4. Len(<<>>) = 0
    OBVIOUS
  <2> QED
    BY <2>1, <2>2, <2>3, <2>4
<1>7. EndsHead(g)'
  <2>1. g = h + 2 /\ h >= 2
    BY <1>2, <1>4, <1>6 DEF EndsLine
  <2>2. g >= 4 /\ g - 2 = h
    BY <2>1
  <2>3. EndsLine(h)'
    BY <1>2 DEF EndsLine, Wire, wireVars
  <2>4. EndsLine(g - 2)'
    BY <2>2, <2>3
  <2> QED
    BY <1>4, <2>2, <2>4 DEF EndsHead
<1>8. /\ body' = <<>> /\ UNCHANGED <<chunked, contentLength, feeding, hung, response, sent>>
      /\ state' = IF chunked THEN "body_chunked"
                  ELSE IF contentLength # -1 THEN "body_raw" ELSE "body_until_eof"
  BY <1>1 DEF EndOfHeaders, wireVars
<1>9. PlainInv' /\ HeadInv'
  BY <1>4, <1>7, <1>8 DEF PlainInv, HeadInv, HeadStates
<1>10. RawInv'
  <2> SUFFICES ASSUME state' = "body_raw"
               PROVE  RawInv'
    BY DEF RawInv
  <2>1. ~chunked /\ contentLength # -1
    BY <1>8
  <2>2. contentLength' \in Nat /\ remaining' = contentLength'
    BY <1>1, <1>8, <2>1 DEF EndOfHeaders
  <2>3. Len(body') = 0
    BY <1>8
  <2>4. remaining' \in Nat /\ 0 + remaining' = contentLength'
    <3>1. PICK c \in Nat : c = contentLength'
      BY <2>2
    <3>2. c = remaining'
      BY <2>2, <3>1
    <3>3. 0 + c = c
      OBVIOUS
    <3> QED
      BY <3>1, <3>2, <3>3
  <2>5. Len(body') + remaining' = contentLength'
    BY <2>3, <2>4
  <2> QED
    BY <2>2, <2>4, <2>5 DEF RawInv
<1> QED
  BY <1>1, <1>5, <1>8, <1>9, <1>10
     DEF ParserInv, LengthKept, HeaderBufferBounded, HeadStates, PlainStates, Wire

(* Content-Length: what is read of the body is no longer to come.          *)
LEMMA ReadRawStep ==
  ASSUME ParserInv, feeding, ~hung, ReadRaw, UNCHANGED <<moved, wireVars>>
  PROVE  ParserInv'
<1>1. /\ state = "body_raw" /\ ~chunked /\ moved \in BOOLEAN
      /\ buffer \in Seq(STRING) /\ body \in Seq(STRING)
      /\ contentLength \in Nat /\ remaining \in Nat
      /\ Len(body) + remaining = contentLength
      /\ Len(buffer) \in Nat /\ Len(body) \in Nat
  BY DEF ReadRaw, ParserInv, RawInv, PlainStates
<1>2. PICK h \in Nat : Follows(h) /\ EndsHead(h)
  BY <1>1 DEF ParserInv, PlainInv, PlainStates
<1>3. PICK k \in Nat : k = ToRead /\ k <= Len(buffer) /\ k <= remaining
  <2>1. ToRead \in Nat /\ ToRead <= Len(buffer) /\ ToRead <= remaining
    BY <1>1 DEF ToRead
  <2> QED
    BY <2>1
<1>4. /\ buffer' = Drop(buffer, k)
      /\ remaining' = remaining - k
      /\ hung' = (moved /\ k > 0)
      /\ ReturnOrHang(IF remaining' = 0 THEN "complete" ELSE state)
      /\ UNCHANGED <<chunked, contentLength, response, sent>>
  BY <1>3 DEF ReadRaw, Write, wireVars
<1>5. remaining' \in Nat
  BY <1>1, <1>3, <1>4
<1>6. EndsHead(h)'
  BY <1>2, <1>4 DEF EndsHead, EndsLine, Wire
<1>7. CASE moved /\ k > 0
  <2>1. state' = state /\ body' = body /\ hung' = TRUE /\ feeding' = TRUE
    BY <1>3, <1>4, <1>7 DEF ReturnOrHang, ReadRaw, Write
  <2>2. buffer' \in Seq(STRING)
    BY <1>1, <1>3, <1>4, WindowIs DEF Drop
  <2> QED
    BY <1>1, <1>4, <1>5, <2>1, <2>2
       DEF ParserInv, HeadInv, PlainInv, RawInv, LengthKept, HeaderBufferBounded, HeadStates, Wire
<1>8. CASE ~(moved /\ k > 0)
  <2>1. TakesBody(k)
    BY <1>3, <1>4, <1>8 DEF ReadRaw, Write, TakesBody
  <2>2. /\ buffer' \in Seq(STRING) /\ body' \in Seq(STRING)
        /\ Len(body') = Len(body) + k
        /\ Follows(h)'
    BY <1>1, <1>2, <2>1, BodyFollows
  <2>3. /\ hung' = FALSE /\ feeding' = FALSE
        /\ state' = IF remaining' = 0 THEN "complete" ELSE "body_raw"
    BY <1>1, <1>4, <1>8 DEF ReturnOrHang
  <2>4. Len(body') + remaining' = contentLength'
    <3>1. Len(body') = Len(body) + k /\ remaining' = remaining - k
          /\ contentLength' = contentLength
      BY <1>4, <2>2
    <3> QED
      BY <1>1, <3>1
  <2>5. PlainInv' /\ RawInv'
    BY <1>1, <1>4, <1>5, <1>6, <2>2, <2>4 DEF PlainInv, RawInv
  <2>6. LengthKept'
    <3> SUFFICES ASSUME remaining' = 0
                 PROVE  LengthKept'
      BY <2>3 DEF LengthKept
    <3>1. Len(body') \in Nat /\ Len(buffer') \in Nat
      BY <2>2
    <3>2. Len(body') = contentLength'
      BY <2>4, <3>1
    <3>3. /\ h + Len(body') + Len(buffer') = sent'
          /\ \A i \in 1..Len(body') : body'[i] = Wire'[h + i]
      BY <2>2 DEF Follows
    <3>4. h + Len(body') <= sent'
      BY <3>1, <3>3
    <3> QED
      BY <1>6, <3>2, <3>3, <3>4 DEF LengthKept
  <2> QED
    BY <1>1, <1>4, <1>5, <2>2, <2>3, <2>5, <2>6
       DEF ParserInv, HeadInv, HeaderBufferBounded, HeadStates, PlainStates, Wire
<1> QED
  BY <1>7, <1>8

(* Without a length or chunks, everything is the body.                     *)
LEMMA ReadUntilEofStep ==
  ASSUME ParserInv, feeding, ~hung, ReadUntilEof, UNCHANGED <<moved, wireVars>>
  PROVE  ParserInv'
<1>1. /\ state = "body_until_eof" /\ ~chunked /\ moved \in BOOLEAN
      /\ buffer \in Seq(STRING) /\ body \in Seq(STRING)
  BY DEF ReadUntilEof, ParserInv, PlainStates
<1>2. PICK h \in Nat : Follows(h) /\ EndsHead(h)
  BY <1>1 DEF ParserInv, PlainInv, PlainStates
<1>3. PICK k \in Nat : k = Len(buffer) /\ k <= Len(buffer)
  BY <1>1
<1>4. /\ buffer' = <<>> /\ buffer' \in Seq(STRING)
      /\ hung' = (moved /\ k > 0)
      /\ state' = state
      /\ feeding' \in BOOLEAN
      /\ UNCHANGED <<chunked, contentLength, remaining, response, sent>>
  BY <1>3, EmptySeq DEF ReadUntilEof, Write, ReturnOrHang, wireVars, headVars
<1>5. EndsHead(h)'
  BY <1>2, <1>4 DEF EndsHead, EndsLine, Wire
<1>6. CASE moved /\ k > 0
  <2>1. body' = body /\ hung' = TRUE
    BY <1>3, <1>4, <1>6 DEF ReadUntilEof, Write
  <2> QED
    BY <1>1, <1>4, <2>1
       DEF ParserInv, HeadInv, PlainInv, RawInv, LengthKept, HeaderBufferBounded, HeadStates, Wire
<1>7. CASE ~(moved /\ k > 0)
  <2>1. Drop(buffer, k) = <<>>
    BY <1>3, SubSeqEmpty DEF Drop
  <2>2. TakesBody(k)
    BY <1>3, <1>4, <1>7, <2>1 DEF ReadUntilEof, Write, TakesBody
  <2>3. body' \in Seq(STRING) /\ Follows(h)'
    BY <1>1, <1>2, <2>2, BodyFollows
  <2>4. PlainInv'
    BY <1>5, <2>3 DEF PlainInv
  <2> QED
    BY <1>1, <1>4, <2>3, <2>4
       DEF ParserInv, HeadInv, RawInv, LengthKept, HeaderBufferBounded, HeadStates, Wire
<1> QED
  BY <1>6, <1>7

(* Chunks keep the parser away from the states of the other framings.      *)
LEMMA ChunkedStep ==
  ASSUME ParserInv, feeding, state = "body_chunked", UNCHANGED <<moved, wireVars>>,
         ChunkNoLine \/ ChunkBadSize \/ ChunkLast \/ ChunkIncomplete \/ ChunkWhole
  PROVE  ParserInv'
<1>1. chunked /\ moved \in BOOLEAN
  BY DEF ParserInv
<1>2. /\ state' \in {"body_chunked", "complete", "error"}
      /\ feeding' \in BOOLEAN /\ hung' \in BOOLEAN
      /\ UNCHANGED headVars
  BY <1>1 DEF ParserInv, ChunkNoLine, ChunkBadSize, ChunkLast, ChunkIncomplete, ChunkWhole,
              Fail, Return
<1> QED
  BY <1>1, <1>2 DEF ParserInv, HeadInv, PlainInv, RawInv, LengthKept, HeaderBufferBounded,
                    HeadStates, PlainStates, headVars, wireVars, Wire

(* release_response(). *)
LEMMA ReleaseResponseStep ==
  ASSUME ParserInv, ReleaseResponse
  PROVE  ParserInv'
<1>1. state = "complete" /\ moved' = TRUE
      /\ UNCHANGED <<state, buffer, body, headVars, feeding, hung, wireVars>>
  BY DEF ReleaseResponse
<1>2. \A h \in Nat : EndsHead(h)' = EndsHead(h)
  BY <1>1 DEF EndsHead, EndsLine, Wire, wireVars
<1>3. LengthKept'
  BY <1>1, <1>2 DEF ParserInv, LengthKept, headVars, wireVars, Wire
<1> QED
  BY <1>1, <1>3 DEF ParserInv, HeadInv, PlainInv, RawInv, HeaderBufferBounded,
                    HeadStates, PlainStates, headVars, wireVars, Wire

(* reset(), and what every parser starts from. *)
LEMMA ClearedStep ==
  ASSUME Cleared, feeding' \in BOOLEAN, hung' \in BOOLEAN, moved' \in BOOLEAN
  PROVE  ParserInv'
<1>1. /\ state' = "status_line" /\ buffer' = <<>> /\ body' = <<>> /\ chunked' = FALSE
      /\ contentLength' = -1 /\ response' \in Responses /\ sent' = 0
  BY DEF Cleared
<1>2. <<>> \in Seq(STRING) /\ Len(<<>>) = 0 /\ Len(response'.wire) \in Nat /\ MaxHeader \in Nat
  BY <1>1, ParserAssumption DEF ParserAssumption
<1>3. Follows(0)'
  BY <1>1, <1>2 DEF Follows
<1>4. HeadInv'
  BY <1>1, <1>3 DEF HeadInv
<1>5. HeaderBufferBounded'
  BY <1>1, <1>2 DEF HeaderBufferBounded
<1>6. sent' \in Nat /\ sent' <= Len(Wire)'
  BY <1>1, <1>2 DEF Wire
<1> QED
  BY <1>1, <1>2, <1>4, <1>5, <1>6 DEF ParserInv, PlainInv, RawInv, LengthKept, PlainStates

(* Each step of the parser keeps the invariant. *)
LEMMA ParserStep ==
  ASSUME ParserInv, ParserNext
  PROVE  ParserInv'
<1>1. CASE \E n \in 1..Len(response.wire) : Feed(n)
  BY <1>1, FeedStep DEF Wire
<1>2. CASE Step
  <2>1. feeding /\ ~hung /\ UNCHANGED <<moved, wireVars>>
    BY <1>2 DEF Step
  <2>2. CASE NoLine
    BY <2>1, <2>2, NoLineStep
  <2>3. CASE StatusLine \/ HeaderLine \/ EndOfHeaders
    BY <2>1, <2>3, StatusLineStep, HeaderLineStep, EndOfHeadersStep
  <2>4. CASE ReadRaw
    BY <2>1, <2>4, ReadRawStep
  <2>5. CASE ReadUntilEof
    BY <2>1, <2>5, ReadUntilEofStep
  <2>6. CASE ChunkNoLine \/ ChunkBadSize \/ ChunkLast \/ ChunkIncomplete \/ ChunkWhole
    <3>1. state = "body_chunked"
      BY <2>6 DEF ChunkNoLine, ChunkBadSize, ChunkLast, ChunkIncomplete, ChunkWhole
    <3> QED
      BY <2>1, <2>6, <3>1, ChunkedStep
  <2> QED
    BY <1>2, <2>2, <2>3, <2>4, <2>5, <2>6 DEF Step
<1>3. CASE ReleaseResponse
  BY <1>3, ReleaseResponseStep
<1>4. CASE Reset
  BY <1>4, ClearedStep DEF Reset, ParserInv
<1> QED
  BY <1>1, <1>2, <1>3, <1>4 DEF ParserNext

(* So does each step that leaves the parser alone. *)
LEMMA ParserStutters ==
  ASSUME ParserInv, UNCHANGED parserVars
  PROVE  ParserInv'
<1>1. \A h \in Nat : /\ Follows(h)' = Follows(h)
                     /\ EndsLine(h)' = EndsLine(h)
                     /\ EndsHead(h)' = EndsHead(h)
  BY DEF Follows, EndsHead, EndsLine, Wire, wireVars, parserVars
<1>2. HeadInv' /\ PlainInv' /\ RawInv'
  BY <1>1 DEF ParserInv, HeadInv, PlainInv, RawInv, headVars, parserVars
<1>3. LengthKept'
  BY <1>1 DEF ParserInv, LengthKept, headVars, wireVars, Wire, parserVars
<1> QED
  BY <1>2, <1>3 DEF ParserInv, HeaderBufferBounded, headVars, wireVars, Wire, parserVars

(* A new parser has it. *)
LEMMA ParserInit_Inv ==
  ASSUME ParserInit
  PROVE  ParserInv
<1>1. /\ state = "status_line" /\ buffer = <<>> /\ body = <<>> /\ chunked = FALSE
      /\ contentLength = -1 /\ response \in Responses /\ sent = 0
      /\ moved = FALSE /\ feeding = FALSE /\ hung = FALSE
  BY DEF ParserInit
<1>2. <<>> \in Seq(STRING) /\ Len(<<>>) = 0 /\ Len(response.wire) \in Nat /\ MaxHeader \in Nat
  BY <1>1, ParserAssumption DEF ParserAssumption
<1>3. Follows(0)
  BY <1>1, <1>2 DEF Follows
<1>4. HeadInv
  BY <1>1, <1>3 DEF HeadInv
<1>5. HeaderBufferBounded
  BY <1>1, <1>2 DEF HeaderBufferBounded
<1>6. sent \in Nat /\ sent <= Len(Wire)
  BY <1>1, <1>2 DEF Wire
<1> QED
  BY <1>1, <1>2, <1>4, <1>5, <1>6 DEF ParserInv, PlainInv, RawInv, LengthKept, PlainStates

(* do_execute() gives each request a parser of its own.                    *)
LEMMA ExchangeParserStep ==
  ASSUME ParserInv, [Next]_vars
  PROVE  ParserInv'
<1>1. CASE UNCHANGED parserVars
  BY <1>1, ParserStutters
<1>2. CASE ParserNext
  BY <1>2, ParserStep
<1>3. CASE NewParser
  BY <1>3, ClearedStep DEF NewParser
<1>4. UNCHANGED parserVars \/ ParserNext \/ NewParser
  BY DEF Next, vars, Execute, Send, Receive, Received, ReceiveFails, Redirect, Respond,
         UseJar, UseParser, NoParser, ParserNext
<1> QED
  BY <1>1, <1>2, <1>3, <1>4

-----------------------------------------------------------------------------
\* Theorems about the parser.

(* What the parser holds is part of the response, at the right place.      *)
THEOREM ParserInvariant == Spec => []ParserInv
<1>1. Init => ParserInv
  BY ParserInit_Inv DEF Init
<1>2. ParserInv /\ [Next]_vars => ParserInv'
  BY ExchangeParserStep
<1> QED
  BY <1>1, <1>2, PTL DEF Spec

(* Between two calls of feed() the buffer of an unfinished head is within  *)
(* max_header_buffer, also for parsers that are reset and used again.      *)
THEOREM HeaderIsBounded == Spec => []HeaderBufferBounded
<1>1. ParserInv => HeaderBufferBounded
  BY DEF ParserInv
<1> QED
  BY <1>1, ParserInvariant, PTL

(* However a response with a Content-Length is cut into segments: when the *)
(* parser has completed it, the body has that length, and is the bytes     *)
(* that follow the empty line of the response.                             *)
THEOREM LengthIsKept == Spec => []LengthKept
<1>1. ParserInv => LengthKept
  BY DEF ParserInv
<1> QED
  BY <1>1, ParserInvariant, PTL

-----------------------------------------------------------------------------
\* Well-formed responses: the inductive invariant of ParsesFaithfully and
\* CompleteAtItsEnd.

\* c is the content length after the first i fields.
LengthSeen(r, i, c) ==
  \/ c = -1 /\ \A j \in 1..i : FieldAt(r, j) \notin DOMAIN Lengths
  \/ \E j \in 1..i : IsFirstLength(r, i, j) /\ c = Lengths[FieldAt(r, j)]

\* The buffer is what follows p tokens.
Rest(p) ==
  /\ p + Len(buffer) = sent
  /\ \A i \in 1..Len(buffer) : buffer[i] = Wire[p + i]

\* The body is the first part of what was sent.
Within ==
  /\ Len(body) <= Len(response.body)
  /\ \A i \in 1..Len(body) : body[i] = response.body[i]

(* In the head the buffer begins with a line, and the fields of the lines  *)
(* before it are taken into account; in a plain body, body and buffer are  *)
(* what follows the head; between chunks, the buffer begins with one, and  *)
(* the body is what the chunks before it carry.                            *)
FaithfulTo(k) ==
  /\ state \in Places \union {"body_chunked", "complete"}
  /\ body \in Seq(STRING) /\ Within
  /\ ~response.segmented => sent \in {0, Len(Wire)}
  /\ hung => state \notin HeadStates \union {"complete"}
  /\ state = "status_line" => Follows(0) /\ ~chunked /\ contentLength = -1
  /\ state = "headers" =>
       \E i \in 1..k + 1 : /\ Follows(3 * i)
                           /\ chunked <=> IsChunked(response, i - 1)
                           /\ LengthSeen(response, i - 1, contentLength)
  /\ state \in PlainStates =>
       /\ ~IsChunked(response, k)
       /\ ~hung => Follows(3 * k + 5)
       /\ state = "body_raw" => contentLength = Len(response.body) /\ response.final = "complete"
       /\ state = "body_until_eof" => response.final = "body_until_eof"
  /\ state = "body_chunked" =>
       /\ IsChunked(response, k)
       /\ sent = Len(Wire)
       /\ ~hung => /\ feeding
                   /\ buffer \in Seq(STRING)
                   /\ \E j \in DOMAIN response.chunks :
                        Rest(response.chunks[j].at) /\ Len(body) = response.chunks[j].from
  /\ state = "complete" => /\ sent = Len(Wire)
                           /\ body = response.body
                           /\ response.final = "complete"
  /\ WholeIsParsed

FaithfulInv ==
  response.wellFormed => \A k \in Nat : IsWellFormed(response, k) => FaithfulTo(k)

\* Chunked responses are delivered in one piece: http_parser loses the size
\* line of a chunk that comes in two.
ChunksComeWhole ==
  \A r \in Responses : r.wellFormed /\ r.chunks # <<>> => ~r.segmented

-----------------------------------------------------------------------------
\* The lines of a well-formed response.

(* The first line of the buffer ends where a line end is first.            *)
LEMMA FirstLine ==
  ASSUME buffer \in Seq(STRING), NEW e \in Nat, e >= 1, e + 1 <= Len(buffer),
         buffer[e] = "CR", buffer[e + 1] = "LF",
         \A q \in 1..e - 1 : ~(buffer[q] = "CR" /\ buffer[q + 1] = "LF")
  PROVE  HasLine /\ LineEnd = e
<1>1. Len(buffer) \in Nat
  OBVIOUS
<1>2. e \in LineEnds
  BY <1>1 DEF LineEnds
<1>3. \A q \in LineEnds : q \in Nat /\ e <= q
  BY <1>1 DEF LineEnds
<1>4. \A p \in LineEnds : (\A q \in LineEnds : p <= q) => p = e
  BY <1>2, <1>3
<1>5. HasLine
  BY <1>2 DEF HasLine
<1> QED
  BY <1>2, <1>3, <1>4, <1>5 DEF LineEnd

(* One token in front of a line end.                                       *)
LEMMA OneToken ==
  ASSUME NEW s \in Seq(STRING), Len(s) >= 1
  PROVE  SubSeq(s, 1, 1) = <<s[1]>> /\ SubSeq(s, 1, 0) = <<>>
<1>1. SubSeq(s, 1, 1) \in Seq(STRING) /\ Len(SubSeq(s, 1, 1)) = 1 /\ SubSeq(s, 1, 1)[1] = s[1]
  <2>1. PICK z \in Nat : z = 0
    OBVIOUS
  <2>2. PICK o \in Nat : o = 1
    OBVIOUS
  <2>3. z <= o /\ o <= Len(s)
    BY <2>1, <2>2
  <2>4. /\ SubSeq(s, z + 1, o) \in Seq(STRING)
        /\ Len(SubSeq(s, z + 1, o)) = o - z
        /\ \A i \in 1..o - z : SubSeq(s, z + 1, o)[i] = s[z + i]
    BY <2>3, WindowIs
  <2>5. z + 1 = 1 /\ o = 1 /\ o - z = 1 /\ 1 \in 1..o - z /\ z + 1 = 1
    BY <2>1, <2>2
  <2> QED
    BY <2>4, <2>5
<1>2. s[1] \in STRING
  OBVIOUS
<1>3. <<s[1]>> \in Seq(STRING) /\ Len(<<s[1]>>) = 1 /\ <<s[1]>>[1] = s[1]
  BY <1>2
<1>4. SubSeq(s, 1, 1) = <<s[1]>>
  <2> DEFINE a == SubSeq(s, 1, 1)
             b == <<s[1]>>
  <2>1. a \in Seq(STRING) /\ b \in Seq(STRING) /\ Len(a) = Len(b) /\ Len(a) = 1
    BY <1>1, <1>3
  <2>2. a[1] = b[1]
    BY <1>1, <1>3
  <2> HIDE DEF a, b
  <2>3. \A i \in 1..Len(a) : a[i] = b[i]
    BY <2>1, <2>2
  <2>4. a = b
    BY <2>1, <2>3, SeqEqual
  <2> QED
    BY <2>4 DEF a, b
<1>5. SubSeq(s, 1, 0) = <<>>
  BY SubSeqEmpty
<1> QED
  BY <1>4, <1>5

(* In the head, a line is one token, and is not in the buffer only if some *)
(* of it is still to come.                                                 *)
LEMMA HeadLine ==
  ASSUME response \in Responses, buffer \in Seq(STRING), body = <<>>,
         sent \in Nat, sent <= Len(Wire),
         NEW k \in Nat, HasHead(response, k), NEW i \in 0..k, Follows(3 * i)
  PROVE  /\ HasLine => LineEnd = 2 /\ Line = <<FieldAt(response, i)>>
         /\ ~HasLine => Len(buffer) <= 2 /\ sent < Len(Wire)
<1>1. PICK p \in Nat : p = 3 * i
  OBVIOUS
<1>2. Len(buffer) \in Nat /\ Len(Wire) \in Nat /\ Len(body) = 0
  BY WireType
<1>3. p + Len(buffer) = sent /\ \A q \in 1..Len(buffer) : buffer[q] = Wire[p + q]
  BY <1>1, <1>2 DEF Follows
<1>4. Wire[p + 2] = "CR" /\ Wire[p + 3] = "LF" /\ p + 5 <= Len(Wire)
  <2>1. 3 * i + 5 <= 3 * k + 5
    OBVIOUS
  <2> QED
    BY <1>1, <1>2, <2>1 DEF HasHead, Wire
<1>5. CASE Len(buffer) >= 3
  <2>1. buffer[2] = "CR" /\ buffer[3] = "LF" /\ buffer[1] = Wire[p + 1]
    <3>1. 1 \in 1..Len(buffer) /\ 2 \in 1..Len(buffer) /\ 3 \in 1..Len(buffer)
      BY <1>2, <1>5
    <3>2. buffer[1] = Wire[p + 1] /\ buffer[2] = Wire[p + 2] /\ buffer[3] = Wire[p + 3]
      BY <1>3, <3>1, Zenon
    <3> QED
      BY <1>4, <3>2, Zenon
  <2>2. PICK e \in Nat : e = 2
    OBVIOUS
  <2>3. /\ e >= 1 /\ e + 1 <= Len(buffer) /\ buffer[e] = "CR" /\ buffer[e + 1] = "LF"
        /\ \A q \in 1..e - 1 : q = 1
    BY <1>5, <2>1, <2>2
  <2>4. \A q \in 1..e - 1 : ~(buffer[q] = "CR" /\ buffer[q + 1] = "LF")
    <3>1. "CR" # "LF" /\ 1 + 1 = 2
      OBVIOUS
    <3> QED
      BY <2>1, <2>3, <3>1
  <2>5. HasLine /\ LineEnd = e
    BY <2>3, <2>4, FirstLine
  <2>6. SubSeq(buffer, 1, 1) = <<buffer[1]>>
    BY <1>5, OneToken
  <2>7. LineEnd - 1 = 1
    BY <2>2, <2>5
  <2>8. Line = <<buffer[1]>>
    BY <2>6, <2>7 DEF Line
  <2>9. FieldAt(response, i) = buffer[1]
    BY <1>1, <2>1 DEF FieldAt, Wire
  <2> QED
    BY <2>2, <2>5, <2>8, <2>9
<1>6. CASE ~(Len(buffer) >= 3)
  <2>1. ~HasLine
    <3> SUFFICES ASSUME NEW q \in LineEnds
                 PROVE  FALSE
      BY DEF HasLine
    <3>1. q = 1 /\ Len(buffer) = 2
      <4>1. q \in 1..Len(buffer) - 1
        BY DEF LineEnds
      <4>2. PICK l \in Nat : l = Len(buffer)
        BY <1>2
      <4>3. q \in 1..l - 1 /\ ~(l >= 3)
        BY <1>6, <4>1, <4>2
      <4>4. q = 1 /\ l = 2
        BY <4>3
      <4> QED
        BY <4>2, <4>4
    <3>2. buffer[2] = "LF"
      <4>1. buffer[q + 1] = "LF" /\ q + 1 = 2
        BY <3>1 DEF LineEnds
      <4> QED
        BY <4>1
    <3>3. buffer[2] = Wire[p + 2]
      BY <1>3, <3>1
    <3> QED
      BY <1>4, <3>2, <3>3
  <2>2. Len(buffer) <= 2
    BY <1>2, <1>6
  <2> QED
    BY <1>2, <1>3, <1>4, <2>1, <2>2
<1> QED
  BY <1>5, <1>6

(* The same of the empty line.                                             *)
LEMMA EmptyLine ==
  ASSUME response \in Responses, buffer \in Seq(STRING), body = <<>>,
         sent \in Nat, sent <= Len(Wire),
         NEW k \in Nat, HasHead(response, k), Follows(3 * (k + 1))
  PROVE  /\ HasLine => LineEnd = 1 /\ Line = <<>>
         /\ ~HasLine => Len(buffer) <= 2 /\ sent < Len(Wire)
<1>1. PICK p \in Nat : p = 3 * (k + 1)
  OBVIOUS
<1>2. Len(buffer) \in Nat /\ Len(Wire) \in Nat /\ Len(body) = 0
  BY WireType
<1>3. p + Len(buffer) = sent /\ \A q \in 1..Len(buffer) : buffer[q] = Wire[p + q]
  BY <1>1, <1>2 DEF Follows
<1>4. Wire[p + 1] = "CR" /\ Wire[p + 2] = "LF" /\ p + 2 <= Len(Wire)
  <2>1. 3 * (k + 1) + 1 = 3 * k + 4 /\ 3 * (k + 1) + 2 = 3 * k + 5
    OBVIOUS
  <2> QED
    BY <1>1, <2>1 DEF HasHead, Wire
<1>5. CASE Len(buffer) >= 2
  <2>1. buffer[1] = "CR" /\ buffer[2] = "LF"
    <3>1. 1 \in 1..Len(buffer) /\ 2 \in 1..Len(buffer)
      BY <1>2, <1>5
    <3>2. buffer[1] = Wire[p + 1] /\ buffer[2] = Wire[p + 2]
      BY <1>3, <3>1, Zenon
    <3> QED
      BY <1>4, <3>2, Zenon
  <2>2. PICK e \in Nat : e = 1
    OBVIOUS
  <2>3. /\ e >= 1 /\ e + 1 <= Len(buffer) /\ buffer[e] = "CR" /\ buffer[e + 1] = "LF"
        /\ \A q \in 1..e - 1 : FALSE
    BY <1>5, <2>1, <2>2
  <2>4. HasLine /\ LineEnd = e
    BY <2>3, FirstLine
  <2>5. LineEnd - 1 = 0
    BY <2>2, <2>4
  <2>6. Line = <<>>
    BY <1>5, <2>5, OneToken DEF Line
  <2> QED
    BY <2>2, <2>4, <2>6
<1>6. CASE ~(Len(buffer) >= 2)
  <2>1. ~HasLine
    BY <1>2, <1>6 DEF HasLine, LineEnds
  <2>2. Len(buffer) <= 2
    BY <1>2, <1>6
  <2> QED
    BY <1>2, <1>3, <1>4, <1>6, <2>1, <2>2
<1> QED
  BY <1>5, <1>6

-----------------------------------------------------------------------------
\* The steps of the parser through a well-formed response.

(* A response has a body of tokens, and is cut or not.                     *)
LEMMA ResponseType ==
  ASSUME response \in Responses
  PROVE  /\ response.body \in Seq(STRING) /\ Len(response.body) \in Nat
         /\ Wire \in Seq(STRING) /\ Len(Wire) \in Nat
BY ParserAssumption DEF ParserAssumption, Wire

(* In the head, the buffer begins with one of its lines.                   *)
LEMMA HeadPlace ==
  ASSUME ParserInv, NEW k \in Nat, IsWellFormed(response, k), FaithfulTo(k), state \in HeadStates
  PROVE  /\ buffer \in Seq(STRING) /\ body = <<>> /\ Len(body) = 0
         /\ \E i \in 0..k + 1 : /\ Follows(3 * i)
                                /\ i = 0 <=> state = "status_line"
                                /\ chunked <=> IsChunked(response, i - 1)
                                /\ LengthSeen(response, i - 1, contentLength)
         /\ ~HasLine => Len(buffer) <= 2 /\ sent < Len(Wire)
<1>1. /\ buffer \in Seq(STRING) /\ body = <<>> /\ Len(body) = 0
      /\ response \in Responses /\ sent \in Nat /\ sent <= Len(Wire) /\ HasHead(response, k)
  BY DEF ParserInv, HeadInv, IsWellFormed
<1>2. \E i \in 0..k + 1 : /\ Follows(3 * i)
                          /\ i = 0 <=> state = "status_line"
                          /\ chunked <=> IsChunked(response, i - 1)
                          /\ LengthSeen(response, i - 1, contentLength)
  <2>1. CASE state = "status_line"
    <3>1. PICK z \in 0..k + 1 : z = 0 /\ 3 * z = 0
      OBVIOUS
    <3>2. Follows(3 * z)
      BY <2>1, <3>1 DEF FaithfulTo
    <3>3. \A j \in 1..z - 1 : FALSE
      BY <3>1
    <3>4. chunked <=> IsChunked(response, z - 1)
      BY <2>1, <3>3 DEF FaithfulTo, IsChunked
    <3>5. LengthSeen(response, z - 1, contentLength)
      BY <2>1, <3>3 DEF FaithfulTo, LengthSeen
    <3> QED
      BY <2>1, <3>1, <3>2, <3>4, <3>5
  <2>2. CASE state = "headers"
    <3>1. PICK i \in 1..k + 1 : /\ Follows(3 * i)
                                /\ chunked <=> IsChunked(response, i - 1)
                                /\ LengthSeen(response, i - 1, contentLength)
      BY <2>2 DEF FaithfulTo
    <3>2. i \in 0..k + 1 /\ i # 0
      OBVIOUS
    <3> QED
      BY <2>2, <3>1, <3>2
  <2> QED
    BY <2>1, <2>2 DEF HeadStates
<1>3. ASSUME ~HasLine
      PROVE  Len(buffer) <= 2 /\ sent < Len(Wire)
  <2>1. PICK i \in 0..k + 1 : Follows(3 * i)
    BY <1>2
  <2>2. CASE i \in 0..k
    BY <1>1, <1>3, <2>1, <2>2, HeadLine
  <2>3. CASE i = k + 1
    BY <1>1, <1>3, <2>1, <2>3, EmptyLine
  <2> QED
    BY <2>2, <2>3
<1> QED
  BY <1>1, <1>2, <1>3

(* In the head feed() waits for more only if there is more.                *)
LEMMA FaithfulNoLine ==
  ASSUME ParserInv, NEW k \in Nat, IsWellFormed(response, k), FaithfulTo(k),
         NoLine, UNCHANGED <<moved, wireVars>>
  PROVE  FaithfulTo(k)'
<1>1. state \in HeadStates /\ ~HasLine
  BY DEF NoLine, HeadStates
<1>2. buffer \in Seq(STRING) /\ Len(buffer) <= 2 /\ sent < Len(Wire)
  BY <1>1, HeadPlace
<1>3. Len(buffer) \in Nat /\ MaxHeader \in Nat /\ MaxHeader >= 2 /\ Len(Wire) \in Nat /\ sent \in Nat
  BY <1>2, ResponseType, ParserAssumption DEF ParserAssumption, IsWellFormed, ParserInv
<1>4. ~(Len(buffer) > MaxHeader)
  BY <1>2, <1>3
<1>5. /\ UNCHANGED <<state, buffer, body, chunked, contentLength, hung, response, sent>>
      /\ Wire' = Wire
  BY <1>4 DEF NoLine, Return, headVars, wireVars, Wire
<1>6. WholeIsParsed'
  BY <1>2, <1>3, <1>5 DEF WholeIsParsed, Wire
<1>7. \A p \in Nat : Follows(p)' = Follows(p)
  BY <1>5 DEF Follows
<1>8. Within'
  BY <1>5 DEF Within, FaithfulTo
<1>9. state' \notin PlainStates \union {"body_chunked", "complete"}
  BY <1>1, <1>5 DEF HeadStates, PlainStates
<1>10. state' = "status_line" => Follows(0)' /\ ~chunked' /\ contentLength' = -1
  BY <1>5, <1>7 DEF FaithfulTo
<1>11. state' = "headers" =>
         \E i \in 1..k + 1 : /\ Follows(3 * i)'
                             /\ chunked' <=> IsChunked(response', i - 1)
                             /\ LengthSeen(response', i - 1, contentLength')
  BY <1>5, <1>7 DEF FaithfulTo
<1> QED
  BY <1>5, <1>6, <1>8, <1>9, <1>10, <1>11 DEF FaithfulTo

(* The status line is accepted.                                            *)
LEMMA FaithfulStatusLine ==
  ASSUME ParserInv, NEW k \in Nat, IsWellFormed(response, k), FaithfulTo(k), feeding, ~hung,
         StatusLine, UNCHANGED <<moved, wireVars>>
  PROVE  FaithfulTo(k)'
<1>1. /\ state = "status_line" /\ state \in HeadStates /\ HasLine
      /\ response \in Responses /\ sent \in Nat /\ sent <= Len(Wire) /\ HasHead(response, k)
  BY DEF StatusLine, HeadStates, ParserInv, IsWellFormed
<1>2. /\ buffer \in Seq(STRING) /\ body = <<>>
      /\ Follows(0) /\ ~chunked /\ contentLength = -1
  BY <1>1, HeadPlace DEF FaithfulTo
<1>3. PICK z \in 0..k : z = 0 /\ 3 * z = 0 /\ 3 * z + 1 = 1
  OBVIOUS
<1>4. LineEnd = 2 /\ Line = <<FieldAt(response, z)>>
  BY <1>1, <1>2, <1>3, HeadLine
<1>5. FieldAt(response, z) = "status"
  BY <1>1, <1>3 DEF FieldAt, HasHead
<1>6. /\ buffer' = AfterLine /\ state' = "headers"
      /\ UNCHANGED <<body, chunked, contentLength, feeding, hung, response, sent>> /\ Wire' = Wire
  BY <1>4, <1>5 DEF StatusLine, IsStatusLine, headVars, wireVars, Wire
<1>7. Follows(3)'
  <2>1. TakesLine
    BY <1>1, <1>6 DEF TakesLine
  <2>2. PICK o \in Nat : o = 0
    OBVIOUS
  <2>3. PICK g \in Nat : Follows(g)' /\ g = o + (LineEnd + 1)
    BY <1>2, <2>1, <2>2, LineFollows
  <2>4. g = 3
    BY <1>4, <2>2, <2>3
  <2> QED
    BY <2>3, <2>4
<1>8. \E i \in 1..k + 1 : /\ Follows(3 * i)'
                          /\ chunked' <=> IsChunked(response', i - 1)
                          /\ LengthSeen(response', i - 1, contentLength')
  <2>1. PICK i \in 1..k + 1 : i = 1 /\ 3 * i = 3 /\ \A j \in 1..i - 1 : FALSE
    OBVIOUS
  <2>2. chunked' <=> IsChunked(response', i - 1)
    BY <1>2, <1>6, <2>1 DEF IsChunked
  <2>3. LengthSeen(response', i - 1, contentLength')
    BY <1>2, <1>6, <2>1 DEF LengthSeen
  <2> QED
    BY <1>7, <2>1, <2>2, <2>3
<1>9. Within' /\ body' \in Seq(STRING)
  BY <1>6 DEF Within, FaithfulTo
<1>10. WholeIsParsed'
  BY <1>6 DEF WholeIsParsed
<1> QED
  BY <1>6, <1>8, <1>9, <1>10 DEF FaithfulTo, HeadStates, PlainStates, Places

(* The content length is that of the first field that has one.             *)
LEMMA LengthGoesOn ==
  ASSUME NEW r, NEW i \in Nat, i >= 1, NEW c, LengthSeen(r, i - 1, c)
  PROVE  LengthSeen(r, i, IF FieldAt(r, i) \in DOMAIN Lengths /\ c = -1
                            THEN Lengths[FieldAt(r, i)] ELSE c)
<1>1. i \in 1..i /\ \A j \in 1..i : j \in 1..i - 1 \/ j = i
  OBVIOUS
<1>2. CASE c = -1 /\ \A j \in 1..i - 1 : FieldAt(r, j) \notin DOMAIN Lengths
  <2>1. CASE FieldAt(r, i) \in DOMAIN Lengths
    <3>1. IsFirstLength(r, i, i)
      BY <1>1, <1>2, <2>1 DEF IsFirstLength
    <3> QED
      BY <1>1, <1>2, <2>1, <3>1 DEF LengthSeen
  <2>2. CASE FieldAt(r, i) \notin DOMAIN Lengths
    BY <1>1, <1>2, <2>2 DEF LengthSeen
  <2> QED
    BY <2>1, <2>2
<1>3. CASE \E j \in 1..i - 1 : IsFirstLength(r, i - 1, j) /\ c = Lengths[FieldAt(r, j)]
  <2>1. PICK j \in 1..i - 1 : IsFirstLength(r, i - 1, j) /\ c = Lengths[FieldAt(r, j)]
    BY <1>3
  <2>2. c \in Nat
    BY <2>1, ParserAssumption DEF ParserAssumption, IsFirstLength
  <2>3. c # -1
    BY <2>2
  <2>4. j \in 1..i
    OBVIOUS
  <2>5. IsFirstLength(r, i, j)
    BY <2>1, <2>4 DEF IsFirstLength
  <2> QED
    BY <2>1, <2>3, <2>4, <2>5 DEF LengthSeen
<1> QED
  BY <1>2, <1>3 DEF LengthSeen

(* A field is accepted, and counts for the framing of the body.            *)
LEMMA FaithfulHeaderLine ==
  ASSUME ParserInv, NEW k \in Nat, IsWellFormed(response, k), FaithfulTo(k), feeding, ~hung,
         HeaderLine, UNCHANGED <<moved, wireVars>>
  PROVE  FaithfulTo(k)'
<1>1. /\ state = "headers" /\ state \in HeadStates /\ HasLine /\ Line # <<>>
      /\ response \in Responses /\ sent \in Nat /\ sent <= Len(Wire) /\ HasHead(response, k)
  BY DEF HeaderLine, HeadStates, ParserInv, IsWellFormed
<1>2. PICK i \in 0..k + 1 : /\ Follows(3 * i)
                            /\ i = 0 <=> state = "status_line"
                            /\ chunked <=> IsChunked(response, i - 1)
                            /\ LengthSeen(response, i - 1, contentLength)
  BY <1>1, HeadPlace
<1>3. buffer \in Seq(STRING) /\ body = <<>>
  BY <1>1, HeadPlace
<1>4. i # k + 1
  BY <1>1, <1>2, <1>3, EmptyLine
<1>5. i \in 0..k /\ i \in 1..k /\ i \in Nat /\ i >= 1
  BY <1>1, <1>2, <1>4
<1>6. LineEnd = 2 /\ Line = <<FieldAt(response, i)>>
  BY <1>1, <1>2, <1>3, <1>5, HeadLine
<1>7. IsHeaderLine(Line)
  BY <1>1, <1>5, <1>6 DEF HasHead
<1>8. Line[1] = FieldAt(response, i)
  BY <1>6
<1>9. /\ buffer' = AfterLine /\ state' = "headers"
      /\ UNCHANGED <<body, feeding, hung, response, sent>> /\ Wire' = Wire
      /\ chunked' = (chunked \/ FieldAt(response, i) = "chunked")
      /\ contentLength' = IF FieldAt(response, i) \in DOMAIN Lengths /\ contentLength = -1
                            THEN Lengths[FieldAt(response, i)] ELSE contentLength
  BY <1>1, <1>7, <1>8 DEF HeaderLine, wireVars, Wire
<1>10. PICK n \in 1..k + 1 : n = i + 1 /\ n - 1 = i /\ 3 * n = 3 * i + 3
  BY <1>5
<1>11. Follows(3 * n)'
  <2>1. TakesLine
    BY <1>1, <1>9 DEF TakesLine
  <2>2. PICK h \in Nat : h = 3 * i
    BY <1>5
  <2>3. PICK g \in Nat : Follows(g)' /\ g = h + (LineEnd + 1)
    BY <1>2, <1>3, <2>1, <2>2, LineFollows
  <2>4. g = h + 3
    BY <1>6, <2>2, <2>3
  <2>5. g = 3 * n
    BY <1>10, <2>2, <2>4
  <2> QED
    BY <2>3, <2>5
<1>12. chunked' <=> IsChunked(response', n - 1)
  <2>1. \A j : j \in 1..i <=> j \in 1..i - 1 \/ j = i
    BY <1>5
  <2> QED
    BY <1>2, <1>9, <1>10, <2>1 DEF IsChunked
<1>13. LengthSeen(response', n - 1, contentLength')
  <2>1. LengthSeen(response, i, IF FieldAt(response, i) \in DOMAIN Lengths /\ contentLength = -1
                                  THEN Lengths[FieldAt(response, i)] ELSE contentLength)
    BY <1>2, <1>5, LengthGoesOn
  <2> QED
    BY <1>9, <1>10, <2>1
<1>14. Within' /\ body' \in Seq(STRING)
  BY <1>9 DEF Within, FaithfulTo
<1>15. WholeIsParsed'
  BY <1>9 DEF WholeIsParsed
<1> QED
  BY <1>9, <1>11, <1>12, <1>13, <1>14, <1>15 DEF FaithfulTo, HeadStates, PlainStates, Places

(* The length that was seen is that of the body.                           *)
LEMMA LengthOfBody ==
  ASSUME NEW r, NEW k \in Nat, HasPlainBody(r, k), NEW c, LengthSeen(r, k, c)
  PROVE  IF c # -1 THEN c = Len(r.body) /\ r.final = "complete"
                   ELSE r.final = "body_until_eof"
<1>1. CASE c = -1 /\ \A j \in 1..k : FieldAt(r, j) \notin DOMAIN Lengths
  BY <1>1 DEF HasPlainBody, IsFirstLength
<1>2. CASE \E j \in 1..k : IsFirstLength(r, k, j) /\ c = Lengths[FieldAt(r, j)]
  <2>1. PICK j \in 1..k : IsFirstLength(r, k, j) /\ c = Lengths[FieldAt(r, j)]
    BY <1>2
  <2>2. c \in Nat
    BY <2>1, ParserAssumption DEF ParserAssumption, IsFirstLength
  <2>3. c # -1
    BY <2>2
  <2> QED
    BY <2>1, <2>3 DEF HasPlainBody
<1> QED
  BY <1>1, <1>2 DEF LengthSeen

(* Behind the empty line is the body, framed as the fields said.           *)
LEMMA FaithfulEndOfHeaders ==
  ASSUME ParserInv, NEW k \in Nat, IsWellFormed(response, k), FaithfulTo(k), feeding, ~hung,
         EndOfHeaders, UNCHANGED <<moved, wireVars>>,
         response.chunks # <<>> => ~response.segmented
  PROVE  FaithfulTo(k)'
<1>1. /\ state = "headers" /\ state \in HeadStates /\ HasLine /\ Line = <<>>
      /\ response \in Responses /\ sent \in Nat /\ sent <= Len(Wire) /\ HasHead(response, k)
  BY DEF EndOfHeaders, HeadStates, ParserInv, IsWellFormed
<1>2. PICK i \in 0..k + 1 : /\ Follows(3 * i)
                            /\ i = 0 <=> state = "status_line"
                            /\ chunked <=> IsChunked(response, i - 1)
                            /\ LengthSeen(response, i - 1, contentLength)
  BY <1>1, HeadPlace
<1>3. buffer \in Seq(STRING) /\ body = <<>> /\ Len(body) = 0
  BY <1>1, HeadPlace
<1>4. i = k + 1 /\ i - 1 = k
  <2>1. CASE i \in 0..k
    <3>1. Line = <<FieldAt(response, i)>>
      BY <1>1, <1>2, <1>3, <2>1, HeadLine
    <3> QED
      BY <1>1, <3>1
  <2> QED
    BY <2>1
<1>5. LineEnd = 1
  BY <1>1, <1>2, <1>3, <1>4, EmptyLine
<1>6. /\ buffer' = AfterLine
      /\ state' = IF chunked THEN "body_chunked"
                  ELSE IF contentLength # -1 THEN "body_raw" ELSE "body_until_eof"
      /\ UNCHANGED <<body, chunked, contentLength, feeding, hung, response, sent>> /\ Wire' = Wire
  BY DEF EndOfHeaders, wireVars, Wire
<1>7. PICK h \in Nat : h = 3 * k + 5
  OBVIOUS
<1>8. Follows(h)' /\ buffer' \in Seq(STRING)
  <2>1. TakesLine
    BY <1>1, <1>6 DEF TakesLine
  <2>2. PICK q \in Nat : q = 3 * i
    OBVIOUS
  <2>3. buffer' \in Seq(STRING) /\ \E g \in Nat : Follows(g)' /\ g = q + (LineEnd + 1)
    BY <1>2, <1>3, <2>1, <2>2, LineFollows
  <2>4. PICK g \in Nat : Follows(g)' /\ g = q + (LineEnd + 1)
    BY <2>3
  <2>5. g = h
    BY <1>4, <1>5, <1>7, <2>2, <2>4
  <2> QED
    BY <2>3, <2>4, <2>5
<1>9. Within' /\ body' \in Seq(STRING)
  BY <1>6 DEF Within, FaithfulTo
<1>10. WholeIsParsed'
  BY <1>6 DEF WholeIsParsed
<1>11. (~response.segmented => sent \in {0, Len(Wire)})'
  BY <1>6 DEF FaithfulTo
<1>12. CASE chunked
  <2>1. IsChunked(response, k)
    BY <1>2, <1>4, <1>12
  <2>2. /\ response.chunks # <<>> /\ response.chunks[1] = [at |-> 3 * k + 5, from |-> 0]
    BY <2>1 DEF IsWellFormed, HasChunks
  <2>3. response.chunks \in Seq([at : Nat, from : Nat])
    BY <1>1, ParserAssumption DEF ParserAssumption
  <2>4. 1 \in DOMAIN response.chunks
    <3>1. PICK c : c = response.chunks
      OBVIOUS
    <3>2. c \in Seq([at : Nat, from : Nat]) /\ c # <<>>
      BY <2>2, <2>3, <3>1
    <3>3. 1 \in DOMAIN c
      BY <3>2, EmptySeq, LenProperties
    <3> QED
      BY <3>1, <3>3
  <2>5. response.chunks[1].at = h /\ response.chunks[1].from = 0
    BY <1>7, <2>2
  <2>6. Rest(h)'
    <3>1. /\ h + Len(body') + Len(buffer') = sent'
          /\ \A q \in 1..Len(buffer') : buffer'[q] = Wire'[h + Len(body') + q]
      BY <1>8 DEF Follows
    <3>2. Len(body') = 0 /\ h + 0 = h
      BY <1>3, <1>6
    <3> QED
      BY <3>1, <3>2 DEF Rest
  <2>7. sent = Len(Wire)
    <3>1. sent \in {0, Len(Wire)}
      BY <2>2 DEF FaithfulTo
    <3>2. Len(buffer) \in Nat /\ 3 * i + 0 + Len(buffer) = sent
      BY <1>2, <1>3 DEF Follows
    <3>3. sent # 0
      BY <1>4, <3>2
    <3> QED
      BY <3>1, <3>3
  <2>8. state' = "body_chunked"
    BY <1>6, <1>12
  <2>9. (\E j \in DOMAIN response.chunks :
           Rest(response.chunks[j].at) /\ Len(body) = response.chunks[j].from)'
    BY <1>3, <1>6, <2>4, <2>5, <2>6
  <2> QED
    BY <1>6, <1>8, <1>9, <1>10, <1>11, <2>1, <2>7, <2>8, <2>9
       DEF FaithfulTo, HeadStates, PlainStates, Places
<1>13. CASE ~chunked
  <2>1. ~IsChunked(response, k) /\ LengthSeen(response, k, contentLength)
    BY <1>2, <1>4, <1>13
  <2>2. HasPlainBody(response, k)
    BY <2>1 DEF IsWellFormed
  <2>3. IF contentLength # -1
          THEN contentLength = Len(response.body) /\ response.final = "complete"
          ELSE response.final = "body_until_eof"
    BY <2>1, <2>2, LengthOfBody
  <2>4. /\ state' \in PlainStates
        /\ state' = "body_raw" => contentLength # -1
        /\ state' = "body_until_eof" => contentLength = -1
    BY <1>6, <1>13 DEF PlainStates
  <2>5. Follows(3 * k + 5)'
    BY <1>7, <1>8
  <2> QED
    BY <1>6, <1>9, <1>10, <1>11, <2>1, <2>3, <2>4, <2>5
       DEF FaithfulTo, HeadStates, PlainStates, Places
<1> QED
  BY <1>12, <1>13

TailOf(t, w, h) == h <= Len(w) /\ t = SubSeq(w, h + 1, Len(w))
PartOf(b, w, h) == h + Len(b) <= Len(w) /\ \A i \in 1..Len(b) : b[i] = w[h + i]
FirstOf(b, t) ==
  /\ Len(b) <= Len(t)
  /\ \A i \in 1..Len(b) : b[i] = t[i]
  /\ Len(b) = Len(t) => b = t

(* What follows the head is the first part of a plain body.                *)
LEMMA PlainPart ==
  ASSUME NEW w \in Seq(STRING), NEW h \in Nat, NEW t \in Seq(STRING), TailOf(t, w, h),
         NEW b \in Seq(STRING), PartOf(b, w, h)
  PROVE  FirstOf(b, t) /\ h + Len(t) = Len(w)
<1>1. PICK n \in Nat : n = Len(w)
  OBVIOUS
<1>2. PICK l \in Nat : l = Len(b)
  OBVIOUS
<1>3. Len(t) = n - h /\ \A i \in 1..n - h : t[i] = w[h + i]
  BY <1>1, WindowIs DEF TailOf
<1>4. h <= n /\ h + l <= n
  BY <1>1, <1>2 DEF TailOf, PartOf
<1>5. l <= Len(t) /\ h + Len(t) = n
  BY <1>3, <1>4
<1>6. \A i \in 1..l : b[i] = t[i]
  BY <1>2, <1>3, <1>4 DEF PartOf
<1>7. ASSUME Len(b) = Len(t)
      PROVE  b = t
  BY <1>2, <1>6, <1>7, SeqEqual
<1> QED
  BY <1>1, <1>2, <1>5, <1>6, <1>7 DEF FirstOf

(* What is read of a plain body is its first part, up to its end.          *)
LEMMA FaithfulTakes ==
  ASSUME ParserInv, NEW k \in Nat, IsWellFormed(response, k), ~IsChunked(response, k),
         body \in Seq(STRING), buffer \in Seq(STRING), Follows(3 * k + 5),
         NEW n \in Nat, TakesBody(n)
  PROVE  /\ body' \in Seq(STRING) /\ buffer' \in Seq(STRING)
         /\ Within' /\ Follows(3 * k + 5)'
         /\ Len(body') = Len(body) + n
         /\ 3 * k + 5 + Len(response.body) = Len(Wire)
         /\ Len(body') = Len(response.body) => sent = Len(Wire) /\ body' = response.body
<1>1. PICK h \in Nat : h = 3 * k + 5
  OBVIOUS
<1>2. /\ body' \in Seq(STRING) /\ buffer' \in Seq(STRING)
      /\ Len(body') = Len(body) + n /\ Follows(h)'
  BY <1>1, BodyFollows
<1>3. /\ response' = response /\ sent' = sent /\ Wire' = Wire
      /\ Wire \in Seq(STRING) /\ response.body \in Seq(STRING)
      /\ sent \in Nat /\ sent <= Len(Wire) /\ h <= Len(Wire) /\ Len(Wire) \in Nat
  BY <1>1, ResponseType DEF TakesBody, Wire, ParserInv, IsWellFormed, HasHead
<1>4. response.body = SubSeq(Wire, h + 1, Len(Wire))
  <2>1. 3 * k + 6 = h + 1
    BY <1>1
  <2> QED
    BY <2>1 DEF IsWellFormed, HasPlainBody, Wire
<1>5. /\ h + Len(body') + Len(buffer') = sent
      /\ \A i \in 1..Len(body') : body'[i] = Wire[h + i]
  BY <1>2, <1>3 DEF Follows
<1>6. Len(body') \in Nat /\ Len(buffer') \in Nat
  BY <1>2
<1>7. h + Len(body') <= sent /\ h + Len(body') <= Len(Wire)
  <2>1. PICK b \in Nat : b = Len(body')
    BY <1>6
  <2>2. PICK c \in Nat : c = Len(buffer')
    BY <1>6
  <2>3. h + b + c = sent
    BY <1>5, <2>1, <2>2
  <2>4. h + b <= sent /\ h + b <= Len(Wire)
    BY <1>3, <2>3
  <2> QED
    BY <2>1, <2>4
<1>8. PICK t \in Seq(STRING) : t = response.body
  BY <1>3
<1>9. PICK b \in Seq(STRING) : b = body'
  BY <1>2
<1>10. FirstOf(b, t) /\ h + Len(t) = Len(Wire)
  <2>1. PICK w \in Seq(STRING) : w = Wire
    BY <1>3
  <2>2. TailOf(t, w, h)
    BY <1>3, <1>4, <1>8, <2>1 DEF TailOf
  <2>3. PartOf(b, w, h)
    BY <1>5, <1>7, <1>9, <2>1 DEF PartOf
  <2>4. FirstOf(b, t) /\ h + Len(t) = Len(w)
    BY <2>2, <2>3, PlainPart
  <2> QED
    BY <2>1, <2>4
<1>11. Within'
  BY <1>3, <1>8, <1>9, <1>10 DEF Within, FirstOf
<1>12. ASSUME Len(body') = Len(response.body)
       PROVE  sent = Len(Wire) /\ body' = response.body
  <2>1. h + Len(body') = Len(Wire)
    BY <1>8, <1>10, <1>12
  <2>2. sent = Len(Wire)
    <3>1. Len(Wire) <= sent
      BY <1>7, <2>1
    <3>2. PICK m \in Nat : m = Len(Wire)
      BY <1>3
    <3>3. m <= sent /\ sent <= m
      BY <1>3, <3>1, <3>2
    <3>4. sent = m
      BY <1>3, <3>3
    <3> QED
      BY <3>2, <3>4
  <2> QED
    BY <1>8, <1>9, <1>10, <1>12, <2>2 DEF FirstOf
<1> QED
  BY <1>1, <1>2, <1>8, <1>10, <1>11, <1>12

(* A body with a length is complete when all of it was read.               *)
LEMMA FaithfulReadRaw ==
  ASSUME ParserInv, NEW k \in Nat, IsWellFormed(response, k), FaithfulTo(k), feeding, ~hung,
         ReadRaw, UNCHANGED <<moved, wireVars>>
  PROVE  FaithfulTo(k)'
<1>1. /\ state = "body_raw" /\ state \in PlainStates /\ moved \in BOOLEAN
      /\ buffer \in Seq(STRING) /\ body \in Seq(STRING)
      /\ contentLength \in Nat /\ remaining \in Nat
      /\ Len(body) + remaining = contentLength
      /\ Len(buffer) \in Nat /\ Len(body) \in Nat
  BY DEF ReadRaw, ParserInv, RawInv, PlainStates
<1>2. /\ Follows(3 * k + 5) /\ ~IsChunked(response, k)
      /\ contentLength = Len(response.body) /\ response.final = "complete"
  BY <1>1 DEF FaithfulTo
<1>3. PICK n \in Nat : n = ToRead /\ n <= Len(buffer) /\ n <= remaining
                       /\ (n < remaining => n = Len(buffer))
  <2>1. /\ ToRead \in Nat /\ ToRead <= Len(buffer) /\ ToRead <= remaining
        /\ (ToRead < remaining => ToRead = Len(buffer))
    BY <1>1 DEF ToRead
  <2> QED
    BY <2>1
<1>4. /\ buffer' = Drop(buffer, n)
      /\ remaining' = remaining - n
      /\ hung' = (moved /\ n > 0)
      /\ ReturnOrHang(IF remaining' = 0 THEN "complete" ELSE state)
      /\ UNCHANGED <<chunked, contentLength, response, sent>> /\ Wire' = Wire
  BY <1>3 DEF ReadRaw, Write, wireVars, Wire
<1>5. (~response.segmented => sent \in {0, Len(Wire)})'
  BY <1>4 DEF FaithfulTo
<1>6. CASE moved /\ n > 0
  <2>1. state' = state /\ body' = body /\ hung' = TRUE
    BY <1>3, <1>4, <1>6 DEF ReturnOrHang, ReadRaw, Write
  <2>2. Within' /\ body' \in Seq(STRING)
    BY <1>4, <2>1 DEF Within, FaithfulTo
  <2>3. WholeIsParsed'
    BY <2>1 DEF WholeIsParsed
  <2> QED
    BY <1>1, <1>2, <1>4, <1>5, <2>1, <2>2, <2>3 DEF FaithfulTo, HeadStates, PlainStates, Places
<1>7. CASE ~(moved /\ n > 0)
  <2>1. TakesBody(n)
    BY <1>3, <1>4, <1>7 DEF ReadRaw, Write, TakesBody
  <2>2. /\ body' \in Seq(STRING) /\ buffer' \in Seq(STRING)
        /\ Within' /\ Follows(3 * k + 5)'
        /\ Len(body') = Len(body) + n
        /\ 3 * k + 5 + Len(response.body) = Len(Wire)
        /\ Len(body') = Len(response.body) => sent = Len(Wire) /\ body' = response.body
    BY <1>1, <1>2, <2>1, FaithfulTakes
  <2>3. /\ hung' = FALSE /\ feeding' = FALSE
        /\ state' = IF remaining' = 0 THEN "complete" ELSE "body_raw"
    BY <1>1, <1>4, <1>7 DEF ReturnOrHang
  <2>4. Len(body') + remaining' = Len(response.body)
    <3>1. Len(body') = Len(body) + n /\ remaining' = remaining - n
          /\ Len(body) + remaining = Len(response.body)
      BY <1>1, <1>2, <1>4, <2>2
    <3>2. PICK b \in Nat : b = Len(body)
      BY <1>1
    <3>3. Len(body') = b + n /\ b + remaining = Len(response.body)
      BY <3>1, <3>2
    <3>4. b + n + (remaining - n) = b + remaining
      BY <1>1, <1>3
    <3> QED
      BY <3>1, <3>3, <3>4
  <2>5. Len(body') \in Nat /\ Len(response.body) \in Nat /\ remaining' \in Nat
    BY <1>1, <1>2, <1>3, <1>4, <2>2
  <2>6. CASE remaining' = 0
    <3>1. Len(body') = Len(response.body)
      BY <2>4, <2>5, <2>6
    <3>2. state' = "complete" /\ sent' = Len(Wire) /\ body' = response.body
      BY <1>4, <2>2, <2>3, <2>6, <3>1
    <3>3. WholeIsParsed'
      BY <1>2, <1>4, <3>2 DEF WholeIsParsed
    <3> QED
      BY <1>2, <1>4, <1>5, <2>2, <2>3, <3>2, <3>3
         DEF FaithfulTo, HeadStates, PlainStates, Places
  <2>7. CASE remaining' # 0
    <3>1. state' = "body_raw"
      BY <2>3, <2>7
    <3>2. sent # Len(Wire)
      <4>1. n = Len(buffer)
        <5>1. n < remaining
          BY <1>1, <1>3, <1>4, <2>7
        <5> QED
          BY <1>3, <5>1
      <4>2. Len(buffer') = 0
        <5>1. Drop(buffer, n) = <<>>
          BY <1>1, <4>1, SubSeqEmpty DEF Drop
        <5> QED
          BY <1>4, <5>1
      <4>3. 3 * k + 5 + Len(body') + Len(buffer') = sent
        BY <1>4, <2>2 DEF Follows
      <4>4. PICK b \in Nat : b = Len(body')
        BY <2>5
      <4>5. PICK t \in Nat : t = Len(response.body)
        BY <2>5
      <4>6. b # t
        BY <2>4, <2>5, <2>7, <4>4, <4>5
      <4>7. PICK h \in Nat : h = 3 * k + 5
        OBVIOUS
      <4>8. h + b + 0 = sent /\ h + t = Len(Wire)
        BY <2>2, <4>2, <4>3, <4>4, <4>5, <4>7
      <4> QED
        BY <4>6, <4>8
    <3>3. WholeIsParsed'
      BY <1>4, <3>2 DEF WholeIsParsed, Wire
    <3> QED
      BY <1>2, <1>4, <1>5, <2>2, <2>3, <3>1, <3>3
         DEF FaithfulTo, HeadStates, PlainStates, Places
  <2> QED
    BY <2>6, <2>7
<1> QED
  BY <1>6, <1>7

(* A body without a length takes all there is.                             *)
LEMMA FaithfulReadUntilEof ==
  ASSUME ParserInv, NEW k \in Nat, IsWellFormed(response, k), FaithfulTo(k), feeding, ~hung,
         ReadUntilEof, UNCHANGED <<moved, wireVars>>
  PROVE  FaithfulTo(k)'
<1>1. /\ state = "body_until_eof" /\ state \in PlainStates /\ moved \in BOOLEAN
      /\ buffer \in Seq(STRING) /\ body \in Seq(STRING)
      /\ Len(buffer) \in Nat
  BY DEF ReadUntilEof, ParserInv, PlainStates
<1>2. /\ Follows(3 * k + 5) /\ ~IsChunked(response, k)
      /\ response.final = "body_until_eof"
  BY <1>1 DEF FaithfulTo
<1>3. PICK n \in Nat : n = Len(buffer) /\ n <= Len(buffer)
  BY <1>1
<1>4. /\ buffer' = <<>>
      /\ hung' = (moved /\ n > 0)
      /\ state' = "body_until_eof"
      /\ UNCHANGED <<chunked, contentLength, response, sent>> /\ Wire' = Wire
  BY <1>1, <1>3 DEF ReadUntilEof, Write, ReturnOrHang, wireVars, headVars, Wire
<1>5. (~response.segmented => sent \in {0, Len(Wire)})'
  BY <1>4 DEF FaithfulTo
<1>6. CASE moved /\ n > 0
  <2>1. body' = body /\ hung' = TRUE
    BY <1>3, <1>4, <1>6 DEF ReadUntilEof, Write
  <2>2. Within' /\ body' \in Seq(STRING)
    BY <1>4, <2>1 DEF Within, FaithfulTo
  <2>3. WholeIsParsed'
    BY <2>1 DEF WholeIsParsed
  <2> QED
    BY <1>1, <1>2, <1>4, <1>5, <2>1, <2>2, <2>3 DEF FaithfulTo, HeadStates, PlainStates, Places
<1>7. CASE ~(moved /\ n > 0)
  <2>1. Drop(buffer, n) = <<>>
    BY <1>3, SubSeqEmpty DEF Drop
  <2>2. TakesBody(n)
    BY <1>3, <1>4, <1>7, <2>1 DEF ReadUntilEof, Write, TakesBody
  <2>3. /\ body' \in Seq(STRING) /\ buffer' \in Seq(STRING)
        /\ Within' /\ Follows(3 * k + 5)'
        /\ 3 * k + 5 + Len(response.body) = Len(Wire)
        /\ Len(body') = Len(response.body) => body' = response.body
    BY <1>1, <1>2, <2>2, FaithfulTakes
  <2>4. WholeIsParsed'
    <3> SUFFICES ASSUME sent = Len(Wire)
                 PROVE  body' = response.body
      BY <1>2, <1>4 DEF WholeIsParsed, Wire
    <3>1. Len(buffer') = 0
      BY <1>4
    <3>2. 3 * k + 5 + Len(body') + Len(buffer') = sent
      BY <1>4, <2>3 DEF Follows
    <3>3. Len(body') \in Nat /\ Len(response.body) \in Nat
      BY <2>3, ResponseType DEF ParserInv
    <3>4. PICK b \in Nat : b = Len(body')
      BY <3>3
    <3>5. PICK t \in Nat : t = Len(response.body)
      BY <3>3
    <3>6. PICK h \in Nat : h = 3 * k + 5
      OBVIOUS
    <3>7. h + b + 0 = h + t
      BY <2>3, <3>1, <3>2, <3>4, <3>5, <3>6
    <3>8. b = t
      BY <3>7
    <3> QED
      BY <2>3, <3>4, <3>5, <3>8
  <2> QED
    BY <1>2, <1>4, <1>5, <2>3, <2>4 DEF FaithfulTo, HeadStates, PlainStates, Places
<1> QED
  BY <1>6, <1>7

\* What is found of the j-th chunk, whose size line has l tokens and says n.
ChunkIs(r, j, l, n, w, p, f) ==
  /\ p + l + n + 4 <= Len(w)
  /\ f + n <= Len(r.body)
  /\ \A i \in 1..n : r.body[f + i] = w[p + l + 2 + i]
  /\ IF j < Len(r.chunks)
       THEN n > 0 /\ r.chunks[j + 1] = [at |-> p + l + n + 4, from |-> f + n]
       ELSE n = 0 /\ f = Len(r.body)

(* Where a chunk begins, its size line is found, and it is all there.      *)
LEMMA ChunkLine ==
  ASSUME response \in Responses, NEW k \in Nat, HasChunks(response, k), buffer \in Seq(STRING),
         sent = Len(Wire), NEW j \in DOMAIN response.chunks, Rest(response.chunks[j].at)
  PROVE  /\ HasLine /\ IsSizeLine(Line)
         /\ \E p, l, n, f \in Nat :
              /\ p = response.chunks[j].at /\ f = response.chunks[j].from
              /\ LineEnd = l + 1 /\ SizeOf(Line) = n
              /\ ChunkIs(response, j, l, n, Wire, p, f)
<1>1. response.chunks[j] \in [at : Nat, from : Nat]
  <2>1. response.chunks \in Seq([at : Nat, from : Nat])
    BY ParserAssumption DEF ParserAssumption
  <2>2. PICK c : c = response.chunks
    OBVIOUS
  <2>3. c \in Seq([at : Nat, from : Nat]) /\ j \in DOMAIN c
    BY <2>1, <2>2
  <2>4. c[j] \in [at : Nat, from : Nat]
    <3>1. j \in 1..Len(c)
      BY <2>3, LenProperties
    <3> QED
      BY <2>3, <3>1, ElementOfSeq
  <2> QED
    BY <2>2, <2>4
<1>2. PICK p \in Nat : p = response.chunks[j].at
  BY <1>1
<1>3. PICK f \in Nat : f = response.chunks[j].from
  BY <1>1
<1>4. PICK l \in 1..Len(response.wire), n \in 0..MaxChunk :
        /\ IsChunk(response, p, f, l, n)
        /\ IF j < Len(response.chunks)
             THEN n > 0 /\ response.chunks[j + 1] = [at |-> p + l + n + 4, from |-> f + n]
             ELSE n = 0 /\ p + l + 4 = Len(response.wire) /\ f = Len(response.body)
  BY <1>2, <1>3 DEF HasChunks
<1>5. PICK s : s = SubSeq(Wire, p + 1, p + l)
  OBVIOUS
<1>6. IsSizeLine(s) /\ SizeOf(s) = n
  BY <1>4, <1>5 DEF IsChunk, Wire
<1>7. /\ p + l + n + 4 <= Len(Wire) /\ f + n <= Len(response.body)
      /\ Wire[p + l + 1] = "CR" /\ Wire[p + l + 2] = "LF"
      /\ \A q \in p + 1..p + l : ~(Wire[q] = "CR" /\ Wire[q + 1] = "LF")
      /\ \A i \in 1..n : response.body[f + i] = Wire[p + l + 2 + i]
  BY <1>4 DEF IsChunk, Wire
<1>8. n \in Nat /\ l \in Nat
  BY <1>4, ParserAssumption DEF ParserAssumption
<1>9. ChunkIs(response, j, l, n, Wire, p, f)
  BY <1>4, <1>7 DEF ChunkIs
<1>10. PICK b \in Nat : b = Len(buffer)
  OBVIOUS
<1>11. PICK m \in Nat : m = Len(Wire) /\ Wire \in Seq(STRING)
  BY ResponseType
<1>12. p + b = m /\ \A i \in 1..b : buffer[i] = Wire[p + i]
  BY <1>2, <1>10, <1>11 DEF Rest
<1>13. p + l + n + 4 <= m
  BY <1>7, <1>11
<1>14. l + 2 <= b
  BY <1>8, <1>12, <1>13
<1>15. PICK e \in Nat : e = l + 1
  BY <1>8
<1>16. buffer[e] = "CR" /\ buffer[e + 1] = "LF"
  <2>1. e \in 1..b /\ e + 1 \in 1..b /\ p + e = p + l + 1 /\ p + (e + 1) = p + l + 2
    BY <1>8, <1>14, <1>15
  <2> QED
    BY <1>7, <1>12, <2>1
<1>17. \A q \in 1..e - 1 : ~(buffer[q] = "CR" /\ buffer[q + 1] = "LF")
  <2> SUFFICES ASSUME NEW q \in 1..e - 1
               PROVE  ~(buffer[q] = "CR" /\ buffer[q + 1] = "LF")
    OBVIOUS
  <2>1. /\ q \in 1..b /\ q + 1 \in 1..b /\ p + q \in p + 1..p + l
        /\ p + (q + 1) = (p + q) + 1
    BY <1>8, <1>14, <1>15
  <2>2. buffer[q] = Wire[p + q] /\ buffer[q + 1] = Wire[p + (q + 1)]
    BY <1>12, <2>1, Zenon
  <2>3. ~(Wire[p + q] = "CR" /\ Wire[(p + q) + 1] = "LF")
    BY <1>7, <2>1, Zenon
  <2> QED
    BY <2>1, <2>2, <2>3, Zenon
<1>18. HasLine /\ LineEnd = e
  <2>1. e >= 1 /\ e + 1 <= Len(buffer)
    BY <1>10, <1>14, <1>15
  <2> QED
    BY <1>16, <1>17, <2>1, FirstLine
<1>19. Line = s
  <2>1. LineEnd - 1 = l
    BY <1>8, <1>15, <1>18
  <2>2. PICK z \in Nat : z = 0
    OBVIOUS
  <2>3. z <= l /\ l <= Len(buffer)
    BY <1>8, <1>10, <1>14, <2>2
  <2>4. /\ SubSeq(buffer, z + 1, l) \in Seq(STRING)
        /\ Len(SubSeq(buffer, z + 1, l)) = l - z
        /\ \A i \in 1..l - z : SubSeq(buffer, z + 1, l)[i] = buffer[z + i]
    BY <1>8, <2>3, WindowIs
  <2>5. z + 1 = 1 /\ l - z = l /\ \A i \in 1..l : z + i = i
    BY <1>8, <2>2
  <2>6. /\ Line \in Seq(STRING) /\ Len(Line) = l
        /\ \A i \in 1..l : Line[i] = buffer[i]
    BY <2>1, <2>4, <2>5 DEF Line
  <2>7. PICK u \in Nat : u = p + l /\ p <= u /\ u <= Len(Wire) /\ u - p = l
    <3>1. p + l \in Nat /\ p <= p + l /\ p + l <= m /\ (p + l) - p = l
      BY <1>8, <1>13
    <3> QED
      BY <1>11, <3>1
  <2>8. /\ SubSeq(Wire, p + 1, u) \in Seq(STRING)
        /\ Len(SubSeq(Wire, p + 1, u)) = u - p
        /\ \A i \in 1..u - p : SubSeq(Wire, p + 1, u)[i] = Wire[p + i]
    BY <1>11, <2>7, WindowIs
  <2>9. s \in Seq(STRING) /\ Len(s) = l /\ \A i \in 1..l : s[i] = Wire[p + i]
    BY <1>5, <2>7, <2>8
  <2>10. \A i \in 1..l : Line[i] = s[i]
    <3>1. \A i \in 1..l : i \in 1..b
      BY <1>8, <1>14
    <3> QED
      BY <1>12, <2>6, <2>9, <3>1
  <2> QED
    BY <2>6, <2>9, <2>10, SeqEqual
<1>20. HasLine /\ IsSizeLine(Line) /\ LineEnd = l + 1 /\ SizeOf(Line) = n
  BY <1>6, <1>15, <1>18, <1>19
<1> QED
  BY <1>2, <1>3, <1>8, <1>9, <1>20

(* A chunk is written to the body as a whole, and the next one follows.    *)
LEMMA FaithfulChunkWhole ==
  ASSUME ParserInv, NEW k \in Nat, IsWellFormed(response, k), FaithfulTo(k), feeding, ~hung,
         ChunkWhole, UNCHANGED <<moved, wireVars>>
  PROVE  FaithfulTo(k)'
<1>1. /\ state = "body_chunked" /\ response \in Responses /\ sent = Len(Wire)
      /\ IsChunked(response, k) /\ buffer \in Seq(STRING) /\ body \in Seq(STRING) /\ Within
  BY DEF ChunkWhole, ParserInv, FaithfulTo
<1>2. HasChunks(response, k)
  BY <1>1 DEF IsWellFormed
<1>3. PICK j \in DOMAIN response.chunks :
        Rest(response.chunks[j].at) /\ Len(body) = response.chunks[j].from
  BY <1>1 DEF FaithfulTo
<1>4. HasLine /\ IsSizeLine(Line)
  BY <1>1, <1>2, <1>3, ChunkLine
<1>5. PICK p, l, n, f \in Nat :
        /\ p = response.chunks[j].at /\ f = response.chunks[j].from
        /\ LineEnd = l + 1 /\ SizeOf(Line) = n
        /\ ChunkIs(response, j, l, n, Wire, p, f)
  BY <1>1, <1>2, <1>3, ChunkLine
<1>6. PICK a \in Seq(STRING) : a = AfterLine
  BY <1>1, <1>4, AfterLineIs
<1>7. /\ state' = state /\ feeding' = feeding /\ hung' = moved
      /\ UNCHANGED <<chunked, contentLength, response, sent>> /\ Wire' = Wire
      /\ n > 0
      /\ body' = (IF moved THEN body ELSE body \o SubSeq(a, 1, n))
      /\ buffer' = (IF moved THEN a ELSE SubSeq(a, (n + 2) + 1, Len(a)))
  BY <1>5, <1>6 DEF ChunkWhole, headVars, wireVars, Wire, Drop
<1>8. (~response.segmented => sent \in {0, Len(Wire)})'
  BY <1>7 DEF FaithfulTo
<1>9. WholeIsParsed'
  BY <1>7 DEF WholeIsParsed
<1>10. CASE moved
  <2>1. Within' /\ body' \in Seq(STRING)
    BY <1>1, <1>7, <1>10 DEF Within
  <2> QED
    BY <1>1, <1>7, <1>8, <1>9, <1>10, <2>1 DEF FaithfulTo, HeadStates, PlainStates, Places
<1>11. CASE ~moved
  <2>1. PICK m \in Nat : m = Len(Wire) /\ Wire \in Seq(STRING)
    BY <1>1, ResponseType
  <2>2. PICK b \in Nat : b = Len(buffer)
    BY <1>1
  <2>3. p + b = m /\ \A i \in 1..b : buffer[i] = Wire[p + i]
    BY <1>1, <1>3, <1>5, <2>1, <2>2 DEF Rest
  <2>4. /\ p + l + n + 4 <= m
        /\ f + n <= Len(response.body)
        /\ \A i \in 1..n : response.body[f + i] = Wire[p + l + 2 + i]
    BY <1>5, <2>1 DEF ChunkIs
  <2>5. PICK c \in Nat : c = Len(a)
    OBVIOUS
  <2>6. c = b - (l + 2) /\ \A i \in 1..c : a[i] = Wire[p + l + 2 + i]
    <3>1. /\ Len(AfterLine) = Len(buffer) - (LineEnd + 1)
          /\ \A i \in 1..Len(buffer) - (LineEnd + 1) : AfterLine[i] = buffer[LineEnd + 1 + i]
      BY <1>1, <1>4, AfterLineIs
    <3>2. LineEnd + 1 = l + 2
      BY <1>5
    <3>3. c = b - (l + 2) /\ \A i \in 1..c : a[i] = buffer[l + 2 + i]
      BY <1>6, <2>2, <2>5, <3>1, <3>2
    <3>4. ASSUME NEW i \in 1..c
          PROVE  a[i] = Wire[p + l + 2 + i]
      <4>1. l + 2 + i \in 1..b /\ p + (l + 2 + i) = p + l + 2 + i
        BY <3>3
      <4>2. a[i] = buffer[l + 2 + i]
        BY <3>3
      <4>3. buffer[l + 2 + i] = Wire[p + (l + 2 + i)]
        BY <2>3, <4>1, Zenon
      <4> QED
        BY <4>1, <4>2, <4>3
    <3> QED
      BY <3>3, <3>4
  <2>7. n + 2 <= c
    BY <2>3, <2>4, <2>6
  <2>8. /\ SubSeq(a, 1, n) \in Seq(STRING) /\ Len(SubSeq(a, 1, n)) = n
        /\ \A i \in 1..n : SubSeq(a, 1, n)[i] = a[i]
    <3>1. PICK z \in Nat : z = 0
      OBVIOUS
    <3>2. z <= n /\ n <= Len(a)
      BY <2>5, <2>7, <3>1
    <3>3. /\ SubSeq(a, z + 1, n) \in Seq(STRING)
          /\ Len(SubSeq(a, z + 1, n)) = n - z
          /\ \A i \in 1..n - z : SubSeq(a, z + 1, n)[i] = a[z + i]
      BY <3>2, WindowIs
    <3>4. z + 1 = 1 /\ n - z = n /\ \A i \in 1..n : z + i = i
      BY <3>1
    <3> QED
      BY <3>3, <3>4
  <2>9. PICK t \in Seq(STRING) : t = SubSeq(a, 1, n)
    BY <2>8
  <2>10. /\ body' \in Seq(STRING)
         /\ Len(body') = f + n
         /\ \A i \in 1..f : body'[i] = body[i]
         /\ \A i \in 1..n : body'[f + i] = t[i]
    <3>1. body' = body \o t /\ Len(t) = n /\ Len(body) = f
      BY <1>3, <1>5, <1>7, <1>11, <2>8, <2>9
    <3>2. /\ body \o t \in Seq(STRING)
          /\ Len(body \o t) = Len(body) + Len(t)
          /\ \A i \in 1..Len(body) : (body \o t)[i] = body[i]
          /\ \A i \in 1..Len(t) : (body \o t)[Len(body) + i] = t[i]
      BY <1>1, JoinedIs
    <3> QED
      BY <3>1, <3>2
  <2>11. Within'
    <3>1. ASSUME NEW i \in 1..f + n
          PROVE  body'[i] = response.body[i]
      <4>1. CASE i <= f
        <5>1. i \in 1..f /\ Len(body) = f
          BY <1>3, <1>5, <4>1
        <5> QED
          BY <1>1, <2>10, <5>1 DEF Within
      <4>2. CASE ~(i <= f)
        <5>1. PICK q \in 1..n : i = f + q
          <6>1. i - f \in 1..n /\ i = f + (i - f)
            BY <4>2
          <6> QED
            BY <6>1
        <5>2. body'[i] = t[q] /\ t[q] = a[q]
          BY <2>8, <2>9, <2>10, <5>1
        <5>3. q \in 1..c
          BY <2>7
        <5>4. a[q] = Wire[p + l + 2 + q] /\ response.body[f + q] = Wire[p + l + 2 + q]
          BY <2>4, <2>6, <5>3
        <5> QED
          BY <5>1, <5>2, <5>4
      <4> QED
        BY <4>1, <4>2
    <3> QED
      BY <1>7, <2>4, <2>10, <3>1 DEF Within
  <2>12. j \in 1..Len(response.chunks) /\ Len(response.chunks) \in Nat
         /\ DOMAIN response.chunks = 1..Len(response.chunks)
    <3>1. response.chunks \in Seq([at : Nat, from : Nat])
      BY <1>1, ParserAssumption DEF ParserAssumption
    <3>2. PICK x : x = response.chunks
      OBVIOUS
    <3>3. DOMAIN x = 1..Len(x) /\ Len(x) \in Nat
      BY <3>1, <3>2, LenProperties
    <3> QED
      BY <3>2, <3>3
  <2>13. PICK g \in DOMAIN response.chunks :
           response.chunks[g] = [at |-> p + l + n + 4, from |-> f + n]
    <3>1. j < Len(response.chunks)
      BY <1>5, <1>7 DEF ChunkIs
    <3>2. j + 1 \in DOMAIN response.chunks
      BY <2>12, <3>1
    <3>3. response.chunks[j + 1] = [at |-> p + l + n + 4, from |-> f + n]
      BY <1>5, <3>1 DEF ChunkIs
    <3> QED
      BY <3>2, <3>3
  <2>14. PICK e \in Nat : e = p + l + n + 4
    OBVIOUS
  <2>15. buffer' \in Seq(STRING) /\ Rest(e)'
    <3>1. PICK d \in Nat : d = n + 2
      OBVIOUS
    <3>2. d <= Len(a)
      BY <2>5, <2>7, <3>1
    <3>3. /\ SubSeq(a, d + 1, Len(a)) \in Seq(STRING)
          /\ Len(SubSeq(a, d + 1, Len(a))) = c - d
          /\ \A i \in 1..c - d : SubSeq(a, d + 1, Len(a))[i] = a[d + i]
      BY <2>5, <3>2, WindowIs
    <3>4. buffer' = SubSeq(a, d + 1, Len(a))
      BY <1>7, <1>11, <3>1
    <3>5. /\ buffer' \in Seq(STRING) /\ Len(buffer') = c - d
          /\ \A i \in 1..c - d : buffer'[i] = a[d + i]
      BY <3>3, <3>4
    <3>6. e + (c - d) = m
      BY <2>3, <2>6, <2>14, <3>1
    <3>7. ASSUME NEW i \in 1..c - d
          PROVE  buffer'[i] = Wire[e + i]
      <4>1. d + i \in 1..c /\ p + l + 2 + (d + i) = e + i
        BY <2>14, <3>1
      <4>2. a[d + i] = Wire[p + l + 2 + (d + i)]
        BY <2>6, <4>1, Zenon
      <4> QED
        BY <3>5, <4>1, <4>2
    <3> QED
      BY <1>1, <1>7, <2>1, <3>5, <3>6, <3>7 DEF Rest
  <2>16. (\E i \in DOMAIN response.chunks :
            Rest(response.chunks[i].at) /\ Len(body) = response.chunks[i].from)'
    <3>1. response'.chunks[g].at = e /\ response'.chunks[g].from = f + n
      BY <1>7, <2>13, <2>14
    <3>2. g \in DOMAIN response'.chunks
      BY <1>7, <2>13
    <3> QED
      BY <2>10, <2>15, <3>1, <3>2
  <2> QED
    BY <1>1, <1>7, <1>8, <1>9, <1>11, <2>10, <2>11, <2>15, <2>16
       DEF FaithfulTo, HeadStates, PlainStates, Places
<1> QED
  BY <1>10, <1>11

(* The chunks are all there, and the last one ends the body.               *)
LEMMA FaithfulChunks ==
  ASSUME ParserInv, NEW k \in Nat, IsWellFormed(response, k), FaithfulTo(k), feeding, ~hung,
         ChunkNoLine \/ ChunkBadSize \/ ChunkLast \/ ChunkIncomplete,
         UNCHANGED <<moved, wireVars>>
  PROVE  FaithfulTo(k)'
<1>1. /\ state = "body_chunked" /\ response \in Responses /\ sent = Len(Wire)
      /\ IsChunked(response, k) /\ buffer \in Seq(STRING) /\ body \in Seq(STRING) /\ Within
  BY DEF ChunkNoLine, ChunkBadSize, ChunkLast, ChunkIncomplete, ParserInv, FaithfulTo
<1>2. HasChunks(response, k)
  BY <1>1 DEF IsWellFormed
<1>3. PICK j \in DOMAIN response.chunks :
        Rest(response.chunks[j].at) /\ Len(body) = response.chunks[j].from
  BY <1>1 DEF FaithfulTo
<1>4. HasLine /\ IsSizeLine(Line)
  BY <1>1, <1>2, <1>3, ChunkLine
<1>5. PICK p, l, n, f \in Nat :
        /\ p = response.chunks[j].at /\ f = response.chunks[j].from
        /\ LineEnd = l + 1 /\ SizeOf(Line) = n
        /\ ChunkIs(response, j, l, n, Wire, p, f)
  BY <1>1, <1>2, <1>3, ChunkLine
<1>6. ~ChunkIncomplete
  <2> SUFFICES ASSUME ChunkIncomplete
               PROVE  FALSE
    OBVIOUS
  <2>1. Len(AfterLine) < n + 2
    BY <1>5 DEF ChunkIncomplete
  <2>2. Len(AfterLine) = Len(buffer) - (LineEnd + 1)
    BY <1>1, <1>4, AfterLineIs
  <2>3. PICK b \in Nat : b = Len(buffer)
    BY <1>1
  <2>4. b - (l + 2) < n + 2
    BY <1>5, <2>1, <2>2, <2>3
  <2>5. PICK m \in Nat : m = Len(Wire)
    BY <1>1, ResponseType
  <2>6. p + b = m
    BY <1>1, <1>3, <1>5, <2>3, <2>5 DEF Rest
  <2>7. p + l + n + 4 <= m
    BY <1>5, <2>5 DEF ChunkIs
  <2> QED
    BY <2>4, <2>6, <2>7
<1>7. ChunkLast
  BY <1>4, <1>6 DEF ChunkNoLine, ChunkBadSize
<1>8. /\ state' = "complete" /\ n = 0
      /\ UNCHANGED <<body, hung, response, sent>> /\ Wire' = Wire
  BY <1>5, <1>7 DEF ChunkLast, Return, wireVars, Wire
<1>9. f = Len(response.body)
  BY <1>5, <1>8 DEF ChunkIs
<1>10. body = response.body
  <2>1. Len(body) = Len(response.body)
    BY <1>3, <1>5, <1>9
  <2>2. PICK t \in Seq(STRING) : t = response.body
    BY <1>1, ResponseType
  <2>3. Len(body) = Len(t) /\ \A i \in 1..Len(body) : body[i] = t[i]
    BY <1>1, <2>1, <2>2 DEF Within
  <2> QED
    BY <1>1, <2>2, <2>3, SeqEqual
<1>11. response.final = "complete"
  BY <1>2 DEF HasChunks
<1>12. Within'
  BY <1>1, <1>8 DEF Within
<1>13. WholeIsParsed'
  BY <1>8, <1>10, <1>11 DEF WholeIsParsed
<1>14. (~response.segmented => sent \in {0, Len(Wire)})'
  BY <1>8 DEF FaithfulTo
<1> QED
  BY <1>1, <1>8, <1>10, <1>11, <1>12, <1>13, <1>14
     DEF FaithfulTo, HeadStates, PlainStates, Places

(* What arrives is appended, and a response that is not cut is all there.  *)
LEMMA FaithfulFeed ==
  ASSUME ParserInv, NEW k \in Nat, IsWellFormed(response, k), FaithfulTo(k),
         NEW n \in 1..Len(Wire), Feed(n)
  PROVE  FaithfulTo(k)'
<1>1. /\ response \in Responses /\ sent \in Nat /\ sent <= Len(Wire) /\ Len(Wire) \in Nat
      /\ ~hung /\ ~feeding /\ sent' = sent + n /\ sent + n <= Len(Wire)
      /\ response.segmented \/ n = Len(Wire)
      /\ UNCHANGED <<state, body, chunked, contentLength, remaining, moved, hung, response>>
      /\ Wire' = Wire
  BY ResponseType DEF ParserInv, Feed, Wire, headVars
<1>2. sent # Len(Wire) /\ n \in Nat
  BY <1>1
<1>3. state \in Places
  BY <1>1, <1>2 DEF FaithfulTo
<1>4. buffer \in Seq(STRING) /\ body \in Seq(STRING)
  BY <1>3 DEF ParserInv, Places
<1>5. Appends(n) /\ feeding' = TRUE
  BY <1>1, <1>3 DEF Feed, Appends, Places, HeadStates, PlainStates, Wire
<1>6. \A h \in Nat : Follows(h) => Follows(h)'
  BY <1>1, <1>2, <1>4, <1>5, FedFollows
<1>7. Within' /\ body' \in Seq(STRING)
  BY <1>1 DEF Within, FaithfulTo
<1>8. ~response'.segmented => sent' \in {0, Len(Wire')}
  <2> SUFFICES ASSUME ~response.segmented
               PROVE  sent' = Len(Wire)
    BY <1>1
  <2>1. n = Len(Wire)
    BY <1>1
  <2> QED
    BY <1>1, <2>1
<1>9. state' = "status_line" => Follows(0)' /\ ~chunked' /\ contentLength' = -1
  BY <1>1, <1>6 DEF FaithfulTo
<1>10. state' = "headers" =>
         \E i \in 1..k + 1 : /\ Follows(3 * i)'
                             /\ chunked' <=> IsChunked(response', i - 1)
                             /\ LengthSeen(response', i - 1, contentLength')
  <2> SUFFICES ASSUME state = "headers"
               PROVE  \E i \in 1..k + 1 : /\ Follows(3 * i)'
                                          /\ chunked' <=> IsChunked(response', i - 1)
                                          /\ LengthSeen(response', i - 1, contentLength')
    BY <1>1
  <2>1. PICK i \in 1..k + 1 : /\ Follows(3 * i)
                              /\ chunked <=> IsChunked(response, i - 1)
                              /\ LengthSeen(response, i - 1, contentLength)
    BY DEF FaithfulTo
  <2>2. 3 * i \in Nat
    OBVIOUS
  <2>3. Follows(3 * i)'
    BY <1>6, <2>1, <2>2
  <2> QED
    BY <1>1, <2>1, <2>3
<1>11. state' \in PlainStates =>
         /\ ~IsChunked(response', k)
         /\ ~hung' => Follows(3 * k + 5)'
         /\ state' = "body_raw" => contentLength' = Len(response'.body) /\ response'.final = "complete"
         /\ state' = "body_until_eof" => response'.final = "body_until_eof"
  <2>1. 3 * k + 5 \in Nat
    OBVIOUS
  <2> QED
    BY <1>1, <1>6, <2>1 DEF FaithfulTo
<1>12. WholeIsParsed'
  BY <1>5 DEF WholeIsParsed
<1>13. state' \notin {"body_chunked", "complete"} /\ ~hung' /\ state' \in Places
  BY <1>1, <1>3 DEF Places, HeadStates, PlainStates
<1> QED
  BY <1>7, <1>8, <1>9, <1>10, <1>11, <1>12, <1>13 DEF FaithfulTo

(* release_response() takes the storage of a body, not what was read.      *)
LEMMA FaithfulRelease ==
  ASSUME NEW k \in Nat, FaithfulTo(k), ReleaseResponse
  PROVE  FaithfulTo(k)'
<1>1. /\ state = "complete" /\ ~feeding
      /\ UNCHANGED <<state, body, feeding, hung, response, sent>> /\ Wire' = Wire
  BY DEF ReleaseResponse, wireVars, Wire
<1>2. Within' /\ WholeIsParsed'
  BY <1>1 DEF FaithfulTo, Within, WholeIsParsed
<1> QED
  BY <1>1, <1>2 DEF FaithfulTo, Places, HeadStates, PlainStates

(* reset(), and what every parser starts from: nothing was sent yet.       *)
LEMMA FaithfulCleared ==
  ASSUME Cleared, hung' = FALSE, NEW k \in Nat, IsWellFormed(response', k)
  PROVE  FaithfulTo(k)'
<1>1. /\ state' = "status_line" /\ buffer' = <<>> /\ body' = <<>> /\ chunked' = FALSE
      /\ contentLength' = -1 /\ response' \in Responses /\ sent' = 0
  BY DEF Cleared
<1>2. /\ <<>> \in Seq(STRING) /\ Len(<<>>) = 0
      /\ response'.body \in Seq(STRING) /\ Len(response'.body) \in Nat
      /\ Len(response'.wire) \in Nat
  BY <1>1, ParserAssumption DEF ParserAssumption
<1>3. 3 * k + 5 <= Len(response'.wire)
  BY DEF IsWellFormed, HasHead
<1>4. sent' # Len(response'.wire)
  BY <1>1, <1>2, <1>3
<1>5. Follows(0)'
  BY <1>1, <1>2 DEF Follows
<1>6. Within'
  BY <1>1, <1>2 DEF Within
<1>7. WholeIsParsed'
  BY <1>4 DEF WholeIsParsed
<1> QED
  BY <1>1, <1>2, <1>5, <1>6, <1>7 DEF FaithfulTo, Places, HeadStates, PlainStates

(* Each step of the parser is faithful to the response.                    *)
LEMMA FaithfulStep ==
  ASSUME ParserInv, FaithfulInv, ChunksComeWhole, ParserNext
  PROVE  FaithfulInv'
<1>1. CASE Reset
  <2>1. Cleared /\ hung' = FALSE
    BY <1>1 DEF Reset
  <2> QED
    BY <2>1, FaithfulCleared DEF FaithfulInv
<1>2. CASE (\E n \in 1..Len(response.wire) : Feed(n)) \/ Step \/ ReleaseResponse
  <2>1. response' = response
    BY <1>2 DEF Feed, Step, ReleaseResponse, wireVars
  <2>2. ASSUME NEW k \in Nat, IsWellFormed(response, k), FaithfulTo(k), response.wellFormed
        PROVE  FaithfulTo(k)'
    <3>1. CASE \E n \in 1..Len(response.wire) : Feed(n)
      BY <2>2, <3>1, FaithfulFeed DEF Wire
    <3>2. CASE ReleaseResponse
      BY <2>2, <3>2, FaithfulRelease
    <3>3. CASE Step
      <4>1. feeding /\ ~hung /\ UNCHANGED <<moved, wireVars>>
        BY <3>3 DEF Step
      <4>2. CASE NoLine
        BY <2>2, <4>1, <4>2, FaithfulNoLine
      <4>3. CASE StatusLine
        BY <2>2, <4>1, <4>3, FaithfulStatusLine
      <4>4. CASE HeaderLine
        BY <2>2, <4>1, <4>4, FaithfulHeaderLine
      <4>5. CASE EndOfHeaders
        <5>1. response.chunks # <<>> => ~response.segmented
          BY <2>2 DEF ChunksComeWhole, ParserInv
        <5> QED
          BY <2>2, <4>1, <4>5, <5>1, FaithfulEndOfHeaders
      <4>6. CASE ReadRaw
        BY <2>2, <4>1, <4>6, FaithfulReadRaw
      <4>7. CASE ReadUntilEof
        BY <2>2, <4>1, <4>7, FaithfulReadUntilEof
      <4>8. CASE ChunkWhole
        BY <2>2, <4>1, <4>8, FaithfulChunkWhole
      <4>9. CASE ChunkNoLine \/ ChunkBadSize \/ ChunkLast \/ ChunkIncomplete
        BY <2>2, <4>1, <4>9, FaithfulChunks
      <4> QED
        BY <3>3, <4>2, <4>3, <4>4, <4>5, <4>6, <4>7, <4>8, <4>9 DEF Step
    <3> QED
      BY <1>2, <3>1, <3>2, <3>3
  <2>3. ASSUME NEW k \in Nat, IsWellFormed(response', k), response'.wellFormed
        PROVE  FaithfulTo(k)'
    <3>1. IsWellFormed(response, k) /\ response.wellFormed
      BY <2>1, <2>3
    <3> QED
      BY <2>2, <3>1 DEF FaithfulInv
  <2> QED
    BY <2>3 DEF FaithfulInv
<1> QED
  BY <1>1, <1>2 DEF ParserNext

(* So is each step that leaves the parser alone.                           *)
LEMMA FaithfulStutters ==
  ASSUME FaithfulInv, UNCHANGED parserVars
  PROVE  FaithfulInv'
<1>1. /\ UNCHANGED <<state, buffer, body, chunked, contentLength, feeding, hung, response, sent>>
      /\ Wire' = Wire
  BY DEF parserVars, headVars, wireVars, Wire
<1>2. Within' = Within /\ WholeIsParsed' = WholeIsParsed
  BY <1>1 DEF Within, WholeIsParsed
<1>3. ASSUME NEW k \in Nat, FaithfulTo(k)
      PROVE  FaithfulTo(k)'
  <2>1. \A h : Follows(h) => Follows(h)'
    BY <1>1 DEF Follows
  <2>2. \A p : Rest(p) => Rest(p)'
    BY <1>1 DEF Rest
  <2>3. (state = "body_chunked" =>
           /\ IsChunked(response, k)
           /\ sent = Len(Wire)
           /\ ~hung => /\ feeding
                       /\ buffer \in Seq(STRING)
                       /\ \E j \in DOMAIN response.chunks :
                            /\ Rest(response.chunks[j].at)
                            /\ Len(body) = response.chunks[j].from)'
    BY <1>1, <2>2, <1>3 DEF FaithfulTo
  <2>4. state' = "headers" =>
          \E i \in 1..k + 1 : /\ Follows(3 * i)'
                              /\ chunked' <=> IsChunked(response', i - 1)
                              /\ LengthSeen(response', i - 1, contentLength')
    BY <1>1, <2>1, <1>3 DEF FaithfulTo
  <2>5. /\ Follows(0) => Follows(0)'
        /\ Follows(3 * k + 5) => Follows(3 * k + 5)'
    BY <2>1
  <2> QED
    BY <1>1, <1>2, <1>3, <2>3, <2>4, <2>5 DEF FaithfulTo
<1> QED
  BY <1>1, <1>3 DEF FaithfulInv

(* A new parser has read nothing of its response.                          *)
LEMMA FaithfulExchangeStep ==
  ASSUME ParserInv, FaithfulInv, ChunksComeWhole, [Next]_vars
  PROVE  FaithfulInv'
<1>1. CASE UNCHANGED parserVars
  BY <1>1, FaithfulStutters
<1>2. CASE ParserNext
  BY <1>2, FaithfulStep
<1>3. CASE NewParser
  BY <1>3, FaithfulCleared DEF NewParser, FaithfulInv
<1>4. UNCHANGED parserVars \/ ParserNext \/ NewParser
  BY DEF Next, vars, Execute, Send, Receive, Received, ReceiveFails, Redirect, Respond,
         UseJar, UseParser, NoParser, ParserNext
<1> QED
  BY <1>1, <1>2, <1>3, <1>4

-----------------------------------------------------------------------------
\* Theorems about well-formed responses.

(* What FaithfulInv says of the two properties.                            *)
LEMMA FaithfulImplies ==
  ASSUME ParserInv, FaithfulInv
  PROVE  ParsesFaithfully /\ CompleteAtItsEnd
<1> SUFFICES ASSUME response.wellFormed
             PROVE  ParsesFaithfully /\ CompleteAtItsEnd
  BY DEF ParsesFaithfully, CompleteAtItsEnd, WholeIsParsed, CompleteIsWhole
<1>1. response \in Responses
  BY DEF ParserInv
<1>2. PICK k \in 0..Len(Wire) : IsWellFormed(response, k)
  BY <1>1, WellFormedAssumption DEF WellFormedAssumption, Wire
<1>3. FaithfulTo(k)
  <2>1. k \in Nat
    BY <1>1, ResponseType
  <2> QED
    BY <1>2, <2>1 DEF FaithfulInv
<1>4. state # "error"
  BY <1>3 DEF FaithfulTo, Places, HeadStates, PlainStates
<1>5. PICK t \in Seq(STRING) : t = response.body
  BY <1>1, ResponseType
<1>6. PICK b \in Seq(STRING) : b = body
  BY <1>3 DEF FaithfulTo
<1>7. Len(b) <= Len(t) /\ \A i \in 1..Len(b) : b[i] = t[i]
  BY <1>3, <1>5, <1>6 DEF FaithfulTo, Within
<1>8. b = SubSeq(t, 1, Len(b))
  <2>1. PICK n \in Nat : n = Len(b)
    OBVIOUS
  <2>2. PICK s \in Seq(STRING) : s = SubSeq(t, 1, n)
    BY <1>7, <2>1
  <2>3. Len(s) = n /\ \A i \in 1..n : s[i] = t[i]
    BY <1>7, <2>1, <2>2
  <2> QED
    BY <1>7, <2>1, <2>2, <2>3, SeqEqual
<1>9. ParsesFaithfully
  BY <1>4, <1>5, <1>6, <1>7, <1>8 DEF ParsesFaithfully, PrefixOf
<1>10. CompleteAtItsEnd
  BY <1>3 DEF FaithfulTo, CompleteAtItsEnd, CompleteIsWhole, Wire
<1> QED
  BY <1>9, <1>10

(* The parser is faithful to every well-formed response that it is given.  *)
LEMMA FaithfulInvariant == ChunksComeWhole => (Spec => []FaithfulInv)
<1> SUFFICES ASSUME ChunksComeWhole
             PROVE  Spec => []FaithfulInv
  OBVIOUS
<1>1. Init => FaithfulInv
  <2> SUFFICES ASSUME Init, NEW k \in Nat, IsWellFormed(response, k)
               PROVE  FaithfulTo(k)
    BY DEF FaithfulInv
  <2>1. /\ state = "status_line" /\ buffer = <<>> /\ body = <<>> /\ chunked = FALSE
        /\ contentLength = -1 /\ response \in Responses /\ sent = 0 /\ hung = FALSE
    BY DEF Init, ParserInit
  <2>2. /\ <<>> \in Seq(STRING) /\ Len(<<>>) = 0
        /\ Len(response.body) \in Nat /\ Len(Wire) \in Nat
    BY <2>1, ResponseType
  <2>3. sent # Len(Wire)
    BY <2>1, <2>2 DEF IsWellFormed, HasHead, Wire
  <2>4. Follows(0) /\ Within
    BY <2>1, <2>2 DEF Follows, Within
  <2>5. WholeIsParsed
    BY <2>3 DEF WholeIsParsed, Wire
  <2> QED
    BY <2>1, <2>2, <2>4, <2>5 DEF FaithfulTo, Places, HeadStates, PlainStates
<1>2. ParserInv /\ FaithfulInv /\ [Next]_vars => FaithfulInv'
  BY FaithfulExchangeStep
<1> QED
  BY <1>1, <1>2, ParserInvariant, PTL DEF Spec

(* However well-formed responses are cut into segments, of any number and  *)
(* length: no one is rejected, and what feed() has put into the body is at *)
(* every time the beginning of the body that was sent. Chunked ones have   *)
(* to come in one piece: feed() loses a size line whose data is missing.   *)
THEOREM ParsedFaithfully == ChunksComeWhole => (Spec => []ParsesFaithfully)
<1>1. ParserInv /\ FaithfulInv => ParsesFaithfully
  BY FaithfulImplies
<1> QED
  BY <1>1, ParserInvariant, FaithfulInvariant, PTL

(* feed() reports a response complete when its last byte was fed, neither  *)
(* before nor after, and then the body is the one that was sent; the same  *)
(* responses, cut in the same ways.                                        *)
THEOREM CompletesAtItsEnd == ChunksComeWhole => (Spec => []CompleteAtItsEnd)
<1>1. ParserInv /\ FaithfulInv => CompleteAtItsEnd
  BY FaithfulImplies
<1> QED
  BY <1>1, ParserInvariant, FaithfulInvariant, PTL

-----------------------------------------------------------------------------
\* The cookie jar.

(* A line replaces the cookie with its key, or is put behind all others.   *)
LEMMA StoredOnce ==
  ASSUME NEW S, NEW j \in Seq(S), NEW c,
         \A a, b \in DOMAIN j : Key(j[a]) = Key(j[b]) => a = b
  PROVE  LET n == Stored(j, c)
         IN  /\ n \in Seq(S \union {c})
             /\ \A a, b \in DOMAIN n : Key(n[a]) = Key(n[b]) => a = b
             /\ \A a \in DOMAIN n : n[a] = c \/ (Key(n[a]) # Key(c) /\ \E b \in DOMAIN j : n[a] = j[b])
             /\ \E a \in DOMAIN n : n[a] = c
             /\ \A b \in DOMAIN j : Key(j[b]) # Key(c) => \E a \in DOMAIN n : n[a] = j[b]
<1> DEFINE n == Stored(j, c)
           same == {i \in DOMAIN j : Key(j[i]) = Key(c)}
<1>1. DOMAIN j = 1..Len(j) /\ Len(j) \in Nat /\ \A i \in 1..Len(j) : j[i] \in S
  OBVIOUS
<1>2. CASE same = {}
  <2>1. n = Append(j, c)
    BY <1>2 DEF Stored
  <2>2. j \in Seq(S \union {c}) /\ c \in S \union {c}
    BY <1>1
  <2>3. /\ n \in Seq(S \union {c})
        /\ Len(n) = Len(j) + 1
        /\ \A i \in 1..Len(j) : n[i] = j[i]
        /\ n[Len(j) + 1] = c
    BY <2>1, <2>2, AppendProperties
  <2> HIDE DEF n
  <2>4. DOMAIN n = 1..Len(j) + 1
    BY <2>3
  <2>5. ASSUME NEW i \in DOMAIN n
        PROVE  \/ i \in DOMAIN j /\ n[i] = j[i] /\ Key(n[i]) # Key(c)
               \/ i = Len(j) + 1 /\ n[i] = c
    <3>1. CASE i \in 1..Len(j)
      <4>1. i \in DOMAIN j /\ n[i] = j[i]
        BY <1>1, <2>3, <3>1
      <4>2. Key(j[i]) # Key(c)
        BY <1>2, <4>1
      <4>3. Key(n[i]) = Key(j[i])
        BY <4>1
      <4> QED
        BY <4>1, <4>2, <4>3
    <3>2. CASE i = Len(j) + 1
      BY <2>3, <3>2
    <3> QED
      BY <1>1, <2>4, <3>1, <3>2
  <2>6. \A i \in DOMAIN j : i \in DOMAIN n /\ n[i] = j[i]
    BY <1>1, <2>3, <2>4
  <2>7. Len(j) + 1 \in DOMAIN n
    BY <1>1, <2>4
  <2> QED
    BY <2>3, <2>5, <2>6, <2>7 DEF n
<1>3. CASE same # {}
  <2>1. PICK k \in DOMAIN j : Key(j[k]) = Key(c)
    BY <1>3
  <2>2. same = {k}
    BY <2>1
  <2>3. (CHOOSE i \in same : \A l \in same : i <= l) = k
    <3>1. k <= k
      BY <1>1
    <3> QED
      BY <2>2, <3>1
  <2>4. n = [j EXCEPT ![k] = c]
    BY <1>3, <2>3 DEF Stored
  <2>5. /\ DOMAIN n = DOMAIN j /\ n[k] = c
        /\ \A i \in DOMAIN j : i # k => n[i] = j[i] /\ Key(n[i]) # Key(c)
    BY <2>1, <2>4
  <2>6. n \in Seq(S \union {c})
    <3>1. n \in [1..Len(j) -> S \union {c}]
      BY <1>1, <2>4
    <3> QED
      BY <1>1, <3>1
  <2> HIDE DEF n
  <2> QED
    BY <2>1, <2>5, <2>6 DEF n
<1> QED
  BY <1>2, <1>3

(* A sequence is one of its own elements. *)
LEMMA OfItsElements ==
  ASSUME NEW T, NEW n \in Seq(T)
  PROVE  n \in Seq({n[i] : i \in DOMAIN n})
<1>1. DOMAIN n = 1..Len(n) /\ Len(n) \in Nat
  OBVIOUS
<1>2. n \in [1..Len(n) -> {n[i] : i \in DOMAIN n}]
  BY <1>1
<1> QED
  BY <1>1, <1>2

(* set_cookie(): the line is the latest of its key, no other changes.      *)
LEMMA StoreLineStep ==
  ASSUME JarInv, NEW l, NEW h, StoreLine(l, h)
  PROVE  JarInv'
<1> DEFINE c == EntryOf(l, h)
           S == {jar[i] : i \in DOMAIN jar}
<1>1. /\ jar' = Stored(jar, c)
      /\ latest' = [k \in DOMAIN latest \union {Key(c)} |->
                      IF k = Key(c) THEN c.value ELSE latest[k]]
  BY DEF StoreLine
<1>2. /\ jar \in Seq(S)
      /\ \A i, j \in DOMAIN jar : Key(jar[i]) = Key(jar[j]) => i = j
      /\ DOMAIN latest = {Key(jar[i]) : i \in DOMAIN jar}
      /\ \A i \in DOMAIN jar : latest[Key(jar[i])] = jar[i].value
  BY DEF JarInv, JarIsLatest
<1> HIDE DEF c, S
<1>3. /\ jar' \in Seq(S \union {c})
      /\ \A a, b \in DOMAIN jar' : Key(jar'[a]) = Key(jar'[b]) => a = b
      /\ \A a \in DOMAIN jar' : \/ jar'[a] = c
                                \/ Key(jar'[a]) # Key(c) /\ \E b \in DOMAIN jar : jar'[a] = jar[b]
      /\ \E a \in DOMAIN jar' : jar'[a] = c
      /\ \A b \in DOMAIN jar : Key(jar[b]) # Key(c) => \E a \in DOMAIN jar' : jar'[a] = jar[b]
  BY <1>1, <1>2, StoredOnce, SMTT(15)
<1>4. jar' \in Seq({jar'[i] : i \in DOMAIN jar'})
  BY <1>3, OfItsElements
<1>5. DOMAIN latest' = DOMAIN latest \union {Key(c)}
  BY <1>1
<1>6. ASSUME NEW a \in DOMAIN jar'
      PROVE  Key(jar'[a]) \in DOMAIN latest' /\ latest'[Key(jar'[a])] = jar'[a].value
  <2>1. CASE jar'[a] = c
    BY <1>1, <1>5, <2>1
  <2>2. CASE jar'[a] # c
    <3>1. PICK b \in DOMAIN jar : jar'[a] = jar[b] /\ Key(jar[b]) # Key(c)
      BY <1>3, <2>2
    <3>2. Key(jar[b]) \in DOMAIN latest /\ latest[Key(jar[b])] = jar[b].value
      BY <1>2
    <3>3. latest'[Key(jar[b])] = latest[Key(jar[b])]
      BY <1>1, <3>1, <3>2
    <3> QED
      BY <1>5, <3>1, <3>2, <3>3
  <2> QED
    BY <2>1, <2>2
<1>7. ASSUME NEW k \in DOMAIN latest'
      PROVE  \E a \in DOMAIN jar' : k = Key(jar'[a])
  <2>1. CASE k = Key(c)
    BY <1>3, <2>1
  <2>2. CASE k # Key(c)
    <3>1. PICK b \in DOMAIN jar : k = Key(jar[b])
      BY <1>2, <1>5, <2>2
    <3> QED
      BY <1>3, <2>2, <3>1
  <2> QED
    BY <2>1, <2>2
<1>8. DOMAIN latest' = {Key(jar'[i]) : i \in DOMAIN jar'}
  BY <1>6, <1>7
<1>9. JarIsLatest'
  BY <1>3, <1>6, <1>8 DEF JarIsLatest
<1> QED
  BY <1>4, <1>9 DEF JarInv

(* The empty jar. *)
LEMMA EmptyJarIsLatest ==
  JarInit => JarInv
<1> SUFFICES ASSUME JarInit
             PROVE  JarInv
  OBVIOUS
<1>1. DOMAIN jar = {} /\ DOMAIN latest = {} /\ jar = <<>>
  BY DEF JarInit
<1>2. jar \in Seq({jar[i] : i \in DOMAIN jar})
  BY <1>1
<1> QED
  BY <1>1, <1>2 DEF JarInv, JarIsLatest

(* clear_cookies(). *)
LEMMA ClearJarStep ==
  ASSUME ClearJar
  PROVE  JarInv'
<1>1. DOMAIN jar' = {} /\ DOMAIN latest' = {} /\ jar' = <<>>
  BY DEF ClearJar
<1>2. jar' \in Seq({jar'[i] : i \in DOMAIN jar'})
  BY <1>1
<1> QED
  BY <1>1, <1>2 DEF JarInv, JarIsLatest

(* What leaves the jar and its history alone. *)
LEMMA JarStutters ==
  ASSUME JarInv, UNCHANGED jarVars
  PROVE  JarInv'
BY DEF JarInv, JarIsLatest, jarVars

(* Whichever responses, redirects and calls of the user set, replace and   *)
(* clear them: the jar has each cookie once, under the value set last for  *)
(* its name, domain and path, and forgets none.                            *)
THEOREM JarHoldsLatest == Spec => []JarIsLatest
<1>1. Init => JarInv
  BY EmptyJarIsLatest DEF Init
<1>2. ASSUME JarInv, [Next]_vars
      PROVE  JarInv'
  <2>1. \/ UNCHANGED jarVars
        \/ ClearJar
        \/ \E l \in Lines : StoreLine(l, req.host)
        \/ \E l \in Lines, h \in Hosts \union {<<>>} : StoreLine(l, h)
    BY <1>2 DEF Next, vars, jarVars, Execute, Send, Receive, Received, ReceiveFails,
                Redirect, Respond, Cookies, UseJar, UseParser
  <2> QED
    BY <1>2, <2>1, StoreLineStep, ClearJarStep, JarStutters
<1>3. JarInv => JarIsLatest
  BY DEF JarInv
<1> QED
  BY <1>1, <1>2, <1>3, PTL DEF Spec

-----------------------------------------------------------------------------
\* The header fields.

\* The fields that apply_defaults makes, but for Cookie.
Own(r) == {NewField(n, <<>>, r) : n \in {"Host", "Content-Length", "Accept"}}

\* What is known of the fields when the request is made, and when it is sent.
BelongTo(fields, r) ==
  \A f \in fields : /\ f.name \in Reapplied => f.hop = r.hop
                    /\ f.name \in Credentials => f.home = r.host

NoCookies(fields) == \A f \in fields : f.name = "Cookie" => f.cookies = <<>>

(* Elements of a smaller set are elements of a larger one.                 *)
LEMMA SequenceOfMore ==
  ASSUME NEW S, NEW T, NEW s \in Seq(S), S \subseteq T
  PROVE  s \in Seq(T)
<1>1. s \in [1 .. Len(s) -> S] /\ Len(s) \in Nat
  BY LenProperties
<1>2. s \in [1 .. Len(s) -> T]
  BY <1>1
<1> QED
  BY <1>1, <1>2

(* http_headers::set. *)
LEMMA SetFieldIs ==
  ASSUME NEW S, NEW s \in Seq(S), NEW f
  PROVE  /\ SetField(s, f) \in Seq(S \union {f})
         /\ \E i \in DOMAIN SetField(s, f) : SetField(s, f)[i] = f
<1>1. PICK T : T = S \union {f}
  OBVIOUS
<1>2. s \in Seq(T) /\ f \in T
  BY <1>1, SequenceOfMore
<1>3. PICK same : same = {i \in DOMAIN s : s[i].name = f.name}
  OBVIOUS
<1>4. DOMAIN s = 1 .. Len(s) /\ Len(s) \in Nat
  BY LenProperties
<1>5. CASE same = {}
  <2>1. PICK n : n = Append(s, f)
    OBVIOUS
  <2>2. SetField(s, f) = n
    BY <1>3, <1>5, <2>1 DEF SetField
  <2>3. n \in Seq(T) /\ Len(n) = Len(s) + 1 /\ n[Len(s) + 1] = f
    BY <1>2, <2>1, AppendProperties
  <2>4. Len(s) + 1 \in DOMAIN n
    BY <1>4, <2>3, LenProperties
  <2> QED
    BY <1>1, <2>2, <2>3, <2>4
<1>6. CASE same # {}
  <2>1. PICK k : k = (CHOOSE i \in same : \A l \in same : i <= l)
    OBVIOUS
  <2>2. same \subseteq Nat
    BY <1>3, <1>4
  <2>3. \E i \in same : \A l \in same : i <= l
    BY <1>6, <2>2, LeastIs
  <2>4. k \in DOMAIN s
    BY <1>3, <2>1, <2>3
  <2>5. PICK n : n = [s EXCEPT ![k] = f]
    OBVIOUS
  <2>6. SetField(s, f) = n
    BY <1>3, <1>6, <2>1, <2>5 DEF SetField
  <2>7. n \in Seq(T) /\ DOMAIN n = DOMAIN s /\ n[k] = f
    BY <1>2, <2>4, <2>5, ExceptSeq
  <2> QED
    BY <1>1, <2>4, <2>6, <2>7
<1> QED
  BY <1>5, <1>6

(* A default leaves the fields as they are, or adds one of the request's.  *)
LEMMA DefaultIs ==
  ASSUME NEW S, NEW s \in Seq(S), NEW n, NEW r
  PROVE  Default(s, n, r) \in Seq(S \union {NewField(n, <<>>, r)})
<1>1. PICK f : f = NewField(n, <<>>, r)
  OBVIOUS
<1>2. s \in Seq(S \union {f}) /\ SetField(s, f) \in Seq(S \union {f})
  BY SequenceOfMore, SetFieldIs
<1>3. Default(s, n, r) \in {s, SetField(s, f)}
  BY <1>1 DEF Default
<1> QED
  BY <1>1, <1>2, <1>3

(* apply_defaults: the fields of a request are those it had, those of its  *)
(* own and the cookies that the jar has for it.                            *)
LEMMA DefaultsAre ==
  ASSUME NEW S, NEW r, r.fields \in Seq(S), NEW c, c = CookiesFor(r.host, r.uri)
  PROVE  /\ c = <<>> => Defaults(r) \in Seq(S \union Own(r))
         /\ c # <<>> =>
              /\ Defaults(r) \in Seq(S \union Own(r) \union {NewField("Cookie", c, r)})
              /\ \E i \in DOMAIN Defaults(r) : Defaults(r)[i] = NewField("Cookie", c, r)
<1>1. PICK T : T = S \union Own(r)
  OBVIOUS
<1>2. \A n \in {"Host", "Content-Length", "Accept"} : NewField(n, <<>>, r) \in T
  BY <1>1 DEF Own
<1>3. ASSUME NEW s \in Seq(T), NEW n \in {"Host", "Content-Length", "Accept"}
      PROVE  Default(s, n, r) \in Seq(T)
  <2>1. Default(s, n, r) \in Seq(T \union {NewField(n, <<>>, r)})
    BY DefaultIs
  <2>2. T \union {NewField(n, <<>>, r)} = T
    BY <1>2
  <2> QED
    BY <2>1, <2>2
<1>4. r.fields \in Seq(T)
  BY <1>1, SequenceOfMore
<1>5. PICK h : h = Default(r.fields, "Host", r)
  OBVIOUS
<1>6. h \in Seq(T)
  BY <1>3, <1>4, <1>5
<1>7. PICK l : l = IF r.withBody THEN Default(h, "Content-Length", r) ELSE h
  OBVIOUS
<1>8. l \in Seq(T)
  BY <1>3, <1>6, <1>7
<1>9. PICK a : a = Default(l, "Accept", r)
  OBVIOUS
<1>10. a \in Seq(T)
  BY <1>3, <1>8, <1>9
<1>11. Defaults(r) = IF c = <<>> THEN a ELSE SetField(a, NewField("Cookie", c, r))
  BY <1>5, <1>7, <1>9 DEF Defaults
<1>12. PICK f : f = NewField("Cookie", c, r)
  OBVIOUS
<1>13. /\ SetField(a, f) \in Seq(T \union {f})
       /\ \E i \in DOMAIN SetField(a, f) : SetField(a, f)[i] = f
  BY <1>10, SetFieldIs
<1> QED
  BY <1>1, <1>10, <1>11, <1>12, <1>13

(* What is copied to the next request.                                     *)
LEMMA CarriedAre ==
  ASSUME NEW S, NEW s \in Seq(S), NEW h
  PROVE  /\ Carried(s, h) \in Seq(S)
         /\ \A k \in DOMAIN Carried(s, h) :
              \E i \in DOMAIN s :
                /\ Carried(s, h)[k] = s[i]
                /\ s[i].name \notin Reapplied
                /\ h # req.host => s[i].name \notin Credentials
<1>1. PICK I : I = {i \in DOMAIN s : /\ s[i].name \notin Reapplied
                                     /\ h # req.host => s[i].name \notin Credentials}
  OBVIOUS
<1>2. PICK t : t = Selected(s, I)
  OBVIOUS
<1>3. Carried(s, h) = t
  BY <1>1, <1>2 DEF Carried
<1>4. t \in Seq(S)
  BY <1>2, SelectedIs
<1>5. \A k \in DOMAIN t : \E i \in I \intersect DOMAIN s : t[k] = s[i]
  BY <1>2, SelectedElements
<1> QED
  BY <1>1, <1>3, <1>4, <1>5

-----------------------------------------------------------------------------
\* The cookies of a request.

\* What paths are made of: the provers do not know that "/" is a STRING.
Chars == STRING \union {"/"}

(* The jar's entries have a domain and a path; build_cookie_header looks   *)
(* at the last character of the path, which there always is.               *)
JarTypeOK ==
  \A i \in DOMAIN jar : /\ jar[i].domain \in Seq(STRING)
                        /\ jar[i].path \in Seq(Chars) \ {<<>>}

(* A domain is that of a host exactly if it is what follows one of its dots*)
(* or all of it: the comparison of the ends does no more and no less.      *)
LEMMA DomainsMatch ==
  ASSUME NEW d \in Seq(STRING), NEW h \in Seq(STRING)
  PROVE  DomainMatches(d, h) <=> InDomain(h, d)
<1>1. PICK m \in Nat : m = Len(d)
  BY LenProperties
<1>2. PICK l \in Nat : l = Len(h)
  BY LenProperties
<1>3. ASSUME l > m, Ending(h, m) = d, h[l - m] = "."
      PROVE  \E n \in 1 .. l : h[n] = "." /\ SubSeq(h, n + 1, l) = d
  <2>1. PICK n \in 1 .. l : n = l - m
    <3>1. l - m \in 1 .. l
      BY <1>3
    <3> QED
      BY <3>1
  <2>2. l - m + 1 = n + 1
    BY <2>1
  <2>3. SubSeq(h, n + 1, l) = d
    BY <1>2, <1>3, <2>2 DEF Ending
  <2> QED
    BY <1>3, <2>1, <2>3
<1>4. ASSUME NEW n \in 1 .. l, h[n] = ".", SubSeq(h, n + 1, l) = d
      PROVE  l > m /\ Ending(h, m) = d /\ h[l - m] = "."
  <2>1. n \in Nat /\ n <= l
    OBVIOUS
  <2>2. m = l - n
    BY <1>1, <1>2, <1>4, <2>1, WindowIs
  <2>3. l > m /\ l - m = n /\ l - m + 1 = n + 1
    BY <2>2
  <2> QED
    BY <1>2, <1>4, <2>3 DEF Ending
<1>5. DomainMatches(d, h) <=> d = <<>> \/ d = h \/ (l > m /\ Ending(h, m) = d /\ h[l - m] = ".")
  BY <1>1, <1>2 DEF DomainMatches
<1>6. InDomain(h, d) <=>
        d = <<>> \/ d = h \/ \E n \in 1 .. l : h[n] = "." /\ SubSeq(h, n + 1, l) = d
  BY <1>2 DEF InDomain
<1> QED
  BY <1>3, <1>4, <1>5, <1>6

(* A path is over another exactly if it is that path up to a slash.        *)
LEMMA PathsMatch ==
  ASSUME NEW p \in Seq(Chars) \ {<<>>}, NEW u \in Seq(STRING)
  PROVE  PathMatches(p, u) <=> UnderPath(u, p)
<1>1. PICK m \in Nat : m = Len(p)
  BY LenProperties
<1>2. PICK l \in Nat : l = Len(u)
  BY LenProperties
<1>3. m # 0
  BY <1>1, EmptySeq
<1>4. ASSUME PathMatches(p, u)
      PROVE  UnderPath(u, p)
  <2>1. /\ l >= m /\ SubSeq(u, 1, m) = p
        /\ l = m \/ p[m] = "/" \/ u[m + 1] = "/"
    BY <1>1, <1>2, <1>4 DEF PathMatches
  <2>2. m \in 0 .. l
    BY <2>1
  <2> QED
    BY <1>2, <2>1, <2>2 DEF UnderPath
<1>5. ASSUME UnderPath(u, p)
      PROVE  PathMatches(p, u)
  <2>1. PICK n \in 0 .. l : /\ p = SubSeq(u, 1, n)
                            /\ n = l \/ u[n + 1] = "/" \/ p[n] = "/"
    BY <1>2, <1>5 DEF UnderPath
  <2>2. PICK z \in Nat : z = 0
    OBVIOUS
  <2>3. n \in Nat /\ n <= l /\ z <= n /\ z + 1 = 1 /\ n - z = n
    BY <2>2
  <2>4. Len(SubSeq(u, z + 1, n)) = n - z
    BY <1>2, <2>3, WindowIs
  <2>5. m = n
    BY <1>1, <2>1, <2>3, <2>4
  <2> QED
    BY <1>1, <1>2, <2>1, <2>3, <2>5 DEF PathMatches
<1> QED
  BY <1>4, <1>5

\* The cookies that are set for a host and a path, where set has the value
\* of each name, domain and path, as latest does.
Due(set, h, u) == {k \in DOMAIN set : InDomain(h, k[2]) /\ UnderPath(u, k[3])}

\* All of them, each once and as it was set last.
AreDue(s, set, due) ==
  /\ s = <<>> <=> due = {}
  /\ {<<Key(s[i]), s[i].value>> : i \in DOMAIN s} = {<<k, set[k]>> : k \in due}
  /\ \A i, j \in DOMAIN s : Key(s[i]) = Key(s[j]) => i = j

(* build_cookie_header: the latest cookies for the host and the path, each *)
(* once and none left out.                                                 *)
LEMMA CookiesForIs ==
  ASSUME JarInv, JarTypeOK, NEW h \in Seq(STRING), NEW u \in Seq(STRING)
  PROVE  AreDue(CookiesFor(h, u), latest, Due(latest, h, u))
<1> SUFFICES ASSUME NEW s, s = CookiesFor(h, u),
                    NEW due, due = {k \in DOMAIN latest : InDomain(h, k[2]) /\ UnderPath(u, k[3])}
             PROVE  /\ s = <<>> <=> due = {}
                    /\ {<<Key(s[i]), s[i].value>> : i \in DOMAIN s} = {<<k, latest[k]>> : k \in due}
                    /\ \A i, j \in DOMAIN s : Key(s[i]) = Key(s[j]) => i = j
  BY DEF AreDue, Due
<1>1. PICK I : I = {i \in DOMAIN jar : /\ DomainMatches(jar[i].domain, h)
                                       /\ PathMatches(jar[i].path, u)}
  OBVIOUS
<1>2. PICK S : jar \in Seq(S)
  BY DEF JarInv
<1>3. s = Selected(jar, I) /\ I \intersect DOMAIN jar = I
  BY <1>1 DEF CookiesFor
<1>4. s \in Seq(S) /\ Selects(s, jar, I)
  BY <1>2, <1>3, SelectedIs
<1>5. PICK e \in [1 .. Len(s) -> I] :
        /\ \A k \in 1 .. Len(s) : s[k] = jar[e[k]]
        /\ \A k, l \in 1 .. Len(s) : e[k] = e[l] => k = l
        /\ \A i \in I : \E k \in 1 .. Len(s) : e[k] = i
  BY <1>4 DEF Selects
<1>6. DOMAIN s = 1 .. Len(s)
  BY <1>4, LenProperties
<1>7. /\ \A i, j \in DOMAIN jar : Key(jar[i]) = Key(jar[j]) => i = j
      /\ DOMAIN latest = {Key(jar[i]) : i \in DOMAIN jar}
      /\ \A i \in DOMAIN jar : latest[Key(jar[i])] = jar[i].value
  BY DEF JarInv, JarIsLatest
<1>8. ASSUME NEW i \in DOMAIN jar
      PROVE  i \in I <=> Key(jar[i]) \in due
  <2>1. Key(jar[i])[2] = jar[i].domain /\ Key(jar[i])[3] = jar[i].path
    BY DEF Key
  <2>2. DomainMatches(jar[i].domain, h) <=> InDomain(h, jar[i].domain)
    BY DomainsMatch DEF JarTypeOK
  <2>3. PathMatches(jar[i].path, u) <=> UnderPath(u, jar[i].path)
    BY PathsMatch DEF JarTypeOK
  <2> QED
    BY <1>1, <1>7, <2>1, <2>2, <2>3
<1>9. \A k \in due : \E i \in I : k = Key(jar[i])
  BY <1>7, <1>8
<1>10. \A i \in I : i \in DOMAIN jar /\ Key(jar[i]) \in due
  BY <1>1, <1>8
<1>11. ASSUME NEW i \in DOMAIN s, NEW j \in DOMAIN s, Key(s[i]) = Key(s[j])
       PROVE  i = j
  BY <1>5, <1>6, <1>7, <1>10, <1>11
<1>12. ASSUME NEW i \in DOMAIN s
       PROVE  Key(s[i]) \in due /\ s[i].value = latest[Key(s[i])]
  BY <1>5, <1>6, <1>7, <1>10, <1>12
<1>13. ASSUME NEW k \in due
       PROVE  \E i \in DOMAIN s : k = Key(s[i])
  <2>1. PICK i \in I : k = Key(jar[i])
    BY <1>9
  <2>2. PICK l \in DOMAIN s : e[l] = i
    BY <1>5, <1>6
  <2> QED
    BY <1>5, <1>6, <2>1, <2>2
<1>14. {<<Key(s[i]), s[i].value>> : i \in DOMAIN s} = {<<k, latest[k]>> : k \in due}
  BY <1>12, <1>13
<1>15. s = <<>> <=> DOMAIN s = {}
  BY <1>4, <1>6, EmptySeq, LenProperties
<1>16. DOMAIN s = {} <=> due = {}
  BY <1>12, <1>13
<1> QED
  BY <1>11, <1>14, <1>15, <1>16

(* The entries that set_cookie() makes have a domain and a path.           *)
LEMMA JarTypeStep ==
  ASSUME JarInv, JarTypeOK, NEW l \in Lines, NEW h \in Hosts \union {<<>>}, StoreLine(l, h)
  PROVE  JarTypeOK'
<1>1. PICK c : c = EntryOf(l, h)
  OBVIOUS
<1>2. l.domain \in Seq(STRING) /\ l.path \in Seq(STRING)
  BY JarAssumption DEF JarAssumption
<1>3. h \in Seq(STRING)
  <2>1. <<>> \in Seq(STRING)
    OBVIOUS
  <2>2. \A k \in Hosts : k \in Seq(STRING)
    BY JarAssumption DEF JarAssumption
  <2> QED
    BY <2>1, <2>2
<1>4. WithoutDot(l.domain) \in Seq(STRING)
  BY <1>2, HeadTailProperties DEF WithoutDot
<1>5. c.domain \in Seq(STRING) /\ c.path \in Seq(Chars) \ {<<>>}
  <2>1. PICK p : p = <<"/">>
    OBVIOUS
  <2>2. p \in Seq(Chars) /\ p # <<>>
    <3>1. p = Append(<<>>, "/")
      BY <2>1
    <3>2. <<>> \in Seq(Chars) /\ "/" \in Chars
      BY DEF Chars
    <3>3. Len(<<>>) = 0 /\ 0 + 1 # 0
      OBVIOUS
    <3> QED
      BY <3>1, <3>2, <3>3, AppendProperties
  <2>3. /\ c.domain = IF WithoutDot(l.domain) = <<>> THEN h ELSE WithoutDot(l.domain)
        /\ c.path = IF l.path = <<>> THEN p ELSE l.path
    BY <1>1, <2>1 DEF EntryOf
  <2>4. l.path \in Seq(Chars)
    BY <1>2, SequenceOfMore DEF Chars
  <2> QED
    BY <1>3, <1>4, <2>2, <2>3, <2>4
<1>6. PICK S : S = {jar[i] : i \in DOMAIN jar}
  OBVIOUS
<1>7. jar' = Stored(jar, c)
  BY <1>1 DEF StoreLine
<1>8. \A a \in DOMAIN jar' : jar'[a] = c \/ \E b \in DOMAIN jar : jar'[a] = jar[b]
  <2>1. /\ jar \in Seq(S)
        /\ \A a, b \in DOMAIN jar : Key(jar[a]) = Key(jar[b]) => a = b
    BY <1>6 DEF JarInv, JarIsLatest
  <2>2. jar' \in Seq(S \union {c})
    BY <1>7, <2>1, StoredOnce
  <2>3. \A a \in DOMAIN jar' : jar'[a] \in S \union {c}
    BY <2>2, LenProperties, ElementOfSeq
  <2> QED
    BY <1>6, <2>3
<1> QED
  BY <1>5, <1>8 DEF JarTypeOK

-----------------------------------------------------------------------------
\* Requests.

\* What CookiesAreTheLatest asks of the cookies in the fields of a request.
CookiesOf(fields, set, h, u) ==
  LET due == Due(set, h, u)
      attached == {f.cookies : f \in {g \in fields : g.name = "Cookie" /\ g.cookies # <<>>}}
  IN  IF due = {} THEN attached = {}
      ELSE \E s \in attached :
             /\ attached = {s}
             /\ {<<Key(s[i]), s[i].value>> : i \in DOMAIN s} = {<<k, set[k]>> : k \in due}
             /\ \A i, j \in DOMAIN s : Key(s[i]) = Key(s[j]) => i = j

\* The fields of a request that is r but for them.
RequestType(r, fields) ==
  /\ r = [host |-> r.host, uri |-> r.uri, withBody |-> r.withBody, hop |-> r.hop,
          fields |-> r.fields]
  /\ r.host \in Hosts /\ r.uri \in Uris
  /\ r.fields \in Seq(fields)

(* What makes FieldsBelong and CookiesAreTheLatest inductive: a request    *)
(* has no cookies before it is sent, and what belonged to an earlier hop   *)
(* was not copied.                                                         *)
RequestInv ==
  /\ phase \in {"idle", "prepare", "receive", "respond"}
  /\ phase # "idle" => RequestType(req, SentFields) /\ BelongTo(SentFields, req)
  /\ phase = "prepare" => NoCookies(SentFields)
  /\ phase = "receive" => CookiesOf(SentFields, latest, req.host, req.uri)

(* The elements of a sequence are from the set it is a sequence over.      *)
LEMMA ElementsAreOf ==
  ASSUME NEW S, NEW s \in Seq(S)
  PROVE  {s[i] : i \in DOMAIN s} \subseteq S
<1>1. DOMAIN s = 1 .. Len(s)
  BY LenProperties
<1> QED
  BY <1>1, ElementOfSeq

(* Fields that belong to a request, and those it makes itself, do so.      *)
LEMMA OwnBelong ==
  ASSUME NEW r, NEW S, BelongTo(S, r), NEW c
  PROVE  BelongTo(S \union Own(r) \union {NewField("Cookie", c, r)}, r)
<1>1. ASSUME NEW n, NEW k
      PROVE  BelongTo({NewField(n, k, r)}, r)
  BY DEF BelongTo, NewField
<1> QED
  BY <1>1 DEF BelongTo, Own

(* The cookies that are attached are those the jar has for the request.    *)
LEMMA AttachedAre ==
  ASSUME JarInv, JarTypeOK,
         NEW r, NEW S, RequestType(r, S), NoCookies(S), NEW fields, fields = Defaults(r)
  PROVE  CookiesOf({fields[i] : i \in DOMAIN fields}, latest, r.host, r.uri)
<1>1. PICK c : c = CookiesFor(r.host, r.uri)
  OBVIOUS
<1>2. PICK due : due = Due(latest, r.host, r.uri)
  OBVIOUS
<1>3. r.host \in Seq(STRING) /\ r.uri \in Seq(STRING)
  BY JarAssumption DEF JarAssumption, RequestType
<1>4. /\ c = <<>> <=> due = {}
      /\ {<<Key(c[i]), c[i].value>> : i \in DOMAIN c} = {<<k, latest[k]>> : k \in due}
      /\ \A i, j \in DOMAIN c : Key(c[i]) = Key(c[j]) => i = j
  <2>1. AreDue(CookiesFor(r.host, r.uri), latest, Due(latest, r.host, r.uri))
    BY <1>3, CookiesForIs
  <2> QED
    BY <1>1, <1>2, <2>1 DEF AreDue
<1>5. PICK F : F = {fields[i] : i \in DOMAIN fields}
  OBVIOUS
<1>6. PICK attached :
        attached = {f.cookies : f \in {g \in F : g.name = "Cookie" /\ g.cookies # <<>>}}
  OBVIOUS
<1>7. r.fields \in Seq(S)
  BY DEF RequestType
<1>8. \A f \in S \union Own(r) : f.name = "Cookie" => f.cookies = <<>>
  BY DEF NoCookies, Own, NewField
<1>9. CASE c = <<>>
  <2>1. fields \in Seq(S \union Own(r))
    BY <1>1, <1>7, <1>9, DefaultsAre
  <2>2. F \subseteq S \union Own(r)
    BY <1>5, <2>1, ElementsAreOf
  <2>3. attached = {}
    BY <1>6, <1>8, <2>2
  <2> QED
    BY <1>2, <1>4, <1>5, <1>6, <1>9, <2>3 DEF CookiesOf
<1>10. CASE c # <<>>
  <2>1. PICK f : f = NewField("Cookie", c, r)
    OBVIOUS
  <2>2. /\ fields \in Seq(S \union Own(r) \union {f})
        /\ \E i \in DOMAIN fields : fields[i] = f
    BY <1>1, <1>7, <1>10, <2>1, DefaultsAre
  <2>3. F \subseteq S \union Own(r) \union {f}
    BY <1>5, <2>2, ElementsAreOf
  <2>4. f \in F
    BY <1>5, <2>2
  <2>5. f.name = "Cookie" /\ f.cookies = c
    BY <2>1 DEF NewField
  <2>6. attached = {c}
    BY <1>6, <1>8, <1>10, <2>3, <2>4, <2>5
  <2>7. due # {}
    BY <1>4, <1>10
  <2> QED
    BY <1>2, <1>4, <1>5, <1>6, <2>6, <2>7 DEF CookiesOf
<1> QED
  BY <1>9, <1>10

(* Execute: the user's fields are of the first hop and its host.           *)
LEMMA ExecuteStep ==
  ASSUME NEW h \in Hosts, NEW u \in Uris, NEW b \in BOOLEAN, NEW names \in UserFields,
         Execute(h, u, b, names)
  PROVE  RequestInv'
<1>1. PICK q : q = [host |-> h, uri |-> u, withBody |-> b, hop |-> 0, fields |-> <<>>]
  OBVIOUS
<1>2. PICK s : s = [i \in DOMAIN names |-> NewField(names[i], <<>>, q)]
  OBVIOUS
<1>3. req' = [q EXCEPT !.fields = s] /\ phase' = "prepare"
  BY <1>1, <1>2 DEF Execute, Requested
<1>4. req' = [host |-> h, uri |-> u, withBody |-> b, hop |-> 0, fields |-> s]
  BY <1>1, <1>3
<1>5. PICK F : F = {s[i] : i \in DOMAIN s}
  OBVIOUS
<1>6. names \in Seq(STRING)
  BY ExchangeAssumption DEF ExchangeAssumption
<1>7. s \in Seq(F)
  <2>1. DOMAIN names = 1 .. Len(names) /\ Len(names) \in Nat
    BY <1>6, LenProperties
  <2>2. s \in [1 .. Len(names) -> F]
    BY <1>2, <1>5, <2>1
  <2> QED
    BY <2>1, <2>2
<1>8. \A f \in F : f.cookies = <<>> /\ f.hop = 0 /\ f.home = h
  BY <1>1, <1>2, <1>5 DEF NewField
<1>9. SentFields' = F
  BY <1>4, <1>5 DEF SentFields
<1>10. RequestType(req, SentFields)'
  BY <1>4, <1>7, <1>9 DEF RequestType
<1>11. BelongTo(SentFields, req)' /\ NoCookies(SentFields)'
  BY <1>4, <1>8, <1>9 DEF BelongTo, NoCookies
<1> QED
  BY <1>3, <1>10, <1>11 DEF RequestInv

(* Send: the defaults are applied.                                         *)
LEMMA SendStep ==
  ASSUME JarInv, JarTypeOK, RequestInv, Send
  PROVE  RequestInv'
<1>1. /\ phase = "prepare" /\ phase' = "receive"
      /\ req' = [req EXCEPT !.fields = Defaults(req)]
      /\ latest' = latest
  BY DEF Send, jarVars
<1>2. PICK r : r = req
  OBVIOUS
<1>3. PICK S : S = SentFields
  OBVIOUS
<1>4. RequestType(r, S) /\ BelongTo(S, r) /\ NoCookies(S)
  BY <1>1, <1>2, <1>3 DEF RequestInv
<1>5. PICK s : s = Defaults(r)
  OBVIOUS
<1>6. PICK F : F = {s[i] : i \in DOMAIN s}
  OBVIOUS
<1>7. PICK q : q = req'
  OBVIOUS
<1>8. q = [host |-> r.host, uri |-> r.uri, withBody |-> r.withBody, hop |-> r.hop, fields |-> s]
  <2>1. q = [r EXCEPT !.fields = s]
    BY <1>1, <1>2, <1>5, <1>7
  <2> QED
    BY <1>4, <2>1 DEF RequestType
<1>9. SentFields' = F
  BY <1>6, <1>7, <1>8 DEF SentFields
<1>10. PICK c : c = CookiesFor(r.host, r.uri)
  OBVIOUS
<1>11. PICK G : G = S \union Own(r) \union {NewField("Cookie", c, r)}
  OBVIOUS
<1>12. s \in Seq(G)
  <2>1. \/ s \in Seq(S \union Own(r))
        \/ s \in Seq(S \union Own(r) \union {NewField("Cookie", c, r)})
    BY <1>4, <1>5, <1>10, DefaultsAre DEF RequestType
  <2>2. S \union Own(r) \subseteq G
    BY <1>11
  <2> QED
    BY <1>11, <2>1, <2>2, SequenceOfMore
<1>13. F \subseteq G
  BY <1>6, <1>12, ElementsAreOf
<1>14. BelongTo(G, r)
  BY <1>4, <1>11, OwnBelong
<1>15. BelongTo(F, q)
  BY <1>8, <1>13, <1>14 DEF BelongTo
<1>16. s \in Seq(F)
  BY <1>6, <1>12, OfItsElements
<1>17. RequestType(q, F)
  BY <1>4, <1>8, <1>16 DEF RequestType
<1>18. CookiesOf(F, latest, r.host, r.uri)
  BY <1>4, <1>5, <1>6, AttachedAre
<1>19. CookiesOf(SentFields, latest, req.host, req.uri)'
  <2>1. latest' = latest /\ SentFields' = F /\ req'.host = r.host /\ req'.uri = r.uri
    BY <1>1, <1>7, <1>8, <1>9
  <2> QED
    BY <1>18, <2>1
<1>20. RequestType(req, SentFields)' /\ BelongTo(SentFields, req)'
  BY <1>7, <1>9, <1>15, <1>17 DEF RequestType, BelongTo
<1> QED
  BY <1>1, <1>19, <1>20 DEF RequestInv

(* Redirect: what is copied belongs to the next request, too.              *)
LEMMA RedirectStep ==
  ASSUME RequestInv, NEW h \in Hosts, NEW u \in Uris, Redirect(h, u)
  PROVE  RequestInv'
<1>1. phase = "respond" /\ phase' = "prepare" /\ req' = Redirected(h, u)
  BY DEF Redirect
<1>2. PICK s : s = Carried(req.fields, h)
  OBVIOUS
<1>3. PICK F : F = {s[i] : i \in DOMAIN s}
  OBVIOUS
<1>4. req' = [host |-> h, uri |-> u, withBody |-> FALSE, hop |-> req.hop + 1, fields |-> s]
  BY <1>1, <1>2 DEF Redirected
<1>5. req.fields \in Seq(SentFields) /\ BelongTo(SentFields, req)
  BY <1>1 DEF RequestInv, RequestType
<1>6. /\ s \in Seq(SentFields)
      /\ \A k \in DOMAIN s : \E i \in DOMAIN req.fields :
           /\ s[k] = req.fields[i]
           /\ req.fields[i].name \notin Reapplied
           /\ h # req.host => req.fields[i].name \notin Credentials
  BY <1>2, <1>5, CarriedAre
<1>7. ASSUME NEW f \in F
      PROVE  /\ f \in SentFields
             /\ f.name \notin Reapplied
             /\ h # req.host => f.name \notin Credentials
  BY <1>3, <1>6, <1>7 DEF SentFields
<1>8. s \in Seq(F)
  BY <1>3, <1>6, OfItsElements
<1>9. SentFields' = F
  BY <1>3, <1>4 DEF SentFields
<1>10. RequestType(req, SentFields)'
  BY <1>4, <1>8, <1>9 DEF RequestType
<1>11. ASSUME NEW f \in F
       PROVE  /\ f.name \in Credentials => f.home = h
              /\ f.name # "Cookie"
  <2>1. f \in SentFields /\ f.name \notin Reapplied /\ (h # req.host => f.name \notin Credentials)
    BY <1>7
  <2> QED
    BY <1>5, <2>1 DEF BelongTo, Reapplied
<1>12. BelongTo(SentFields, req)' /\ NoCookies(SentFields)'
  BY <1>4, <1>7, <1>9, <1>11 DEF BelongTo, NoCookies
<1> QED
  BY <1>1, <1>10, <1>12 DEF RequestInv

(* Every other step leaves the request as it is, or is done with it.       *)
LEMMA RequestKept ==
  ASSUME RequestInv,
         \/ phase' = "idle"
         \/ /\ req' = req
            /\ \/ phase' = phase /\ (phase = "receive" => latest' = latest)
               \/ phase = "receive" /\ phase' = "respond"
  PROVE  RequestInv'
<1>1. CASE phase' = "idle"
  BY <1>1 DEF RequestInv
<1>2. CASE /\ req' = req
           /\ \/ phase' = phase /\ (phase = "receive" => latest' = latest)
              \/ phase = "receive" /\ phase' = "respond"
  <2>1. SentFields' = SentFields
    BY <1>2 DEF SentFields
  <2>2. phase # "idle" => RequestType(req, SentFields)' /\ BelongTo(SentFields, req)'
    BY <1>2, <2>1 DEF RequestInv, RequestType, BelongTo
  <2>3. phase = "prepare" => NoCookies(SentFields)'
    BY <2>1 DEF RequestInv, NoCookies
  <2>4. phase = "receive" /\ phase' = phase => CookiesOf(SentFields, latest, req.host, req.uri)'
    <3> SUFFICES ASSUME phase = "receive", phase' = phase
                 PROVE  CookiesOf(SentFields, latest, req.host, req.uri)'
      OBVIOUS
    <3>1. latest' = latest /\ SentFields' = SentFields /\ req' = req
      BY <1>2, <2>1
    <3>2. CookiesOf(SentFields, latest, req.host, req.uri)
      BY DEF RequestInv
    <3> QED
      BY <3>1, <3>2
  <2> QED
    BY <1>2, <2>2, <2>3, <2>4 DEF RequestInv
<1> QED
  BY <1>1, <1>2

JarAndRequestInv == JarInv /\ JarTypeOK /\ RequestInv

(* The requests and the jar, together.                                     *)
LEMMA JarAndRequestInvariant == Spec => []JarAndRequestInv
<1>1. Init => JarAndRequestInv
  <2> SUFFICES ASSUME Init PROVE JarAndRequestInv
    OBVIOUS
  <2>1. JarInv
    BY EmptyJarIsLatest DEF Init
  <2>2. JarTypeOK
    BY DEF Init, JarInit, JarTypeOK
  <2>3. RequestInv
    BY DEF Init, RequestInv
  <2> QED
    BY <2>1, <2>2, <2>3 DEF JarAndRequestInv
<1>2. ASSUME JarAndRequestInv, [Next]_vars
      PROVE  JarAndRequestInv'
  <2>1. JarInv /\ JarTypeOK /\ RequestInv
    BY <1>2 DEF JarAndRequestInv
  <2>2. \/ UNCHANGED jarVars
        \/ ClearJar
        \/ \E l \in Lines, h \in Hosts \union {<<>>} : StoreLine(l, h)
    <3>1. ASSUME Cookies, phase = "respond"
          PROVE  UNCHANGED jarVars \/ \E l \in Lines, h \in Hosts \union {<<>>} : StoreLine(l, h)
      <4>1. req.host \in Hosts
        BY <2>1, <3>1 DEF RequestInv, RequestType
      <4> QED
        BY <3>1, <4>1 DEF Cookies
    <3> QED
      BY <1>2, <3>1 DEF Next, vars, jarVars, Execute, Send, Receive, Received, ReceiveFails,
                        Redirect, Respond, UseJar, UseParser
  <2>3. JarInv'
    BY <2>1, <2>2, StoreLineStep, ClearJarStep, JarStutters
  <2>4. JarTypeOK'
    <3>1. CASE UNCHANGED jarVars
      BY <2>1, <3>1 DEF JarTypeOK, jarVars
    <3>2. CASE ClearJar
      BY <3>2 DEF ClearJar, JarTypeOK
    <3> QED
      BY <2>1, <2>2, <3>1, <3>2, JarTypeStep
  <2>5. RequestInv'
    <3>1. CASE \E h \in Hosts, u \in Uris, b \in BOOLEAN, s \in UserFields : Execute(h, u, b, s)
      BY <3>1, ExecuteStep
    <3>2. CASE Send
      BY <2>1, <3>2, SendStep
    <3>3. CASE \E h \in Hosts, u \in Uris : Redirect(h, u)
      BY <2>1, <3>3, RedirectStep
    <3>4. CASE \/ Receive \/ Received \/ ReceiveFails \/ Respond
               \/ UseJar \/ UseParser \/ UNCHANGED vars
      <4>1. \/ phase' = "idle"
            \/ /\ req' = req
               /\ \/ phase' = phase /\ (phase = "receive" => latest' = latest)
                  \/ phase = "receive" /\ phase' = "respond"
        BY <3>4 DEF Receive, Received, ReceiveFails, Respond, UseJar, UseParser, vars, jarVars
      <4> QED
        BY <2>1, <4>1, RequestKept
    <3> QED
      BY <1>2, <3>1, <3>2, <3>3, <3>4 DEF Next
  <2> QED
    BY <2>3, <2>4, <2>5 DEF JarAndRequestInv
<1> QED
  BY <1>1, <1>2, PTL DEF Spec

(* However often a request is redirected, and to whichever hosts: it goes  *)
(* out with a Host, a length and cookies of its own, and the credentials   *)
(* of the user only where they were given for.                             *)
THEOREM FieldsStayWhereTheyBelong == Spec => []FieldsBelong
<1>1. JarAndRequestInv => FieldsBelong
  BY DEF JarAndRequestInv, RequestInv, BelongTo, FieldsBelong, Sent
<1> QED
  BY <1>1, JarAndRequestInvariant, PTL

(* A request carries the cookies whose domain and path match its own by the*)
(* rule of cookie_jar, which knows of no host-only cookies, each once and  *)
(* as it was set last, and no others.                                      *)
THEOREM RequestsCarryTheLatest == Spec => []CookiesAreTheLatest
<1>1. JarAndRequestInv => CookiesAreTheLatest
  BY DEF JarAndRequestInv, RequestInv, CookiesOf, Due, CookiesAreTheLatest, Sent
<1> QED
  BY <1>1, JarAndRequestInvariant, PTL
=============================================================================
