-------------------------- MODULE TlsClientProofs ---------------------------
(***************************************************************************)
(* Theorems about HttpClient, for all sets of origins, locations, methods  *)
(* and framings, and for every redirect budget; and about TlsClient over   *)
(* it: who owns the OpenSSL objects, and which requests go over which      *)
(* session.                                                                *)
(***************************************************************************)
EXTENDS TlsClient, SequenceTheorems, FiniteSetTheorems, TLAPS

-----------------------------------------------------------------------------
\* HttpClient: the inductive invariant.

(* Where do_execute() is, it has what it needs there: no entry of the pool *)
(* while it makes a connection, that of the request while it exchanges     *)
(* messages, an answer when it goes on with one, a target to redirect to.  *)
PlaceInv ==
  /\ phase \in {"connect", "handshake"} => pool[req.origin] = None
  /\ phase = "handshake" =>
       conn = NewConnection(req.origin) /\ req.origin.scheme = "https"
  /\ phase \in {"send", "receive", "respond"} => using = req.origin
  /\ (answer # None) = (phase = "respond")
  /\ (target # None) = (phase \in {"callback", "follow"})

(* The pool has connections under the key of what they are connected to.   *)
Fits(c, k) == c.host = k.host /\ c.port = k.port /\ c.tls = (k.scheme = "https")

EntryInv == \A k \in Origins : pool[k] # None => Fits(pool[k], k)

(* A request has spent what it no longer has of its budget, and has        *)
(* credentials only for the host it was made for.                          *)
RequestFits(r) ==
  /\ r.hops + r.budget = MaxRedirects
  /\ r.auth => r.origin.host = r.home

RequestInv ==
  /\ req # None => RequestFits(req)
  /\ phase \in {"callback", "follow"} => req.budget > 0
  /\ \A i \in DOMAIN suspended :
       RequestFits(suspended[i].req) /\ suspended[i].req.budget > 0

(* Pieces of the wire that are no part of a response's head or body.       *)
Quiet(s) == \A i \in DOMAIN s : s[i].piece \in {"tail", "eof"}

(* A connection is owed an answer, or carries one, only while do_execute() *)
(* waits for it: one answer, to the request that is being executed, and    *)
(* not on the wire while the server still owes it.                         *)
OwnExchange(c) ==
  /\ c.owed = <<>> \/ (Len(c.owed) = 1 /\ c.owed[1].own)
  /\ c.owed # <<>> => Quiet(c.wire)
  /\ \A i \in DOMAIN c.wire :
       \/ c.wire[i].piece \in {"tail", "eof"}
       \/ /\ c.wire[i].own
          /\ \A j \in DOMAIN c.wire : j # i => c.wire[j].piece \in {"tail", "eof"}

Proper(c, k) ==
  IF phase = "receive" /\ k = using
    THEN OwnExchange(c)
    ELSE c.owed = <<>> /\ Quiet(c.wire)

ExchangeInv ==
  /\ \A k \in Origins : pool[k] # None => Proper(pool[k], k)
  /\ OwnAnswer

ClientInv == TypeOK /\ PlaceInv /\ EntryInv /\ RequestInv /\ ExchangeInv

-----------------------------------------------------------------------------
\* The end of an execution.

(* A request that waits in a redirect callback is one with a target.       *)
LEMMA SuspendedType ==
  ASSUME TypeOK, suspended # <<>>
  PROVE  /\ Head(suspended) = suspended[1]
         /\ 1 \in DOMAIN suspended
         /\ suspended[1].req \in Requests
         /\ suspended[1].target \in Origins \union {Bad}
         /\ Tail(suspended) \in Seq([req : Requests, target : Origins \union {Bad}])
         /\ \A i \in DOMAIN Tail(suspended) :
              i + 1 \in DOMAIN suspended /\ Tail(suspended)[i] = suspended[i + 1]
<1> DEFINE Frames == [req : Requests, target : Origins \union {Bad}]
<1>1. suspended \in Seq(Frames)
  BY DEF TypeOK
<1> HIDE DEF Frames
<1>2. Len(suspended) \in Nat \ {0} /\ DOMAIN suspended = 1..Len(suspended)
  BY <1>1, EmptySeq, LenProperties
<1>3. suspended[1] \in Frames
  BY <1>1, <1>2, ElementOfSeq
<1>4. suspended[1].req \in Requests /\ suspended[1].target \in Origins \union {Bad}
  BY <1>3 DEF Frames
<1>5. /\ Tail(suspended) \in Seq(Frames)
      /\ Len(Tail(suspended)) = Len(suspended) - 1
      /\ \A i \in 1..Len(Tail(suspended)) : Tail(suspended)[i] = suspended[i + 1]
  BY <1>1, HeadTailProperties
<1>6. DOMAIN Tail(suspended) = 1..Len(Tail(suspended))
  BY <1>5, LenProperties
<1>7. \A i \in DOMAIN Tail(suspended) :
        i + 1 \in DOMAIN suspended /\ Tail(suspended)[i] = suspended[i + 1]
  BY <1>2, <1>5, <1>6
<1> QED
  BY <1>1, <1>2, <1>4, <1>5, <1>7, HeadTailProperties DEF Frames

(* The end of an execution leaves the client idle, or in the callback the  *)
(* request was executed from, with that callback's request.                *)
LEMMA FinishInv ==
  ASSUME ClientInv, NEW r \in {"response", "failed", "excused"}, Finish(r),
         pool' \in [Origins -> Connections \union {None}]
  PROVE  /\ TypeOK' /\ PlaceInv' /\ RequestInv'
         /\ answer' = None /\ phase' \in {"idle", "callback"}
<1>1. CASE suspended = <<>>
  BY <1>1 DEF Finish, ClientInv, TypeOK, PlaceInv, RequestInv
<1>2. CASE suspended # <<>>
  <2>1. req' = suspended[1].req /\ target' = suspended[1].target
        /\ phase' = "callback" /\ suspended' = Tail(suspended)
    BY <1>2, SuspendedType DEF Finish, ClientInv
  <2>2. TypeOK'
    BY <1>2, <2>1, SuspendedType, NoneAssumption
    DEF NoneAssumption, Finish, ClientInv, TypeOK
  <2>3. PlaceInv'
    BY <1>2, <2>1, SuspendedType, ClientAssumption
    DEF ClientAssumption, Finish, ClientInv, PlaceInv
  <2>4. RequestInv'
    BY <1>2, <2>1, SuspendedType DEF ClientInv, RequestInv, RequestFits
  <2> QED
    BY <2>1, <2>2, <2>3, <2>4 DEF Finish
<1> QED
  BY <1>1, <1>2

-----------------------------------------------------------------------------
\* What the operations do to a connection.

(* A new connection to an origin, and the same after its handshake.        *)
LEMMA NewConnectionType ==
  ASSUME NEW o \in Origins
  PROVE  LET c == NewConnection(o)
         IN  /\ c \in Connections /\ [c EXCEPT !.tls = TRUE] \in Connections
             /\ c.owed = <<>> /\ Quiet(c.wire)
             /\ c.host = o.host /\ c.port = o.port /\ c.tls = FALSE
<1>1. o.port \in Ports
  BY ClientAssumption DEF ClientAssumption
<1>2. <<>> \in Seq([own : BOOLEAN, method : Methods \union {"GET"}])
      /\ <<>> \in Seq(Pieces) /\ DOMAIN <<>> = {}
  BY EmptySeq
<1> QED
  BY <1>1, <1>2 DEF NewConnection, Connections, Quiet

(* What was owed or on the wire is known to be of earlier requests.        *)
LEMMA EarlierPieces ==
  ASSUME NEW s \in Seq(Pieces)
  PROVE  /\ Earlier(s) \in Seq(Pieces)
         /\ DOMAIN Earlier(s) = DOMAIN s
         /\ \A i \in DOMAIN s : Earlier(s)[i].piece = s[i].piece
<1>1. Len(s) \in Nat /\ DOMAIN s = 1..Len(s) /\ \A i \in 1..Len(s) : s[i] \in Pieces
  BY LenProperties, ElementOfSeq
<1>2. \A i \in 1..Len(s) : [s[i] EXCEPT !.own = FALSE] \in Pieces
                           /\ [s[i] EXCEPT !.own = FALSE].piece = s[i].piece
  BY <1>1 DEF Pieces
<1>3. Earlier(s) \in [1..Len(s) -> Pieces]
  BY <1>2 DEF Earlier
<1>4. Earlier(s) \in Seq(Pieces)
  BY <1>1, <1>3, SeqDef
<1> QED
  BY <1>1, <1>2, <1>4 DEF Earlier

(* One or two pieces are taken from the wire.                              *)
LEMMA TakenPieces ==
  ASSUME NEW s \in Seq(Pieces), NEW n \in Nat, n <= Len(s)
  PROVE  /\ SubSeq(s, n + 1, Len(s)) \in Seq(Pieces)
         /\ DOMAIN SubSeq(s, n + 1, Len(s)) = 1..(Len(s) - n)
         /\ \A i \in 1..(Len(s) - n) :
              i + n \in DOMAIN s /\ SubSeq(s, n + 1, Len(s))[i] = s[i + n]
<1> DEFINE from == n + 1
           to == Len(s)
           rest == SubSeq(s, from, to)
<1>1. to \in Int /\ from \in Int /\ DOMAIN s = 1..to /\ n <= to /\ from - 1 = n
  BY LenProperties
<1>2. \A i \in from..to : i \in 1..to /\ s[i] \in Pieces
  BY <1>1, ElementOfSeq
<1> HIDE DEF from, to
<1>3. /\ rest \in Seq(Pieces)
      /\ Len(rest) = IF from <= to THEN to - from + 1 ELSE 0
      /\ \A i \in 1..(to - from + 1) : rest[i] = s[from + i - 1]
  BY <1>1, <1>2, SubSeqProperties
<1>4. Len(rest) = to - n /\ \A i \in 1..(to - n) : rest[i] = s[i + n] /\ i + n \in 1..to
  BY <1>1, <1>3 DEF from
<1>5. DOMAIN rest = 1..(to - n)
  BY <1>3, <1>4, LenProperties
<1> QED
  BY <1>1, <1>3, <1>4, <1>5 DEF from, to

(* A piece comes behind what is on the wire.                               *)
LEMMA AppendedPiece ==
  ASSUME NEW s \in Seq(Pieces), NEW p \in Pieces
  PROVE  /\ Append(s, p) \in Seq(Pieces)
         /\ DOMAIN Append(s, p) = 1..(Len(s) + 1)
         /\ Append(s, p)[Len(s) + 1] = p
         /\ \A i \in 1..Len(s) : Append(s, p)[i] = s[i]
         /\ Len(s) \in Nat /\ DOMAIN s = 1..Len(s)
BY AppendProperties, LenProperties

(* The end of the stream is a piece, and no part of a response.            *)
LEMMA EofPiece == Eof \in Pieces /\ Eof.piece = "eof"
BY DEF Eof, Pieces

(* The pieces of an answer: the first is the response, of the request it   *)
(* answers, and those behind it are no part of one.                        *)
LEMMA AnswerPieces ==
  ASSUME NEW r \in Answers, NEW q \in [own : BOOLEAN, method : Methods \union {"GET"}]
  PROVE  /\ PiecesOf(r, q) \in Seq(Pieces)
         /\ \A i \in DOMAIN PiecesOf(r, q) :
              \/ PiecesOf(r, q)[i].piece \in {"tail", "eof"}
              \/ i = 1 /\ PiecesOf(r, q)[i].own = q.own
<1> DEFINE bytes(p) == [Eof EXCEPT !.piece = p, !.own = q.own]
           whole == [piece |-> "whole", redirect |-> r.redirect, location |-> r.location,
                     close |-> r.close, own |-> q.own]
<1>1. /\ bytes("part") \in Pieces /\ bytes("part").own = q.own
      /\ bytes("tail") \in Pieces /\ bytes("tail").piece = "tail"
  BY DEF Eof, Pieces
<1>2. whole \in Pieces /\ whole.own = q.own
  BY DEF Answers, Pieces
<1>3. PiecesOf(r, q) = IF r.framing = "eof" \/ (q.method = "HEAD" /\ r.framing # "empty")
                         THEN <<bytes("part")>>
                       ELSE IF r.framing = "chunked" THEN <<whole, bytes("tail")>>
                       ELSE <<whole>>
  BY DEF PiecesOf
<1> HIDE DEF bytes, whole
<1>4. /\ \A x \in Pieces : <<x>> \in Seq(Pieces) /\ DOMAIN <<x>> = {1} /\ <<x>>[1] = x
      /\ \A x, y \in Pieces : /\ <<x, y>> \in Seq(Pieces) /\ DOMAIN <<x, y>> = {1, 2}
                              /\ <<x, y>>[1] = x /\ <<x, y>>[2] = y
  OBVIOUS
<1> QED
  BY <1>1, <1>2, <1>3, <1>4

(* Bytes after an exchange of which only one piece may be of a response.   *)
LEMMA BehindTheWire ==
  ASSUME NEW s \in Seq(Pieces), NEW t \in Seq(Pieces), NEW u \in Seq(Pieces),
         Quiet(s), Quiet(u),
         \A i \in DOMAIN t : t[i].piece \in {"tail", "eof"} \/ (i = 1 /\ t[i].own)
  PROVE  \A i \in DOMAIN (s \o t \o u) :
           \/ (s \o t \o u)[i].piece \in {"tail", "eof"}
           \/ i = Len(s) + 1 /\ (s \o t \o u)[i].own
<1>1. /\ Len(s) \in Nat /\ DOMAIN s = 1..Len(s)
      /\ Len(t) \in Nat /\ DOMAIN t = 1..Len(t)
      /\ Len(u) \in Nat /\ DOMAIN u = 1..Len(u)
  BY LenProperties
<1> DEFINE v == s \o t
<1>2. /\ v \in Seq(Pieces) /\ Len(v) = Len(s) + Len(t)
      /\ \A i \in 1..Len(v) : v[i] = IF i <= Len(s) THEN s[i] ELSE t[i - Len(s)]
  BY ConcatProperties
<1>3. \A i \in 1..Len(v) : v[i].piece \in {"tail", "eof"} \/ (i = Len(s) + 1 /\ v[i].own)
  <2> SUFFICES ASSUME NEW i \in 1..Len(v)
               PROVE  v[i].piece \in {"tail", "eof"} \/ (i = Len(s) + 1 /\ v[i].own)
    OBVIOUS
  <2>1. CASE i <= Len(s)
    BY <1>1, <1>2, <2>1 DEF Quiet
  <2>2. CASE i > Len(s)
    <3>1. i - Len(s) \in DOMAIN t /\ v[i] = t[i - Len(s)]
      BY <1>1, <1>2, <2>2
    <3> QED
      BY <1>1, <3>1, SMTT(20)
  <2> QED
    BY <1>1, <1>2, <2>1, <2>2
<1> HIDE DEF v
<1> DEFINE w == v \o u
<1>4. /\ w \in Seq(Pieces) /\ Len(w) = Len(v) + Len(u)
      /\ \A i \in 1..Len(w) : w[i] = IF i <= Len(v) THEN v[i] ELSE u[i - Len(v)]
  BY <1>2, ConcatProperties
<1>5. DOMAIN w = 1..Len(w)
  BY <1>4, LenProperties
<1>6. \A i \in 1..Len(w) : w[i].piece \in {"tail", "eof"} \/ (i = Len(s) + 1 /\ w[i].own)
  <2> SUFFICES ASSUME NEW i \in 1..Len(w)
               PROVE  w[i].piece \in {"tail", "eof"} \/ (i = Len(s) + 1 /\ w[i].own)
    OBVIOUS
  <2>1. Len(v) \in Nat
    BY <1>2, LenProperties
  <2>2. CASE i <= Len(v)
    BY <1>3, <1>4, <2>1, <2>2
  <2>3. CASE i > Len(v)
    <3>1. i - Len(v) \in DOMAIN u /\ w[i] = u[i - Len(v)]
      BY <1>1, <1>4, <2>1, <2>3
    <3> QED
      BY <3>1 DEF Quiet
  <2> QED
    BY <1>4, <2>1, <2>2, <2>3
<1> QED
  BY <1>5, <1>6 DEF v

(* What a connection is to does not change.                                *)
SameEnd(c, d) == d.host = c.host /\ d.port = c.port /\ d.tls = c.tls

(* A connection that owes nothing is sent a request.                       *)
LEMMA SentOn ==
  ASSUME NEW c \in Connections, NEW m \in Methods \union {"GET"},
         c.owed = <<>>, Quiet(c.wire)
  PROVE  LET d == [c EXCEPT !.wire = Earlier(@),
                            !.owed = Append(Earlier(@), [own |-> TRUE, method |-> m])]
         IN  d \in Connections /\ SameEnd(c, d) /\ OwnExchange(d)
<1> DEFINE q == [own |-> TRUE, method |-> m]
           Owed == [own : BOOLEAN, method : Methods \union {"GET"}]
           d == [c EXCEPT !.wire = Earlier(@), !.owed = Append(Earlier(@), q)]
<1>1. c.wire \in Seq(Pieces)
  BY DEF Connections
<1>2. Earlier(c.owed) = <<>>
  <2>1. 1..0 = {} /\ Len(c.owed) = 0
    BY EmptySeq
  <2> QED
    BY <2>1 DEF Earlier
<1>3. Append(Earlier(c.owed), q) = <<q>> /\ q \in Owed
  <2>1. Append(<<>>, q) = <<q>>
    OBVIOUS
  <2> QED
    BY <1>2, <2>1
<1>4. <<q>> \in Seq(Owed) /\ Len(<<q>>) = 1 /\ <<q>>[1].own
  BY <1>3
<1>5. Earlier(c.wire) \in Seq(Pieces) /\ Quiet(Earlier(c.wire))
  BY <1>1, EarlierPieces DEF Quiet
<1>6. d.wire = Earlier(c.wire) /\ d.owed = <<q>> /\ SameEnd(c, d)
  BY <1>3 DEF Connections, SameEnd
<1>7. d \in Connections
  BY <1>3, <1>4, <1>5 DEF Connections
<1> QED
  BY <1>4, <1>5, <1>6, <1>7 DEF OwnExchange, Quiet

(* Pieces are received: what is left is as it was.                         *)
LEMMA TakenFrom ==
  ASSUME NEW c \in Connections, NEW n \in Nat, n <= Len(c.wire)
  PROVE  LET d == [c EXCEPT !.wire = SubSeq(@, n + 1, Len(@))]
         IN  /\ d \in Connections /\ SameEnd(c, d) /\ d.owed = c.owed
             /\ Quiet(c.wire) => Quiet(d.wire)
             /\ OwnExchange(c) => OwnExchange(d)
             /\ (OwnExchange(c) /\ n > 0 /\ c.wire[1].piece \in {"whole", "part"}) => Quiet(d.wire)
<1> DEFINE rest == SubSeq(c.wire, n + 1, Len(c.wire))
           d == [c EXCEPT !.wire = rest]
<1>1. c.wire \in Seq(Pieces)
  BY DEF Connections
<1>2. /\ rest \in Seq(Pieces) /\ DOMAIN rest = 1..(Len(c.wire) - n)
      /\ \A i \in 1..(Len(c.wire) - n) : i + n \in DOMAIN c.wire /\ rest[i] = c.wire[i + n]
  BY <1>1, TakenPieces
<1>3. Len(c.wire) \in Nat /\ DOMAIN c.wire = 1..Len(c.wire)
  BY <1>1, LenProperties
<1> HIDE DEF rest
<1>4. d \in Connections /\ SameEnd(c, d) /\ d.owed = c.owed /\ d.wire = rest
  BY <1>2 DEF Connections, SameEnd
<1> HIDE DEF d
<1>5. Quiet(c.wire) => Quiet(rest)
  BY <1>2 DEF Quiet
<1>6. ASSUME OwnExchange(c), NEW i \in DOMAIN rest
      PROVE  \/ rest[i].piece \in {"tail", "eof"}
             \/ /\ rest[i].own
                /\ \A j \in DOMAIN c.wire : j # i + n => c.wire[j].piece \in {"tail", "eof"}
  BY <1>2, <1>6 DEF OwnExchange
<1>7. ASSUME OwnExchange(c) PROVE OwnExchange(d)
  <2>1. \A i, j \in DOMAIN rest : j # i => j + n # i + n
    BY <1>2
  <2>2. \A i \in DOMAIN rest :
          \/ rest[i].piece \in {"tail", "eof"}
          \/ rest[i].own /\ \A j \in DOMAIN rest : j # i => rest[j].piece \in {"tail", "eof"}
    BY <1>2, <1>6, <1>7, <2>1
  <2> QED
    BY <1>4, <1>5, <1>7, <2>2 DEF OwnExchange
<1>8. ASSUME OwnExchange(c), n > 0, c.wire[1].piece \in {"whole", "part"}
      PROVE  Quiet(rest)
  <2>1. 1 \in DOMAIN c.wire /\ \A j \in DOMAIN rest : j + n # 1
    BY <1>2, <1>3, <1>8
  <2> QED
    BY <1>2, <1>8, <2>1 DEF OwnExchange, Quiet
<1> QED
  BY <1>4, <1>5, <1>7, <1>8 DEF d, rest

(* The server answers the one request it owes an answer.                   *)
LEMMA AnsweredOn ==
  ASSUME NEW c \in Connections, NEW r \in Answers, c.owed # <<>>
  PROVE  LET d == [c EXCEPT !.owed = Tail(@),
                            !.wire = @ \o PiecesOf(r, Head(c.owed))
                                       \o (IF r.close THEN <<Eof>> ELSE <<>>),
                            !.announced = r.close,
                            !.open = ~r.close]
         IN  d \in Connections /\ SameEnd(c, d) /\ (OwnExchange(c) => OwnExchange(d))
<1> DEFINE Owed == [own : BOOLEAN, method : Methods \union {"GET"}]
           q == Head(c.owed)
           end == IF r.close THEN <<Eof>> ELSE <<>>
           wire == c.wire \o PiecesOf(r, q) \o end
           d == [c EXCEPT !.owed = Tail(@), !.wire = wire,
                          !.announced = r.close, !.open = ~r.close]
<1>1. c.wire \in Seq(Pieces) /\ c.owed \in Seq(Owed) /\ r.close \in BOOLEAN
  BY DEF Connections, Answers
<1> HIDE DEF Owed
<1>2. /\ q \in Owed /\ q = c.owed[1] /\ Tail(c.owed) \in Seq(Owed)
      /\ Len(c.owed) = 1 => Tail(c.owed) = <<>>
  <2>1. Len(c.owed) \in Nat \ {0} /\ 1 \in 1..Len(c.owed)
    BY <1>1, EmptySeq, LenProperties
  <2>2. /\ q = c.owed[1] /\ Tail(c.owed) \in Seq(Owed)
        /\ Len(Tail(c.owed)) = Len(c.owed) - 1
    BY <1>1, HeadTailProperties
  <2> QED
    BY <1>1, <2>1, <2>2, ElementOfSeq, EmptySeq
<1> USE DEF Owed
<1>3. /\ PiecesOf(r, q) \in Seq(Pieces)
      /\ \A i \in DOMAIN PiecesOf(r, q) :
           \/ PiecesOf(r, q)[i].piece \in {"tail", "eof"}
           \/ i = 1 /\ PiecesOf(r, q)[i].own = q.own
  BY <1>2, AnswerPieces
<1>4. end \in Seq(Pieces) /\ Quiet(end)
  <2>1. <<Eof>> \in Seq(Pieces) /\ DOMAIN <<Eof>> = {1} /\ <<Eof>>[1] = Eof
    BY EofPiece
  <2>2. <<>> \in Seq(Pieces) /\ DOMAIN <<>> = {}
    OBVIOUS
  <2> QED
    BY <2>1, <2>2, EofPiece DEF Quiet
<1> HIDE DEF q, end
<1>5. wire \in Seq(Pieces)
  BY <1>1, <1>3, <1>4, ConcatProperties
<1>6. ASSUME OwnExchange(c)
      PROVE  /\ Tail(c.owed) = <<>>
             /\ \A i \in DOMAIN wire :
                  wire[i].piece \in {"tail", "eof"} \/ (i = Len(c.wire) + 1 /\ wire[i].own)
  <2>1. Len(c.owed) = 1 /\ q.own /\ Quiet(c.wire)
    BY <1>2, <1>6 DEF OwnExchange
  <2>2. Tail(c.owed) = <<>>
    BY <1>2, <2>1
  <2> QED
    BY <1>1, <1>3, <1>4, <2>1, <2>2, BehindTheWire
<1> HIDE DEF wire
<1>7. /\ d.wire = wire /\ d.owed = Tail(c.owed) /\ SameEnd(c, d) /\ d \in Connections
  BY <1>1, <1>2, <1>5 DEF Connections, SameEnd
<1> HIDE DEF d
<1>8. OwnExchange(c) => OwnExchange(d)
  BY <1>6, <1>7 DEF OwnExchange
<1> QED
  BY <1>7, <1>8 DEF d, wire, end, q

(* The server closes the connection.                                       *)
LEMMA ClosedOn ==
  ASSUME NEW c \in Connections
  PROVE  LET d == [c EXCEPT !.open = FALSE, !.wire = Append(@, Eof)]
         IN  /\ d \in Connections /\ SameEnd(c, d) /\ d.owed = c.owed
             /\ Quiet(c.wire) => Quiet(d.wire)
             /\ OwnExchange(c) => OwnExchange(d)
<1> DEFINE wire == Append(c.wire, Eof)
           d == [c EXCEPT !.open = FALSE, !.wire = wire]
<1>1. c.wire \in Seq(Pieces)
  BY DEF Connections
<1>2. /\ wire \in Seq(Pieces) /\ DOMAIN wire = 1..(Len(c.wire) + 1)
      /\ wire[Len(c.wire) + 1].piece = "eof"
      /\ \A i \in 1..Len(c.wire) : wire[i] = c.wire[i]
      /\ Len(c.wire) \in Nat /\ DOMAIN c.wire = 1..Len(c.wire)
  BY <1>1, AppendedPiece, EofPiece
<1> HIDE DEF wire
<1>3. d \in Connections /\ SameEnd(c, d) /\ d.owed = c.owed /\ d.wire = wire
  BY <1>2 DEF Connections, SameEnd
<1>4. \A i \in DOMAIN wire :
        wire[i].piece \in {"tail", "eof"} \/ (i \in DOMAIN c.wire /\ wire[i] = c.wire[i])
  BY <1>2
<1>5. \A i \in DOMAIN wire : wire[i].piece \in {"tail", "eof"}
        \/ (c.wire[i].piece \notin {"tail", "eof"} /\ i \in DOMAIN c.wire /\ wire[i] = c.wire[i])
  BY <1>4
<1> HIDE DEF d
<1> QED
  BY <1>3, <1>4, <1>5 DEF OwnExchange, Quiet, d, wire

(* A connection becomes idle, or is active again.                          *)
LEMMA TimePassesOn ==
  ASSUME NEW c \in Connections, NEW b \in BOOLEAN
  PROVE  LET d == [c EXCEPT !.idle = b]
         IN  /\ d \in Connections /\ SameEnd(c, d) /\ d.owed = c.owed /\ d.wire = c.wire
             /\ OwnExchange(c) => OwnExchange(d)
<1> DEFINE d == [c EXCEPT !.idle = b]
<1>1. d \in Connections /\ SameEnd(c, d) /\ d.owed = c.owed /\ d.wire = c.wire
  BY DEF Connections, SameEnd
<1> QED
  BY <1>1 DEF OwnExchange

-----------------------------------------------------------------------------
\* The pool.

(* One entry of the pool is replaced by one to the same end, or removed.   *)
LEMMA PoolUpdated ==
  ASSUME TypeOK, EntryInv, NEW k \in Origins, NEW d \in Connections \union {None},
         d # None => Fits(d, k),
         pool' = [pool EXCEPT ![k] = d]
  PROVE  pool' \in [Origins -> Connections \union {None}] /\ EntryInv'
BY DEF TypeOK, EntryInv

(* The entry a request uses is one of the pool, to its origin.             *)
LEMMA UsingEntry ==
  ASSUME ClientInv, phase \in {"send", "receive", "respond"}
  PROVE  /\ using \in Origins /\ using = req.origin /\ req \in Requests
         /\ pool[using] \in Connections /\ Entry = pool[using]
         /\ Fits(pool[using], using)
BY DEF ClientInv, TypeOK, PlaceInv, EntryInv, Entry

(* Idle entries are removed.                                               *)
LEMMA CleanedPool ==
  ASSUME TypeOK, EntryInv
  PROVE  /\ Cleaned \in [Origins -> Connections \union {None}]
         /\ \A k \in Origins : Cleaned[k] # None => Cleaned[k] = pool[k] /\ Fits(pool[k], k)
BY DEF TypeOK, EntryInv, Cleaned

(* Steps that change one entry of the pool keep it a connection to the     *)
(* same end, and what is owed and carried on it proper.                    *)
EntryChanges ==
  \E k \in Origins, d \in Connections :
    /\ pool[k] # None
    /\ SameEnd(pool[k], d)
    /\ Proper(d, k)'
    /\ (k = using /\ using' \in {using, None}) \/ UNCHANGED <<phase, using>>
    /\ pool' = [pool EXCEPT ![k] = d]

(* send_request(): the entry owes one more answer. *)
LEMMA SendChanges == ClientInv /\ SendRequest => EntryChanges
<1> SUFFICES ASSUME ClientInv, SendRequest
             PROVE  EntryChanges
  OBVIOUS
<1> DEFINE c == pool[using]
           d == [c EXCEPT !.wire = Earlier(@),
                          !.owed = Append(Earlier(@), [own |-> TRUE, method |-> req.method])]
<1>1. phase = "send" /\ req.method \in Methods \union {"GET"}
      /\ c \in Connections /\ c # None /\ c.owed = <<>> /\ Quiet(c.wire)
  BY UsingEntry, NoneAssumption
  DEF SendRequest, ClientInv, ExchangeInv, Proper, Requests, TypeOK, NoneAssumption
<1>2. d \in Connections /\ SameEnd(c, d) /\ OwnExchange(d)
  BY <1>1, SentOn
<1>3. pool' = [pool EXCEPT ![using] = d]
  BY DEF SendRequest, Entry
<1> HIDE DEF d
<1>4. using' = using /\ phase' = "receive"
  BY DEF SendRequest
<1> QED
  BY <1>1, <1>2, <1>3, <1>4, UsingEntry DEF EntryChanges, Proper

(* receive_response(): less is left on the wire of the entry. *)
LEMMA ReceiveChanges == ClientInv /\ (ReceiveWhole \/ ReceivePart) => EntryChanges
<1> SUFFICES ASSUME ClientInv, ReceiveWhole \/ ReceivePart
             PROVE  EntryChanges
  OBVIOUS
<1> DEFINE c == pool[using]
<1>1. /\ phase = "receive" /\ using' = using /\ c \in Connections /\ c # None
      /\ OwnExchange(c)
  BY UsingEntry, NoneAssumption
  DEF ReceiveWhole, ReceivePart, ClientInv, ExchangeInv, Proper, NoneAssumption
<1>2. Len(c.wire) \in Nat \ {0} /\ 1 \in DOMAIN c.wire /\ c.wire[1] = Head(c.wire)
  BY <1>1, UsingEntry, LenProperties, EmptySeq, HeadTailProperties
  DEF ReceiveWhole, ReceivePart, Connections, Entry
<1>3. PICK n \in {1, 2} : n <= Len(c.wire) /\ Take(n) /\ (phase' = "respond" \/ phase' = "receive")
  BY <1>1, <1>2, UsingEntry DEF ReceiveWhole, ReceivePart
<1> DEFINE d == [c EXCEPT !.wire = SubSeq(@, n + 1, Len(@))]
<1>4. pool' = [pool EXCEPT ![using] = d]
  BY <1>3 DEF Take
<1>5. c.wire[1].piece \in {"whole", "part"}
  BY <1>1, <1>2, UsingEntry DEF ReceiveWhole, ReceivePart
<1>6. n \in Nat /\ n > 0
  OBVIOUS
<1>7. d \in Connections /\ SameEnd(c, d) /\ d.owed = c.owed
      /\ OwnExchange(d) /\ Quiet(d.wire)
  BY <1>1, <1>3, <1>5, <1>6, TakenFrom
<1>8. c.owed = <<>>
  BY <1>1, <1>2, <1>5 DEF OwnExchange, Quiet
<1> HIDE DEF d
<1> QED
  BY <1>1, <1>3, <1>4, <1>7, <1>8, UsingEntry DEF EntryChanges, Proper

(* Servers put more on the wire of an entry, and time passes for it. *)
LEMMA ServerChanges ==
  ASSUME ClientInv, NEW k \in Origins, ServerStep(k) \/ BecomesIdle(k)
  PROVE  EntryChanges
<1> DEFINE c == pool[k]
<1>1. c \in Connections /\ c # None /\ Proper(c, k) /\ using' = using /\ phase' = phase
  BY DEF ServerStep, Answer, ServerCloses, BecomesIdle, ClientInv, TypeOK, ExchangeInv, inner
<1>2. CASE Answer(k)
  <2>1. PICK r \in Answers :
          pool' = [pool EXCEPT ![k] =
            [pool[k] EXCEPT !.owed = Tail(@),
                            !.wire = @ \o PiecesOf(r, Head(pool[k].owed))
                                       \o (IF r.close THEN <<Eof>> ELSE <<>>),
                            !.announced = r.close,
                            !.open = ~r.close]]
    BY <1>2 DEF Answer
  <2>2. c.owed # <<>> /\ OwnExchange(c) /\ phase = "receive" /\ k = using
    BY <1>1, <1>2 DEF Answer, Proper
  <2> DEFINE d == [c EXCEPT !.owed = Tail(@),
                            !.wire = @ \o PiecesOf(r, Head(c.owed))
                                       \o (IF r.close THEN <<Eof>> ELSE <<>>),
                            !.announced = r.close,
                            !.open = ~r.close]
  <2>3. d \in Connections /\ SameEnd(c, d) /\ OwnExchange(d)
    BY <1>1, <2>2, AnsweredOn
  <2>4. pool' = [pool EXCEPT ![k] = d]
    BY <2>1
  <2> HIDE DEF d
  <2> QED
    BY <1>1, <2>2, <2>3, <2>4 DEF EntryChanges, Proper
<1>3. CASE ServerCloses(k)
  <2> DEFINE d == [c EXCEPT !.open = FALSE, !.wire = Append(@, Eof)]
  <2>1. /\ d \in Connections /\ SameEnd(c, d) /\ d.owed = c.owed
        /\ Quiet(c.wire) => Quiet(d.wire)
        /\ OwnExchange(c) => OwnExchange(d)
    BY <1>1, ClosedOn
  <2>2. pool' = [pool EXCEPT ![k] = d]
    BY <1>3 DEF ServerCloses
  <2> HIDE DEF d
  <2> QED
    BY <1>1, <2>1, <2>2 DEF EntryChanges, Proper
<1>4. CASE BecomesIdle(k)
  <2> DEFINE d == [c EXCEPT !.idle = TRUE]
  <2>1. /\ d \in Connections /\ SameEnd(c, d) /\ d.owed = c.owed /\ d.wire = c.wire
        /\ OwnExchange(c) => OwnExchange(d)
    BY <1>1, TimePassesOn
  <2>2. pool' = [pool EXCEPT ![k] = d]
    BY <1>4 DEF BecomesIdle
  <2> HIDE DEF d
  <2> QED
    BY <1>1, <2>1, <2>2 DEF EntryChanges, Proper
<1> QED
  BY <1>2, <1>3, <1>4 DEF ServerStep

(* A response leaves its connection in the pool, as active. *)
LEMMA ResponseChanges ==
  ASSUME ClientInv, phase = "respond", pool' = Active, phase' # "receive", using' = None
  PROVE  EntryChanges
<1> DEFINE c == pool[using]
           d == [c EXCEPT !.idle = FALSE]
<1>1. c \in Connections /\ c # None /\ c.owed = <<>> /\ Quiet(c.wire)
  BY UsingEntry, NoneAssumption DEF ClientInv, ExchangeInv, Proper, NoneAssumption
<1>2. d \in Connections /\ SameEnd(c, d) /\ d.owed = c.owed /\ d.wire = c.wire
  BY <1>1, TimePassesOn
<1>3. pool' = [pool EXCEPT ![using] = d]
  BY DEF Active
<1> HIDE DEF d
<1> QED
  BY <1>1, <1>2, <1>3, UsingEntry DEF EntryChanges, Proper

(* The parts of the invariant that are about the pool.                     *)
PoolInv ==
  /\ pool \in [Origins -> Connections \union {None}]
  /\ EntryInv
  /\ \A k \in Origins : pool[k] # None => Proper(pool[k], k)
  /\ using \in Origins => pool[using] # None

(* Such a step keeps the pool proper, with the same entries in it. *)
LEMMA EntryChanged ==
  ASSUME ClientInv, EntryChanges
  PROVE  PoolInv' /\ \A k \in Origins : (pool[k] = None) = (pool'[k] = None)
<1>1. PICK k \in Origins, d \in Connections :
        /\ pool[k] # None
        /\ SameEnd(pool[k], d)
        /\ Proper(d, k)'
        /\ (k = using /\ using' \in {using, None}) \/ UNCHANGED <<phase, using>>
        /\ pool' = [pool EXCEPT ![k] = d]
  BY DEF EntryChanges
<1>2. d # None
  BY NoneAssumption DEF NoneAssumption
<1>3. pool' \in [Origins -> Connections \union {None}] /\ EntryInv'
  BY <1>1, PoolUpdated DEF ClientInv, EntryInv, Fits, SameEnd
<1>4. ASSUME NEW j \in Origins, pool'[j] # None
      PROVE  Proper(pool[j], j)'
  <2>1. CASE j = k
    BY <1>1, <1>3, <2>1 DEF Proper, ClientInv, TypeOK
  <2>2. CASE j # k
    <3>1. pool'[j] = pool[j] /\ Proper(pool[j], j)
      BY <1>1, <1>4, <2>2 DEF ClientInv, ExchangeInv, TypeOK
    <3>2. None \notin Origins
      BY ClientAssumption DEF ClientAssumption
    <3> QED
      BY <1>1, <2>2, <3>1, <3>2 DEF Proper
  <2> QED
    BY <2>1, <2>2
<1>5. \A j \in Origins : (pool[j] = None) = (pool'[j] = None)
  BY <1>1, <1>2 DEF ClientInv, TypeOK
<1>6. using' \in Origins => pool'[using'] # None
  BY <1>1, <1>5, ClientAssumption DEF ClientAssumption, ClientInv, TypeOK
<1> QED
  BY <1>3, <1>4, <1>5, <1>6 DEF PoolInv

(* A step that leaves the pool as it is, or removes entries of it, while   *)
(* no answer is waited for, or ends the wait by removing the entry.        *)
LEMMA EntriesStay ==
  ASSUME ClientInv, pool' \in [Origins -> Connections \union {None}],
         \A k \in Origins : pool'[k] \in {pool[k], None},
         phase # "receive" \/ pool'[using] = None, phase' # "receive",
         using' \in Origins => pool'[using'] # None
  PROVE  PoolInv'
<1>1. EntryInv'
  BY DEF ClientInv, EntryInv
<1>2. ASSUME NEW k \in Origins, pool'[k] # None
      PROVE  Proper(pool[k], k)'
  BY <1>2 DEF ClientInv, ExchangeInv, Proper
<1> QED
  BY <1>1, <1>2 DEF PoolInv

(* A new connection enters the pool.                                       *)
LEMMA Emplaced ==
  ASSUME ClientInv, phase \in {"connect", "handshake"}, NEW c \in Connections,
         Fits(c, req.origin), c.owed = <<>>, Quiet(c.wire), Emplace(c)
  PROVE  PoolInv'
<1>1. req.origin \in Origins /\ pool[req.origin] = None
  BY DEF ClientInv, TypeOK, PlaceInv, Requests
<1>2. pool' = [pool EXCEPT ![req.origin] = c] /\ phase' = "send" /\ using' = req.origin
  BY <1>1 DEF Emplace, PoolKey
<1>3. pool' \in [Origins -> Connections \union {None}] /\ EntryInv'
  BY <1>1, <1>2, PoolUpdated DEF ClientInv
<1>4. ASSUME NEW k \in Origins, pool'[k] # None
      PROVE  Proper(pool[k], k)'
  BY <1>1, <1>2, <1>4 DEF ClientInv, TypeOK, ExchangeInv, Proper
<1> QED
  BY <1>1, <1>2, <1>3, <1>4, NoneAssumption DEF PoolInv, ClientInv, TypeOK, NoneAssumption

(* Every step keeps the pool as it should be.                              *)
LEMMA PoolStep ==
  ASSUME ClientInv, [Next]_vars
  PROVE  PoolInv'
<1>p. /\ pool \in [Origins -> Connections \union {None}]
      /\ \A k \in Origins : pool'[k] = pool[k] => pool'[k] \in {pool[k], None}
  BY DEF ClientInv, TypeOK
<1>u. /\ None \notin Origins
      /\ phase \notin {"send", "receive", "respond"} => using = None
  BY ClientAssumption DEF ClientAssumption, ClientInv, TypeOK
<1>1. CASE UNCHANGED vars
  BY <1>1, <1>u DEF vars, inner, ClientInv, PoolInv, TypeOK, EntryInv, ExchangeInv, Proper
<1>2. CASE ReuseConnection \/ OpenConnection
  <2>1. phase # "receive" /\ phase' # "receive"
    BY <1>2 DEF ReuseConnection, OpenConnection
  <2>2. pool' \in [Origins -> Connections \union {None}]
        /\ \A k \in Origins : pool'[k] \in {pool[k], None}
    BY <1>2, <1>p DEF ReuseConnection, OpenConnection, Cleaned
  <2>3. using' \in Origins => pool'[using'] # None
    BY <1>2, ClientAssumption DEF ReuseConnection, OpenConnection, Usable, ClientAssumption,
       ClientInv, TypeOK
  <2> QED
    BY <2>1, <2>2, <2>3, EntriesStay
<1>3. CASE Connected
  <2>1. phase = "connect" /\ req.origin \in Origins
    BY <1>3 DEF Connected, ClientInv, TypeOK, Requests
  <2>2. CASE req.origin.scheme = "https"
    <3>1. pool' = pool /\ phase' = "handshake" /\ using' = None
      BY <1>3, <1>u, <2>1, <2>2 DEF Connected
    <3> QED
      BY <1>p, <1>u, <2>1, <3>1, EntriesStay
  <2>3. CASE req.origin.scheme # "https"
    BY <1>3, <2>1, <2>3, NewConnectionType, Emplaced DEF Connected, Fits
  <2> QED
    BY <2>2, <2>3
<1>4. CASE HandshakeDone
  <2> DEFINE c == NewConnection(req.origin)
             d == [c EXCEPT !.tls = TRUE]
  <2>1. /\ phase = "handshake" /\ conn = c
        /\ req.origin \in Origins /\ req.origin.scheme = "https"
    BY <1>4 DEF HandshakeDone, ClientInv, TypeOK, PlaceInv, Requests
  <2>2. d \in Connections /\ Fits(d, req.origin) /\ d.owed = <<>> /\ Quiet(d.wire)
    <3>1. d.host = c.host /\ d.port = c.port /\ d.tls /\ d.owed = c.owed /\ d.wire = c.wire
      BY DEF NewConnection
    <3> HIDE DEF d, c
    <3> QED
      BY <2>1, <3>1, NewConnectionType DEF Fits, d, c
  <2>3. Emplace(d)
    BY <1>4, <2>1 DEF HandshakeDone
  <2> HIDE DEF d
  <2> QED
    BY <2>1, <2>2, <2>3, Emplaced
<1>5. CASE SendRequest \/ ReceiveWhole \/ ReceivePart
  BY <1>5, SendChanges, ReceiveChanges, EntryChanged
<1>6. CASE SendFails \/ ReceiveTail \/ ReceiveEof
  <2>1. PICK r \in {"response", "failed", "excused"} : Fail(r)
    BY <1>6 DEF SendFails, ReceiveTail, ReceiveEof, Verdict
  <2>2. phase' # "receive" /\ phase \in {"send", "receive"}
    BY <1>6, <2>1 DEF Fail, Finish, SendFails, ReceiveTail, ReceiveEof
  <2>3. pool' = [pool EXCEPT ![using] = None]
    BY <2>1 DEF Fail
  <2> QED
    <3>1. using' = None
      BY <2>1 DEF Fail, Finish
    <3>2. \A k \in Origins : pool'[k] \in {pool[k], None}
      BY <1>p, <2>3
    <3>3. pool'[using] = None /\ pool' \in [Origins -> Connections \union {None}]
      BY <1>p, <2>2, <2>3, UsingEntry
    <3> QED
      BY <1>u, <2>2, <3>1, <3>2, <3>3, EntriesStay
<1>7. CASE Redirect \/ RedirectIsReturned \/ Respond
  <2>1. phase = "respond" /\ phase' # "receive" /\ using' = None
    BY <1>7 DEF Redirect, RedirectIsReturned, Respond, Finish
  <2>2. CASE pool' = Active
    BY <2>1, <2>2, ResponseChanges, EntryChanged
  <2>3. CASE pool' = [pool EXCEPT ![using] = None]
    <3>1. /\ \A k \in Origins : pool'[k] \in {pool[k], None}
          /\ pool' \in [Origins -> Connections \union {None}]
      BY <1>p, <2>3
    <3> QED
      BY <1>u, <2>1, <3>1, EntriesStay
  <2> QED
    BY <1>7, <2>2, <2>3 DEF Redirect, RedirectIsReturned, Respond
<1>8. CASE \E k \in Origins : ServerStep(k) \/ BecomesIdle(k)
  BY <1>8, ServerChanges, EntryChanged
<1>9. CASE ConnectFails \/ CallbackReturns \/ BadTarget \/ Follow \/ UserStep
  <2>1. pool' = pool /\ phase \notin {"send", "receive", "respond"} /\ phase' # "receive"
    BY <1>9 DEF ConnectFails, CallbackReturns, BadTarget, Follow, UserStep, Execute,
                CallbackExecutes, Finish
  <2>2. using' = None
    BY <1>9, <1>u, <2>1 DEF inner, ConnectFails, CallbackReturns, BadTarget, Follow, UserStep,
                            Execute, CallbackExecutes, Finish
  <2> QED
    BY <1>p, <1>u, <2>1, <2>2, EntriesStay
<1> QED
  BY <1>1, <1>2, <1>3, <1>4, <1>5, <1>6, <1>7, <1>8, <1>9
  DEF Next, ClientStep, ExchangeStep

-----------------------------------------------------------------------------
\* Where do_execute() is, and with which request.

(* A step that only changes the pool, and not where the request looks.     *)
LEMMA OnlyThePool ==
  ASSUME ClientInv, pool' \in [Origins -> Connections \union {None}],
         UNCHANGED <<req, phase, suspended, outcome, inner>>,
         \A k \in Origins : (pool[k] = None) = (pool'[k] = None)
  PROVE  TypeOK' /\ PlaceInv' /\ RequestInv' /\ OwnAnswer'
<1>1. TypeOK'
  BY DEF ClientInv, TypeOK, inner
<1>2. PlaceInv'
  BY DEF ClientInv, TypeOK, PlaceInv, inner, Requests
<1>3. RequestInv' /\ OwnAnswer'
  BY DEF ClientInv, RequestInv, ExchangeInv, OwnAnswer, inner
<1> QED
  BY <1>1, <1>2, <1>3

(* A new request has its budget, and credentials for its first host.       *)
LEMMA NewRequestFits ==
  ASSUME NEW o \in Origins, NEW m \in Methods, NEW a \in BOOLEAN
  PROVE  NewRequest(o, m, a) \in Requests /\ RequestFits(NewRequest(o, m, a))
BY ClientAssumption DEF ClientAssumption, NewRequest, Requests, RequestFits

(* The redirected request has spent one of its budget, and has no          *)
(* credentials for another host than those were made for.                  *)
LEMMA RedirectedFits ==
  ASSUME ClientInv, phase = "follow", target # Bad,
         NEW m \in {req.method, "GET"}
  PROVE  Redirected(m) \in Requests /\ RequestFits(Redirected(m))
<1>1. req \in Requests /\ RequestFits(req) /\ req.budget > 0 /\ target \in Origins
  BY DEF ClientInv, TypeOK, PlaceInv, RequestInv
<1>2. req.budget - 1 \in 0..MaxRedirects /\ OneMore(req.hops) = req.hops + 1
  BY <1>1, ClientAssumption DEF ClientAssumption, Requests, RequestFits, OneMore
<1> DEFINE r == Redirected(m)
           auth == req.auth /\ target.host = req.origin.host
<1>3. /\ r = [origin |-> target, method |-> m, auth |-> auth, home |-> req.home,
             budget |-> req.budget - 1, hops |-> req.hops + 1]
      /\ auth \in BOOLEAN
  <2>1. auth \in BOOLEAN
    BY <1>1 DEF Requests
  <2>2. r = [req EXCEPT !.origin = target, !.method = m, !.budget = @ - 1,
                        !.hops = req.hops + 1, !.auth = auth]
    BY <1>2 DEF Redirected
  <2> HIDE DEF r, auth
  <2>3. r = [origin |-> target, method |-> m, auth |-> auth, home |-> req.home,
             budget |-> req.budget - 1, hops |-> req.hops + 1]
    BY <1>1, <2>2 DEF Requests
  <2> QED
    BY <2>1, <2>3
<1>4. m \in Methods \union {"GET"} /\ req.hops + 1 \in Nat
  BY <1>1 DEF Requests
<1> HIDE DEF r
<1>5. r \in Requests
  BY <1>1, <1>2, <1>3, <1>4 DEF Requests
<1>6. r.hops + r.budget = MaxRedirects
  BY <1>1, <1>3 DEF Requests, RequestFits
<1>7. r.auth => r.origin.host = r.home
  BY <1>1, <1>3 DEF RequestFits
<1> QED
  BY <1>5, <1>6, <1>7 DEF RequestFits, r

(* A connection is made, or taken from the pool.                           *)
LEMMA ConnectStep ==
  ASSUME ClientInv, PoolInv',
         ReuseConnection \/ OpenConnection \/ Connected \/ HandshakeDone
  PROVE  TypeOK' /\ PlaceInv' /\ RequestInv' /\ OwnAnswer'
<1> USE DEF ClientInv, PoolInv, PoolKey
<1>0. /\ req \in Requests /\ req.origin \in Origins /\ answer = None /\ target = None
      /\ None \notin Origins
  BY ClientAssumption DEF ClientAssumption, ReuseConnection, OpenConnection, Connected,
     HandshakeDone, TypeOK, PlaceInv, Requests
<1>1. RequestInv' /\ OwnAnswer'
  BY <1>0 DEF ReuseConnection, OpenConnection, Connected, HandshakeDone, Emplace, RequestInv,
     OwnAnswer
<1>2. CASE ReuseConnection
  BY <1>0, <1>1, <1>2 DEF ReuseConnection, Usable, TypeOK, PlaceInv
<1>3. CASE OpenConnection
  <2>1. pool'[req.origin] = None
    BY <1>0, <1>3 DEF OpenConnection, Cleaned
  <2> QED
    BY <1>0, <1>1, <1>3, <2>1 DEF OpenConnection, TypeOK, PlaceInv
<1>4. CASE Connected /\ req.origin.scheme = "https"
  <2>1. /\ phase = "connect" /\ phase' = "handshake" /\ conn' = NewConnection(req.origin)
        /\ pool' = pool /\ using' = using
        /\ UNCHANGED <<req, parser, answer, target, suspended, outcome>>
    BY <1>4 DEF Connected
  <2>2. conn' \in Connections
    BY <1>0, <2>1, NewConnectionType
  <2>3. TypeOK'
    BY <1>0, <2>1, <2>2 DEF TypeOK
  <2>4. PlaceInv'
    BY <1>0, <1>4, <2>1 DEF PlaceInv
  <2> QED
    BY <1>1, <2>3, <2>4
<1>5. CASE phase \in {"connect", "handshake"} /\ (\E c : Emplace(c))
           /\ UNCHANGED <<req, parser, answer, target, suspended, outcome>>
  BY <1>0, <1>1, <1>5 DEF Emplace, TypeOK, PlaceInv
<1> QED
  BY <1>2, <1>3, <1>4, <1>5 DEF Connected, HandshakeDone

(* The request is sent and its answer received.                            *)
LEMMA ReceiveStep ==
  ASSUME ClientInv, PoolInv', SendRequest \/ ReceiveWhole \/ ReceivePart
  PROVE  TypeOK' /\ PlaceInv' /\ RequestInv' /\ OwnAnswer'
<1> USE DEF ClientInv, PoolInv
<1>0. /\ using \in Origins /\ using = req.origin /\ req \in Requests
      /\ pool[using] \in Connections /\ answer = None
  BY UsingEntry DEF SendRequest, ReceiveWhole, ReceivePart, PlaceInv
<1>1. RequestInv'
  BY DEF SendRequest, ReceiveWhole, ReceivePart, RequestInv
<1>2. CASE SendRequest \/ ReceivePart
  <2>1. /\ phase \in {"send", "receive"} /\ phase' = "receive"
        /\ UNCHANGED <<conn, req, using, answer, target, suspended, outcome>>
        /\ parser' \in {"empty", "partial"}
    BY <1>2 DEF SendRequest, ReceivePart
  <2> QED
    BY <1>0, <1>1, <2>1 DEF TypeOK, PlaceInv, OwnAnswer
<1>3. CASE ReceiveWhole
  <2>1. /\ phase = "receive" /\ phase' = "respond" /\ answer' = pool[using].wire[1]
        /\ UNCHANGED <<conn, req, using, target, suspended, outcome>>
        /\ parser' = "complete" /\ pool[using].wire # <<>>
        /\ pool[using].wire[1].piece = "whole"
    <3>1. pool[using].wire # <<>> => Head(pool[using].wire) = pool[using].wire[1]
      BY <1>0, HeadTailProperties DEF Connections
    <3> QED
      BY <1>3, <3>1 DEF ReceiveWhole, Entry
  <2>2. 1 \in DOMAIN pool[using].wire /\ answer' \in Pieces
    BY <1>0, <2>1, EmptySeq, LenProperties, ElementOfSeq DEF Connections
  <2>3. answer'.own /\ answer' # None
    BY <1>0, <2>1, <2>2, NoneAssumption
    DEF NoneAssumption, ExchangeInv, Proper, OwnExchange, TypeOK
  <2>4. TypeOK'
    BY <1>0, <2>1, <2>2 DEF TypeOK
  <2>5. PlaceInv'
    BY <1>0, <2>1, <2>3 DEF PlaceInv
  <2> QED
    BY <1>1, <2>3, <2>4, <2>5 DEF OwnAnswer
<1> QED
  BY <1>2, <1>3

(* A redirect is taken up, and followed.                                   *)
LEMMA RedirectStep ==
  ASSUME ClientInv, PoolInv', Redirect \/ CallbackReturns \/ Follow
  PROVE  TypeOK' /\ PlaceInv' /\ RequestInv' /\ OwnAnswer'
<1> USE DEF ClientInv, PoolInv
<1>0. None \notin Origins /\ Bad # None
  BY ClientAssumption DEF ClientAssumption
<1>1. CASE Redirect
  <2>1. /\ phase = "respond" /\ req \in Requests /\ req.origin \in Origins
        /\ answer \in Pieces /\ answer.location \notin {None, Other} /\ req.budget > 0
    BY <1>1 DEF Redirect, FollowsRedirect, TypeOK, PlaceInv, Requests
  <2>2. answer.location \in Origins \union {Path, Bad}
    BY <2>1, ClientAssumption DEF ClientAssumption, Pieces
  <2>3. TargetOf(req.origin, answer.location) \in Origins \union {Bad}
    BY <2>1, <2>2, OriginsAssumption DEF OriginsAssumption, TargetOf
  <2>4. phase' \in {"callback", "follow"} /\ answer' = None /\ using' = None
        /\ target' \in Origins \union {Bad} /\ parser' = "empty"
        /\ UNCHANGED <<conn, req, suspended, outcome>>
    BY <1>1, <2>3 DEF Redirect
  <2>5. TypeOK'
    BY <1>0, <2>1, <2>4 DEF TypeOK
  <2>6. PlaceInv'
    BY <1>0, <2>4 DEF PlaceInv
  <2> QED
    BY <2>1, <2>4, <2>5, <2>6 DEF RequestInv, OwnAnswer
<1>2. CASE CallbackReturns
  BY <1>2 DEF CallbackReturns, inner, TypeOK, PlaceInv, RequestInv, OwnAnswer
<1>3. CASE Follow
  <2>1. PICK m \in {req.method, "GET"} : req' = Redirected(m)
    BY <1>3 DEF Follow
  <2>2. req' \in Requests /\ RequestFits(req') /\ req' # None
    BY <1>3, <2>1, RedirectedFits, NoneAssumption DEF Follow, NoneAssumption
  <2>3. phase = "follow" /\ phase' = "prepare" /\ target' = None
        /\ UNCHANGED <<pool, conn, using, parser, answer, suspended, outcome>>
    BY <1>3 DEF Follow
  <2>4. TypeOK'
    BY <2>2, <2>3 DEF TypeOK
  <2>5. PlaceInv'
    BY <2>3 DEF PlaceInv
  <2> QED
    BY <2>2, <2>3, <2>4, <2>5 DEF RequestInv, OwnAnswer, PlaceInv
<1> QED
  BY <1>1, <1>2, <1>3

(* execute() is called, by the user or in a redirect callback.             *)
LEMMA ExecuteStep ==
  ASSUME ClientInv, UserStep
  PROVE  TypeOK' /\ PlaceInv' /\ RequestInv' /\ OwnAnswer'
<1> USE DEF ClientInv
<1>1. PICK o \in Origins, m \in Methods, a \in BOOLEAN :
        Execute(o, m, a) \/ CallbackExecutes(o, m, a)
  BY DEF UserStep
<1>2. /\ req' \in Requests /\ RequestFits(req') /\ req' # None
      /\ phase' = "prepare" /\ UNCHANGED <<pool, conn, using, parser, answer, outcome>>
      /\ phase \in {"idle", "callback"} /\ target' = None
  BY <1>1, NewRequestFits, NoneAssumption
  DEF Execute, CallbackExecutes, NoneAssumption, inner, PlaceInv
<1>3. /\ suspended' \in Seq([req : Requests, target : Origins \union {Bad}])
      /\ \A i \in DOMAIN suspended' :
           RequestFits(suspended'[i].req) /\ suspended'[i].req.budget > 0
  <2>1. CASE Execute(o, m, a)
    BY <2>1 DEF Execute, TypeOK, RequestInv
  <2>2. CASE CallbackExecutes(o, m, a)
    <3> DEFINE frame == [req |-> req, target |-> target]
               Frames == [req : Requests, target : Origins \union {Bad}]
    <3>1. /\ frame \in Frames /\ suspended \in Seq(Frames)
          /\ RequestFits(req) /\ req.budget > 0
      BY <2>2 DEF CallbackExecutes, TypeOK, PlaceInv, RequestInv
    <3>2. suspended' = <<frame>> \o suspended
      BY <2>2 DEF CallbackExecutes
    <3>3. <<frame>> \in Seq(Frames) /\ Len(<<frame>>) = 1 /\ <<frame>>[1] = frame
          /\ frame.req = req
      BY <3>1
    <3> HIDE DEF frame, Frames
    <3>4. /\ suspended' \in Seq(Frames)
          /\ Len(suspended') = 1 + Len(suspended)
          /\ \A i \in 1..(1 + Len(suspended)) :
               suspended'[i] = IF i <= 1 THEN <<frame>>[i] ELSE suspended[i - 1]
      BY <3>1, <3>2, <3>3, ConcatProperties
    <3>5. /\ DOMAIN suspended' = 1..(1 + Len(suspended)) /\ Len(suspended) \in Nat
          /\ DOMAIN suspended = 1..Len(suspended)
      BY <3>1, <3>4, LenProperties
    <3>6. ASSUME NEW i \in DOMAIN suspended'
          PROVE  RequestFits(suspended'[i].req) /\ suspended'[i].req.budget > 0
      <4>1. CASE i = 1
        BY <3>1, <3>3, <3>4, <3>5, <4>1
      <4>2. CASE i # 1
        BY <3>4, <3>5, <4>2 DEF RequestInv
      <4> QED
        BY <4>1, <4>2
    <3> QED
      BY <3>4, <3>6 DEF Frames
  <2> QED
    BY <1>1, <2>1, <2>2
<1>4. TypeOK'
  BY <1>2, <1>3 DEF TypeOK
<1>5. PlaceInv'
  BY <1>2 DEF PlaceInv
<1> QED
  BY <1>2, <1>3, <1>4, <1>5 DEF RequestInv, OwnAnswer, PlaceInv

-----------------------------------------------------------------------------
\* HttpClient: it is inductive, and what follows from it.

(* A client begins with an empty pool and no request. *)
LEMMA ClientInitInv == Init => ClientInv
<1> SUFFICES ASSUME Init
             PROVE  ClientInv
  OBVIOUS
<1> USE DEF Init
<1>1. <<>> \in Seq([req : Requests, target : Origins \union {Bad}]) /\ DOMAIN <<>> = {}
  BY EmptySeq
<1>2. TypeOK
  BY <1>1 DEF TypeOK
<1>3. PlaceInv /\ EntryInv /\ RequestInv /\ ExchangeInv
  BY <1>1 DEF PlaceInv, EntryInv, RequestInv, ExchangeInv, OwnAnswer
<1> QED
  BY <1>2, <1>3 DEF ClientInv

(* Each step of the client and of the servers keeps the invariant. *)
LEMMA ClientInvStep == ClientInv /\ [Next]_vars => ClientInv'
<1> SUFFICES ASSUME ClientInv, [Next]_vars
             PROVE  TypeOK' /\ PlaceInv' /\ RequestInv' /\ OwnAnswer'
  BY PoolStep DEF ClientInv, PoolInv, ExchangeInv
<1>0. PoolInv' /\ pool' \in [Origins -> Connections \union {None}]
  BY PoolStep DEF PoolInv
<1>1. CASE UNCHANGED vars
  BY <1>0, <1>1, OnlyThePool DEF vars
<1>2. CASE ReuseConnection \/ OpenConnection \/ Connected \/ HandshakeDone
  BY <1>0, <1>2, ConnectStep
<1>3. CASE SendRequest \/ ReceiveWhole \/ ReceivePart
  BY <1>0, <1>3, ReceiveStep
<1>4. CASE \/ ConnectFails \/ SendFails \/ ReceiveTail \/ ReceiveEof
           \/ RedirectIsReturned \/ Respond \/ BadTarget
  <2>1. PICK r \in {"response", "failed", "excused"} : Finish(r)
    BY <1>4 DEF ConnectFails, SendFails, ReceiveTail, ReceiveEof, Fail, Verdict,
                RedirectIsReturned, Respond, BadTarget
  <2> QED
    BY <1>0, <2>1, FinishInv DEF OwnAnswer
<1>5. CASE Redirect \/ CallbackReturns \/ Follow
  BY <1>0, <1>5, RedirectStep
<1>6. CASE UserStep
  BY <1>6, ExecuteStep
<1>7. ASSUME NEW k \in Origins, ServerStep(k) \/ BecomesIdle(k)
      PROVE  TypeOK' /\ PlaceInv' /\ RequestInv' /\ OwnAnswer'
  <2>1. UNCHANGED <<req, phase, suspended, outcome, inner>>
    BY <1>7 DEF ServerStep, Answer, ServerCloses, BecomesIdle
  <2> QED
    BY <1>0, <1>7, <2>1, ServerChanges, EntryChanged, OnlyThePool
<1> QED
  BY <1>1, <1>2, <1>3, <1>4, <1>5, <1>6, <1>7 DEF Next, ClientStep, ExchangeStep

(* The client's variables have their types, and it uses an entry of the    *)
(* pool exactly while it exchanges messages over it, in every execution    *)
(* of do_execute() calls, nested in redirect callbacks or not.             *)
THEOREM ClientInvariant == Spec => []ClientInv
BY ClientInitInv, ClientInvStep, PTL DEF Spec

(* Every variable of the client keeps its type, for any set of origins. *)
THEOREM ClientTypes == Spec => []TypeOK
<1>1. ClientInv => TypeOK
  BY DEF ClientInv
<1> QED
  BY <1>1, ClientInvariant, PTL

(* The response that execute() goes on with answers the request it has     *)
(* sent, whatever servers answer, announce and close, and whichever        *)
(* connections of the pool requests use again.                             *)
THEOREM AnswersOwn == Spec => []OwnAnswer
<1>1. ClientInv => OwnAnswer
  BY DEF ClientInv, ExchangeInv
<1> QED
  BY <1>1, ClientInvariant, PTL

(* What holds of a request wherever the invariant does.                    *)
LEMMA RequestsProperties == ClientInv => RedirectsBounded /\ CredentialsStayHome /\ SentToOrigin
<1> SUFFICES ASSUME ClientInv
             PROVE  RedirectsBounded /\ CredentialsStayHome /\ SentToOrigin
  OBVIOUS
<1>1. RedirectsBounded
  BY ClientAssumption
  DEF ClientAssumption, ClientInv, TypeOK, RequestInv, RequestFits, Requests, RedirectsBounded
<1>2. CredentialsStayHome
  BY UsingEntry, ClientAssumption
  DEF ClientAssumption, Fits, ClientInv, TypeOK, RequestInv, RequestFits, CredentialsStayHome
<1>3. SentToOrigin
  BY UsingEntry DEF Fits, SentToOrigin
<1> QED
  BY <1>1, <1>2, <1>3

(* One call of execute() follows at most max_redirects redirects, even if  *)
(* the redirect callback executes requests with budgets of their own.      *)
THEOREM RedirectsAreBounded == Spec => []RedirectsBounded
BY RequestsProperties, ClientInvariant, PTL

(* Authorization only goes to the host that the user sent it to, however   *)
(* many redirects lead away from it and back.                              *)
THEOREM CredentialsAreKept == Spec => []CredentialsStayHome
BY RequestsProperties, ClientInvariant, PTL

-----------------------------------------------------------------------------
\* TlsClient: the inductive invariant.

(* Objects are numbered from 1, and there are finitely many.               *)
Typed(w, r, ss) ==
  /\ w \in Nat
  /\ DOMAIN r \subseteq Nat \ {0} /\ IsFiniteSet(DOMAIN r)
  /\ r \in [DOMAIN r -> Nat \ {0}]
  /\ DOMAIN ss \subseteq Nat \ {0} /\ IsFiniteSet(DOMAIN ss)
  /\ ss \in [DOMAIN ss -> [context : Nat \ {0}, host : {o.host : o \in Origins},
                           done : BOOLEAN]]

(* The contexts there are, are held by the wrapper w or by sessions of ss, *)
(* and r counts by how many.                                               *)
HoldersOf(c, ss) == {s \in DOMAIN ss : ss[s].context = c}
Wraps(w, c) == IF w = c THEN 1 ELSE 0

Counted(w, r, ss) ==
  /\ \A c : c \in DOMAIN r <=> ((c = w /\ w # 0) \/ HoldersOf(c, ss) # {})
  /\ \A c \in DOMAIN r : r[c] = Cardinality(HoldersOf(c, ss)) + Wraps(w, c)

(* Entries of the pool to an https origin, and no others, have a session,  *)
(* which is that of a finished handshake with their host; a session is on  *)
(* its way to the pool during the handshake.                               *)
SessionInv ==
  /\ tls \in [Origins -> Nat] /\ newTls \in Nat /\ ending \in BOOLEAN
  /\ ending => phase = "idle"
  /\ (newTls # 0) = (phase = "handshake")
  /\ newTls # 0 => sessions[newTls].host = req.origin.host
  /\ \A k \in Origins :
       /\ (tls[k] # 0) = (pool[k] # None /\ k.scheme = "https")
       /\ tls[k] # 0 => sessions[tls[k]].host = k.host /\ sessions[tls[k]].done

TlsInv ==
  /\ ClientInv
  /\ Typed(wrapper, contexts, sessions)
  /\ ContextsAreCounted
  /\ SessionsAreOwned
  /\ SessionInv

-----------------------------------------------------------------------------
\* References to contexts.

(* What the invariant counts is what ContextsAreCounted says.              *)
LEMMA CountedByHolders ==
  ASSUME NEW w, NEW r, NEW ss
  PROVE  LET holders(c) == Cardinality({s \in DOMAIN ss : ss[s].context = c})
                             + (IF w = c THEN 1 ELSE 0)
         IN  Counted(w, r, ss) <=>
               /\ {ss[s].context : s \in DOMAIN ss} \union ({w} \ {0}) = DOMAIN r
               /\ \A c \in DOMAIN r : r[c] = holders(c)
<1> DEFINE A == {ss[s].context : s \in DOMAIN ss}
           B == {w} \ {0}
<1>1. \A c : c \in A <=> HoldersOf(c, ss) # {}
  BY DEF HoldersOf
<1>2. \A c : c \in B <=> (c = w /\ w # 0)
  OBVIOUS
<1> HIDE DEF A, B
<1>3. A \union B = DOMAIN r <=> \A c : c \in DOMAIN r <=> (c \in B \/ c \in A)
  OBVIOUS
<1>4. A \union B = DOMAIN r
        <=> \A c : c \in DOMAIN r <=> ((c = w /\ w # 0) \/ HoldersOf(c, ss) # {})
  BY <1>1, <1>2, <1>3
<1> QED
  BY <1>4 DEF Counted, HoldersOf, Wraps, A, B

(* What the reference counts are, as a predicate of rigid values, *)
LEMMA CountedIsCounted == ContextsAreCounted <=> Counted(wrapper, contexts, sessions)
BY CountedByHolders DEF ContextsAreCounted

(* and the same of the next state. *)
LEMMA CountedIsCountedNext ==
  ContextsAreCounted' <=> Counted(wrapper', contexts', sessions')
BY CountedByHolders DEF ContextsAreCounted

(* The next object is none of those there are.                             *)
LEMMA NextIsNew ==
  ASSUME NEW f, DOMAIN f \subseteq Nat \ {0}, IsFiniteSet(DOMAIN f)
  PROVE  NextOf(f) \in Nat \ {0} /\ NextOf(f) \notin DOMAIN f
<1> DEFINE D == DOMAIN f
           n == Cardinality(D)
<1>1. n \in Nat
  BY FS_CardinalityType
<1>2. IsFiniteSet(1..(n + 1)) /\ Cardinality(1..(n + 1)) = n + 1
  BY <1>1, FS_Interval
<1>3. ~(1..(n + 1) \subseteq D)
  <2> HIDE DEF n
  <2>1. 1..(n + 1) \subseteq D => n + 1 <= Cardinality(D)
    BY <1>2, FS_Subset, ZenonT(40)
  <2> QED
    BY <1>1, <2>1 DEF n
<1>4. \E i \in 1..(n + 1) : i \notin D
  BY <1>3
<1>5. NextOf(f) \in 1..(n + 1) /\ NextOf(f) \notin D
  BY <1>4 DEF NextOf
<1> QED
  BY <1>1, <1>5

(* The holders of a context are finitely many.                             *)
LEMMA HoldersType ==
  ASSUME NEW ss, IsFiniteSet(DOMAIN ss), NEW c
  PROVE  /\ IsFiniteSet(HoldersOf(c, ss)) /\ Cardinality(HoldersOf(c, ss)) \in Nat
         /\ Cardinality(HoldersOf(c, ss)) = 0 <=> HoldersOf(c, ss) = {}
<1>1. HoldersOf(c, ss) \in SUBSET (DOMAIN ss)
  BY DEF HoldersOf
<1> QED
  BY <1>1, FS_Subset, FS_CardinalityType, FS_EmptySet

(* ensure_tls_context() leaves a wrapper with a context.                   *)
LEMMA EnsuredCounts ==
  ASSUME Typed(wrapper, contexts, sessions), Counted(wrapper, contexts, sessions)
  PROVE  /\ Typed(EnsuredWrapper, EnsuredContexts, sessions)
         /\ Counted(EnsuredWrapper, EnsuredContexts, sessions)
         /\ EnsuredWrapper # 0
<1>1. CASE wrapper # 0
  BY <1>1 DEF EnsuredWrapper, EnsuredContexts
<1>2. CASE wrapper = 0
  <2> DEFINE n == NewContext
             r == WithNewContext
  <2>1. n \in Nat \ {0} /\ n \notin DOMAIN contexts
    BY NextIsNew DEF Typed, NewContext
  <2>2. DOMAIN r = DOMAIN contexts \union {n} /\ r[n] = 1
        /\ \A c \in DOMAIN contexts : r[c] = contexts[c] /\ c # n
    BY <2>1 DEF WithNewContext
  <2>3. EnsuredWrapper = n /\ EnsuredContexts = r
    BY <1>2 DEF EnsuredWrapper, EnsuredContexts
  <2>4. r \in [DOMAIN r -> Nat \ {0}]
    BY <2>1, <2>2 DEF Typed, WithNewContext
  <2> HIDE DEF n, r
  <2>5. Typed(n, r, sessions)
    <3>1. IsFiniteSet(DOMAIN contexts \union {n})
      BY FS_AddElement DEF Typed
    <3> QED
      BY <2>1, <2>2, <2>4, <3>1 DEF Typed
  <2>6. HoldersOf(n, sessions) = {}
    BY <2>1 DEF Counted
  <2>7. \A c \in DOMAIN contexts : Wraps(n, c) = 0 /\ Wraps(wrapper, c) = 0
    BY <1>2, <2>2 DEF Wraps, Typed
  <2>8. \A c \in DOMAIN r : r[c] = Cardinality(HoldersOf(c, sessions)) + Wraps(n, c)
    <3>1. r[n] = Cardinality(HoldersOf(n, sessions)) + Wraps(n, n)
      BY <2>2, <2>6, FS_EmptySet DEF Wraps
    <3> QED
      BY <2>2, <2>7, <3>1 DEF Counted
  <2>9. \A c : c \in DOMAIN r <=> ((c = n /\ n # 0) \/ HoldersOf(c, sessions) # {})
    BY <1>2, <2>1, <2>2 DEF Counted
  <2> QED
    BY <2>1, <2>3, <2>5, <2>8, <2>9 DEF Counted
<1> QED
  BY <1>1, <1>2

(* A session is made, and has a reference to the wrapper's context.        *)
LEMMA SessionCounts ==
  ASSUME NEW w, NEW r, NEW ss, Typed(w, r, ss), Counted(w, r, ss), w # 0,
         NEW n \in Nat \ {0}, n \notin DOMAIN ss,
         NEW h \in {o.host : o \in Origins}
  PROVE  LET tt == [s \in DOMAIN ss \union {n} |->
                      IF s = n THEN [context |-> w, host |-> h, done |-> FALSE] ELSE ss[s]]
         IN  Typed(w, Referenced(r, w), tt) /\ Counted(w, Referenced(r, w), tt)
<1> DEFINE tt == [s \in DOMAIN ss \union {n} |->
                    IF s = n THEN [context |-> w, host |-> h, done |-> FALSE] ELSE ss[s]]
           q == Referenced(r, w)
<1>1. w \in DOMAIN r /\ w \in Nat \ {0} /\ r[w] \in Nat \ {0}
  BY DEF Counted, Typed
<1>2. /\ DOMAIN q = DOMAIN r /\ q[w] = r[w] + 1
      /\ \A c \in DOMAIN r : c # w => q[c] = r[c]
      /\ q \in [DOMAIN r -> Nat \ {0}]
  BY <1>1 DEF Referenced, Typed
<1>3. /\ DOMAIN tt = DOMAIN ss \union {n} /\ tt[n].context = w
      /\ \A s \in DOMAIN ss : tt[s] = ss[s] /\ s # n
      /\ tt \in [DOMAIN tt -> [context : Nat \ {0}, host : {o.host : o \in Origins},
                               done : BOOLEAN]]
  BY <1>1 DEF Typed
<1> HIDE DEF q, tt
<1>4. Typed(w, q, tt)
  <2>1. IsFiniteSet(DOMAIN ss \union {n})
    BY FS_AddElement DEF Typed
  <2> QED
    BY <1>2, <1>3, <2>1 DEF Typed
<1>5. HoldersOf(w, tt) = HoldersOf(w, ss) \union {n} /\ n \notin HoldersOf(w, ss)
  BY <1>3 DEF HoldersOf
<1>6. \A c : c # w => HoldersOf(c, tt) = HoldersOf(c, ss)
  BY <1>3 DEF HoldersOf
<1>7. Cardinality(HoldersOf(w, tt)) = Cardinality(HoldersOf(w, ss)) + 1
      /\ Cardinality(HoldersOf(w, ss)) \in Nat
  BY <1>5, HoldersType, FS_AddElement DEF Typed
<1>8. \A c : c \in DOMAIN q <=> ((c = w /\ w # 0) \/ HoldersOf(c, tt) # {})
  BY <1>1, <1>2, <1>6 DEF Counted
<1>9. \A c \in DOMAIN q : q[c] = Cardinality(HoldersOf(c, tt)) + Wraps(w, c)
  BY <1>1, <1>2, <1>6, <1>7 DEF Counted, Wraps
<1> QED
  BY <1>4, <1>8, <1>9 DEF Counted, q, tt

(* The wrapper gives its reference back.                                   *)
LEMMA WrapperCounts ==
  ASSUME NEW w, NEW r, NEW ss, Typed(w, r, ss), Counted(w, r, ss), w # 0
  PROVE  Typed(0, Dereferenced(r, w), ss) /\ Counted(0, Dereferenced(r, w), ss)
<1> DEFINE q == Dereferenced(r, w)
<1>1. w \in DOMAIN r /\ w \in Nat \ {0} /\ r[w] \in Nat \ {0}
  BY DEF Counted, Typed
<1>2. /\ DOMAIN q \subseteq DOMAIN r
      /\ \A c \in DOMAIN r : c \in DOMAIN q <=> (c # w \/ r[w] > 1)
      /\ \A c \in DOMAIN q : q[c] = IF c = w THEN r[w] - 1 ELSE r[c]
  BY DEF Dereferenced
<1>3. q = [d \in DOMAIN q |-> q[d]]
  BY DEF Dereferenced
<1> HIDE DEF q
<1>4. q \in [DOMAIN q -> Nat \ {0}]
  <2>1. \A c \in DOMAIN q : q[c] \in Nat \ {0}
    BY <1>1, <1>2 DEF Typed
  <2> QED
    BY <1>3, <2>1
<1>5. Typed(0, q, ss)
  BY <1>2, <1>4, FS_Subset DEF Typed
<1>6. r[w] = Cardinality(HoldersOf(w, ss)) + 1 /\ Cardinality(HoldersOf(w, ss)) \in Nat
  BY <1>1, HoldersType DEF Counted, Wraps, Typed
<1>7. w \in DOMAIN q <=> HoldersOf(w, ss) # {}
  BY <1>1, <1>2, <1>6, HoldersType DEF Typed
<1>8. \A c : c \in DOMAIN q <=> ((c = 0 /\ 0 # 0) \/ HoldersOf(c, ss) # {})
  BY <1>2, <1>7 DEF Counted
<1>9. \A c \in DOMAIN q : q[c] = Cardinality(HoldersOf(c, ss)) + Wraps(0, c)
  <2>1. ASSUME NEW c \in DOMAIN q PROVE q[c] = Cardinality(HoldersOf(c, ss)) + Wraps(0, c)
    <3>1. Wraps(0, c) = 0 /\ c \in DOMAIN r
      BY <1>2 DEF Wraps, Typed
    <3>2. CASE c = w
      BY <1>2, <1>6, <3>1, <3>2
    <3>3. CASE c # w
      <4>1. Wraps(w, c) = 0 /\ q[c] = r[c]
        BY <1>2, <3>3 DEF Wraps
      <4> QED
        BY <3>1, <4>1 DEF Counted
    <3> QED
      BY <3>2, <3>3
  <2> QED
    BY <2>1
<1> QED
  BY <1>5, <1>8, <1>9 DEF Counted, q

(* SSL_new fails behind a reference that is given back.                    *)
LEMMA ReferenceReturned ==
  ASSUME NEW w, NEW r, NEW ss, Typed(w, r, ss), Counted(w, r, ss), w # 0
  PROVE  Dereferenced(Referenced(r, w), w) = r
<1> DEFINE q == Referenced(r, w)
           p == Dereferenced(q, w)
<1>1. w \in DOMAIN r /\ r[w] \in Nat \ {0} /\ r = [c \in DOMAIN r |-> r[c]]
  BY DEF Counted, Typed
<1>2. DOMAIN q = DOMAIN r /\ q[w] = r[w] + 1 /\ \A c \in DOMAIN r : c # w => q[c] = r[c]
  BY <1>1 DEF Referenced
<1> HIDE DEF q
<1>3. {e \in DOMAIN q : e # w \/ q[e] > 1} = DOMAIN r
  BY <1>1, <1>2
<1>4. p = [d \in DOMAIN r |-> IF d = w THEN q[d] - 1 ELSE q[d]]
  BY <1>3 DEF Dereferenced
<1>5. \A d \in DOMAIN r : (IF d = w THEN q[d] - 1 ELSE q[d]) = r[d]
  BY <1>1, <1>2
<1>6. p = [d \in DOMAIN r |-> r[d]]
  BY <1>4, <1>5
<1> QED
  BY <1>1, <1>6 DEF q

(* Sessions are freed, and with each a reference to its context.           *)
LEMMA FreedCounts ==
  ASSUME Typed(wrapper, contexts, sessions), Counted(wrapper, contexts, sessions),
         NEW S, S \subseteq DOMAIN sessions
  PROVE  /\ Typed(wrapper, Without(contexts, S), Discarded(S))
         /\ Counted(wrapper, Without(contexts, S), Discarded(S))
<1> DEFINE freed(c) == {s \in S : sessions[s].context = c}
           q == Without(contexts, S)
           tt == Discarded(S)
<1>1. /\ DOMAIN tt = DOMAIN sessions \ S
      /\ \A s \in DOMAIN tt : tt[s] = sessions[s]
      /\ tt = [s \in DOMAIN tt |-> tt[s]]
  BY DEF Discarded
<1>2. /\ DOMAIN q = {d \in DOMAIN contexts : contexts[d] > Cardinality(freed(d))}
      /\ \A c \in DOMAIN q : q[c] = contexts[c] - Cardinality(freed(c))
      /\ q = [c \in DOMAIN q |-> q[c]]
  BY DEF Without
<1> HIDE DEF q, tt
<1>3. ASSUME NEW c
      PROVE  /\ Cardinality(freed(c)) \in Nat
             /\ Cardinality(HoldersOf(c, tt)) \in Nat
             /\ Cardinality(HoldersOf(c, sessions))
                  = Cardinality(freed(c)) + Cardinality(HoldersOf(c, tt))
             /\ Cardinality(HoldersOf(c, tt)) = 0 <=> HoldersOf(c, tt) = {}
             /\ HoldersOf(c, tt) \subseteq HoldersOf(c, sessions)
  <2>1. HoldersOf(c, tt) = HoldersOf(c, sessions) \ freed(c)
        /\ freed(c) \subseteq HoldersOf(c, sessions)
    BY <1>1 DEF HoldersOf
  <2>2. IsFiniteSet(HoldersOf(c, sessions)) /\ IsFiniteSet(DOMAIN tt)
    BY <1>1, HoldersType, FS_Subset DEF Typed
  <2> DEFINE A == HoldersOf(c, sessions)
             B == freed(c)
  <2>3. A \intersect B = B /\ IsFiniteSet(B)
    BY <2>1, <2>2, FS_Subset
  <2> HIDE DEF A, B
  <2>4. Cardinality(A \ B) = Cardinality(A) - Cardinality(B)
    BY <2>2, <2>3, FS_Difference DEF A
  <2>5. Cardinality(A) \in Nat /\ Cardinality(B) \in Nat
    BY <2>2, <2>3, FS_CardinalityType DEF A
  <2>6. /\ Cardinality(HoldersOf(c, tt)) \in Nat
        /\ Cardinality(HoldersOf(c, tt)) = 0 <=> HoldersOf(c, tt) = {}
    BY <2>2, HoldersType
  <2>7. HoldersOf(c, tt) = A \ B
    BY <2>1 DEF A, B
  <2>8. Cardinality(A) = Cardinality(B) + Cardinality(HoldersOf(c, tt))
    BY <2>4, <2>5, <2>7
  <2> QED
    BY <2>1, <2>5, <2>6, <2>8 DEF A, B
<1> HIDE DEF freed
<1>4. Typed(wrapper, q, tt)
  <2>1. DOMAIN q \subseteq DOMAIN contexts /\ DOMAIN tt \subseteq DOMAIN sessions
    BY <1>1, <1>2
  <2>2. IsFiniteSet(DOMAIN q) /\ IsFiniteSet(DOMAIN tt)
    BY <2>1, FS_Subset DEF Typed
  <2>3. \A c \in DOMAIN q : q[c] \in Nat \ {0}
    BY <1>2, <1>3 DEF Typed
  <2>4. \A s \in DOMAIN tt : tt[s] \in [context : Nat \ {0}, host : {o.host : o \in Origins},
                                        done : BOOLEAN]
    BY <1>1 DEF Typed
  <2>5. q \in [DOMAIN q -> Nat \ {0}]
    BY <1>2, <2>3
  <2>6. tt \in [DOMAIN tt -> [context : Nat \ {0}, host : {o.host : o \in Origins},
                              done : BOOLEAN]]
    BY <1>1, <2>4
  <2> QED
    BY <2>1, <2>2, <2>5, <2>6 DEF Typed
<1>5. \A c : Wraps(wrapper, c) = IF wrapper = c THEN 1 ELSE 0
  BY DEF Wraps
<1>6. ASSUME NEW c
      PROVE  c \in DOMAIN q <=> ((c = wrapper /\ wrapper # 0) \/ HoldersOf(c, tt) # {})
  <2>1. CASE c \in DOMAIN contexts
    <3>1. contexts[c] = Cardinality(HoldersOf(c, sessions)) + Wraps(wrapper, c) /\ c # 0
      BY <2>1 DEF Counted, Typed
    <3>2. c \in DOMAIN q <=> Cardinality(HoldersOf(c, tt)) + Wraps(wrapper, c) > 0
      BY <1>2, <1>3, <1>5, <2>1, <3>1
    <3> QED
      BY <1>3, <1>5, <3>1, <3>2
  <2>2. CASE c \notin DOMAIN contexts
    BY <1>2, <1>3, <2>2 DEF Counted
  <2> QED
    BY <2>1, <2>2
<1>7. ASSUME NEW c \in DOMAIN q
      PROVE  q[c] = Cardinality(HoldersOf(c, tt)) + Wraps(wrapper, c)
  <2>1. contexts[c] = Cardinality(HoldersOf(c, sessions)) + Wraps(wrapper, c)
    BY <1>2 DEF Counted
  <2> QED
    BY <1>2, <1>3, <1>5, <2>1
<1> QED
  BY <1>4, <1>6, <1>7 DEF Counted, q, tt

(* Whatever a step does to the objects of OpenSSL, the references are      *)
(* counted.                                                                *)
CountsNext == Typed(wrapper, contexts, sessions)' /\ Counted(wrapper, contexts, sessions)'

(* Steps that keep the counts keep the property. *)
LEMMA CountedNext ==
  ASSUME CountsNext
  PROVE  ContextsAreCounted'
<1>1. Typed(wrapper', contexts', sessions') /\ Counted(wrapper', contexts', sessions')
  BY DEF CountsNext
<1> QED
  BY <1>1, CountedIsCountedNext

(* tls_context::create() makes a session of its host, and counts it. *)
LEMMA CreateStep ==
  ASSUME Typed(wrapper, contexts, sessions), Counted(wrapper, contexts, sessions),
         NEW h \in {o.host : o \in Origins}, Create(h)
  PROVE  /\ CountsNext
         /\ NewSession \in Nat \ {0} /\ NewSession \notin DOMAIN sessions
         /\ DOMAIN sessions' = DOMAIN sessions \union {NewSession}
         /\ sessions'[NewSession].host = h
         /\ \A s \in DOMAIN sessions : sessions'[s] = sessions[s]
<1> DEFINE n == NewSession
           w == EnsuredWrapper
           r == EnsuredContexts
           tt == [s \in DOMAIN sessions \union {n} |->
                    IF s = n THEN [context |-> w, host |-> h, done |-> FALSE] ELSE sessions[s]]
<1>1. n \in Nat \ {0} /\ n \notin DOMAIN sessions
  BY NextIsNew DEF Typed, NewSession
<1>2. Typed(w, r, sessions) /\ Counted(w, r, sessions) /\ w # 0
  BY EnsuredCounts
<1>3. wrapper' = w /\ contexts' = Referenced(r, w) /\ sessions' = tt
  BY DEF Create
<1>4. /\ DOMAIN tt = DOMAIN sessions \union {n} /\ tt[n].host = h
      /\ \A s \in DOMAIN sessions : tt[s] = sessions[s]
  BY <1>1
<1> HIDE DEF n, w, r
<1>5. Typed(w, Referenced(r, w), tt) /\ Counted(w, Referenced(r, w), tt)
  BY <1>1, <1>2, SessionCounts
<1> QED
  BY <1>1, <1>3, <1>4, <1>5 DEF CountsNext, n

(* Failures to create leave no session behind. *)
LEMMA FailStep ==
  ASSUME Typed(wrapper, contexts, sessions), Counted(wrapper, contexts, sessions),
         EnsureFails \/ CreateFails \/ UNCHANGED tlsVars
  PROVE  CountsNext /\ sessions' = sessions
<1>0. /\ Typed(EnsuredWrapper, EnsuredContexts, sessions)
      /\ Counted(EnsuredWrapper, EnsuredContexts, sessions)
      /\ EnsuredWrapper # 0
  BY EnsuredCounts
<1>1. CASE UNCHANGED tlsVars
  BY <1>1 DEF tlsVars, CountsNext
<1>2. CASE EnsureFails
  <2>1. wrapper = 0 /\ wrapper' = 0 /\ sessions' = sessions
        /\ contexts' \in {contexts, Dereferenced(EnsuredContexts, EnsuredWrapper)}
    BY <1>2 DEF EnsureFails, EnsuredContexts, EnsuredWrapper
  <2>2. /\ Typed(0, Dereferenced(EnsuredContexts, EnsuredWrapper), sessions)
        /\ Counted(0, Dereferenced(EnsuredContexts, EnsuredWrapper), sessions)
    BY <1>0, WrapperCounts
  <2> QED
    BY <2>1, <2>2 DEF CountsNext
<1>3. CASE CreateFails
  <2>1. Dereferenced(Referenced(EnsuredContexts, EnsuredWrapper), EnsuredWrapper)
          = EnsuredContexts
    BY <1>0, ReferenceReturned
  <2> QED
    BY <1>0, <1>3, <2>1 DEF CreateFails, CountsNext
<1> QED
  BY <1>1, <1>2, <1>3

(* Sessions are freed, and their references to contexts with them. *)
LEMMA FreeStep ==
  ASSUME Typed(wrapper, contexts, sessions), Counted(wrapper, contexts, sessions),
         NEW S, S \subseteq DOMAIN sessions, FreeSessions(S)
  PROVE  /\ CountsNext
         /\ DOMAIN sessions' = DOMAIN sessions \ S
         /\ \A s \in DOMAIN sessions' : sessions'[s] = sessions[s]
<1>1. Typed(wrapper, Without(contexts, S), Discarded(S))
      /\ Counted(wrapper, Without(contexts, S), Discarded(S))
  BY FreedCounts
<1> QED
  BY <1>1 DEF FreeSessions, CountsNext, Discarded

(* A handshake changes nothing of a session but that it is done. *)
LEMMA HandshakeStep ==
  ASSUME Typed(wrapper, contexts, sessions), Counted(wrapper, contexts, sessions),
         NEW n \in DOMAIN sessions, Handshake(n, {})
  PROVE  /\ CountsNext
         /\ DOMAIN sessions' = DOMAIN sessions
         /\ \A s \in DOMAIN sessions : sessions'[s].host = sessions[s].host
                                       /\ (sessions'[s].done = (s = n \/ sessions[s].done))
<1> DEFINE tt == [Discarded({}) EXCEPT ![n].done = TRUE]
           Session == [context : Nat \ {0}, host : {o.host : o \in Origins}, done : BOOLEAN]
<1>1. Typed(wrapper, Without(contexts, {}), Discarded({}))
      /\ Counted(wrapper, Without(contexts, {}), Discarded({}))
  BY FreedCounts
<1>2. Discarded({}) = sessions
  BY DEF Discarded, Typed
<1>3. /\ wrapper' = wrapper /\ contexts' = Without(contexts, {})
      /\ sessions' = [sessions EXCEPT ![n].done = TRUE]
  BY <1>2 DEF Handshake
<1>4. \A s \in DOMAIN sessions : sessions[s] \in Session
  BY DEF Typed
<1>5. DOMAIN sessions' = DOMAIN sessions
  BY <1>3
<1>6. \A s \in DOMAIN sessions :
        /\ sessions'[s] \in Session
        /\ sessions'[s].context = sessions[s].context
        /\ sessions'[s].host = sessions[s].host
        /\ sessions'[s].done = (s = n \/ sessions[s].done)
  BY <1>3, <1>4
<1>7. Typed(wrapper, contexts', sessions')
  <2>1. sessions' \in [DOMAIN sessions' -> Session]
    BY <1>3, <1>5, <1>6
  <2> QED
    BY <1>1, <1>2, <1>3, <1>5, <2>1 DEF Typed
<1>8. \A c : HoldersOf(c, sessions') = HoldersOf(c, sessions)
  BY <1>5, <1>6 DEF HoldersOf
<1>9. Counted(wrapper, contexts', sessions')
  BY <1>1, <1>2, <1>3, <1>8 DEF Counted
<1> QED
  BY <1>3, <1>5, <1>6, <1>7, <1>9 DEF CountsNext

(* The end of a client frees its reference to the context. *)
LEMMA EndStep ==
  ASSUME Typed(wrapper, contexts, sessions), Counted(wrapper, contexts, sessions), FreeWrapper
  PROVE  CountsNext /\ sessions' = sessions
BY WrapperCounts DEF FreeWrapper, CountsNext

-----------------------------------------------------------------------------
\* Who owns the sessions.

(* The sessions in use are there, and nobody shares one.                   *)
LEMMA OwnedSessions ==
  ASSUME SessionsAreOwned, SessionInv
  PROVE  /\ \A s : s \in DOMAIN sessions
                     <=> \/ \E k \in Origins : tls[k] # 0 /\ s = tls[k]
                         \/ newTls # 0 /\ s = newTls
         /\ \A j, k \in Origins : tls[j] # 0 /\ tls[j] = tls[k] => j = k
         /\ \A k \in Origins : tls[k] # 0 => tls[k] # newTls
<1> DEFINE used == {k \in Origins : tls[k] # 0}
           A == {tls[k] : k \in used}
           B == {newTls} \ {0}
<1>1. \A s : s \in A <=> \E k \in Origins : tls[k] # 0 /\ s = tls[k]
  OBVIOUS
<1>2. \A s : s \in B <=> newTls # 0 /\ s = newTls
  OBVIOUS
<1>3. DOMAIN sessions = A \union B
  BY DEF SessionsAreOwned
<1>4. \A j, k \in used : tls[j] = tls[k] => j = k
  BY DEF SessionsAreOwned
<1>5. newTls \notin A
  BY DEF SessionsAreOwned
<1> HIDE DEF A, B
<1> QED
  BY <1>1, <1>2, <1>3, <1>4, <1>5

(* The same of the next state.                                             *)
LEMMA SessionsOwned ==
  ASSUME \A s : s \in DOMAIN sessions'
                  <=> \/ \E k \in Origins : tls'[k] # 0 /\ s = tls'[k]
                      \/ newTls' # 0 /\ s = newTls',
         \A j, k \in Origins : tls'[j] # 0 /\ tls'[j] = tls'[k] => j = k,
         \A k \in Origins : tls'[k] # 0 => tls'[k] # newTls'
  PROVE  SessionsAreOwned'
<1> DEFINE used == {k \in Origins : tls'[k] # 0}
           A == {tls'[k] : k \in used}
           B == {newTls'} \ {0}
<1>1. \A s : s \in A <=> \E k \in Origins : tls'[k] # 0 /\ s = tls'[k]
  OBVIOUS
<1>2. \A s : s \in B <=> newTls' # 0 /\ s = newTls'
  OBVIOUS
<1>3. newTls' \notin A
  BY <1>1
<1>4. \A j, k \in used : tls'[j] = tls'[k] => j = k
  OBVIOUS
<1>5. DOMAIN sessions' = A \union B
  <2> HIDE DEF A, B
  <2> QED
    BY <1>1, <1>2
<1> QED
  BY <1>3, <1>4, <1>5 DEF SessionsAreOwned

(* What removes entries of the pool, and frees their sessions.             *)
LEMMA RemovedSessions ==
  ASSUME TlsInv,
         DOMAIN sessions' = DOMAIN sessions \ {tls[k] : k \in Removed},
         \A s \in DOMAIN sessions' : sessions'[s] = sessions[s],
         tls' = [k \in Origins |-> IF k \in Removed THEN 0 ELSE tls[k]],
         newTls' = newTls,
         ending' \in BOOLEAN, ending' => phase' = "idle",
         \A k \in Origins : pool'[k] # None => pool[k] # None,
         (phase = "handshake") = (phase' = "handshake"),
         phase = "handshake" => req' = req
  PROVE  SessionsAreOwned' /\ SessionInv'
<1> USE DEF TlsInv
<1>1. /\ \A s : s \in DOMAIN sessions
                  <=> \/ \E k \in Origins : tls[k] # 0 /\ s = tls[k]
                      \/ newTls # 0 /\ s = newTls
      /\ \A j, k \in Origins : tls[j] # 0 /\ tls[j] = tls[k] => j = k
      /\ \A k \in Origins : tls[k] # 0 => tls[k] # newTls
  BY OwnedSessions
<1>2. \A k \in Origins : k \in Removed <=> tls[k] # 0 /\ pool'[k] = None
  BY DEF Removed
<1>3. \A k \in Origins : /\ tls'[k] = IF k \in Removed THEN 0 ELSE tls[k]
                         /\ tls'[k] # 0 <=> tls[k] # 0 /\ pool'[k] # None
                         /\ tls'[k] # 0 => tls'[k] = tls[k]
  BY <1>2
<1>4. \A s : s \in DOMAIN sessions' <=>
               s \in DOMAIN sessions /\ ~\E k \in Origins : k \in Removed /\ s = tls[k]
  <2>1. Removed \subseteq Origins
    BY DEF Removed
  <2> QED
    BY <2>1
<1>5. \A s : s \in DOMAIN sessions'
               <=> \/ \E k \in Origins : tls'[k] # 0 /\ s = tls'[k]
                   \/ newTls' # 0 /\ s = newTls'
  <2> SUFFICES ASSUME NEW s
               PROVE  s \in DOMAIN sessions'
                        <=> \/ \E k \in Origins : tls'[k] # 0 /\ s = tls'[k]
                            \/ newTls # 0 /\ s = newTls
    OBVIOUS
  <2>1. ASSUME s \in DOMAIN sessions'
        PROVE  \/ \E k \in Origins : tls'[k] # 0 /\ s = tls'[k]
               \/ newTls # 0 /\ s = newTls
    BY <1>1, <1>2, <1>3, <1>4, <2>1
  <2>2. ASSUME NEW k \in Origins, tls'[k] # 0, s = tls'[k]
        PROVE  s \in DOMAIN sessions'
    BY <1>1, <1>2, <1>3, <1>4, <2>2
  <2>3. ASSUME newTls # 0, s = newTls
        PROVE  s \in DOMAIN sessions'
    BY <1>1, <1>2, <1>4, <2>3
  <2> QED
    BY <2>1, <2>2, <2>3
<1>6. \A j, k \in Origins : tls'[j] # 0 /\ tls'[j] = tls'[k] => j = k
  BY <1>1, <1>3
<1>7. \A k \in Origins : tls'[k] # 0 => tls'[k] # newTls'
  BY <1>1, <1>3
<1>8. SessionsAreOwned'
  BY <1>5, <1>6, <1>7, SessionsOwned
<1>9. SessionInv'
  <2>1. tls' \in [Origins -> Nat]
    BY DEF SessionInv
  <2>2. newTls' # 0 => sessions'[newTls'].host = req'.origin.host
    BY <1>5 DEF SessionInv
  <2>3. ASSUME NEW k \in Origins
        PROVE  /\ (tls'[k] # 0) = (pool'[k] # None /\ k.scheme = "https")
               /\ tls'[k] # 0 => sessions'[tls'[k]].host = k.host /\ sessions'[tls'[k]].done
    BY <1>3, <1>5 DEF SessionInv
  <2> QED
    BY <2>1, <2>2, <2>3 DEF SessionInv
<1> QED
  BY <1>8, <1>9

-----------------------------------------------------------------------------
\* The client's steps, with the sessions they make and free.

(* Every step is one of HttpClient, or the end of a client.                *)
LEMMA ClientTakesStep ==
  ASSUME TlsInv, [TlsClientNext]_clientTlsVars
  PROVE  ClientInv'
<1>1. CASE EndEntries
  <2>1. phase = "idle" /\ using = None /\ req = None /\ None \notin Origins
    BY <1>1, ClientAssumption
    DEF ClientAssumption, EndEntries, TlsInv, SessionInv, ClientInv, TypeOK
  <2>2. pool' = [k \in Origins |-> None] /\ UNCHANGED <<req, phase, suspended, outcome, inner>>
    BY <1>1 DEF EndEntries
  <2>3. TypeOK'
    BY <2>1, <2>2 DEF inner, TlsInv, ClientInv, TypeOK
  <2>4. PlaceInv' /\ RequestInv'
    BY <2>1, <2>2 DEF inner, TlsInv, ClientInv, PlaceInv, RequestInv
  <2>5. EntryInv' /\ ExchangeInv'
    BY <2>2 DEF inner, TlsInv, ClientInv, EntryInv, ExchangeInv, OwnAnswer
  <2> QED
    BY <2>3, <2>4, <2>5 DEF ClientInv
<1>2. CASE [Next]_vars
  BY <1>2, ClientInvStep DEF TlsInv
<1> QED
  BY <1>1, <1>2
  DEF TlsClientNext, TlsClientStep, ConnectedPlain, ConnectedTls, HandshakeDoneTls,
      ConnectFailsTls, HandshakeFailsTls, TlsServerStep, EndClient, clientTlsVars,
      Next, ClientStep

(* Only a connection that was made becomes a new entry of the pool, and    *)
(* while its handshake is under way, only the servers and time go on.      *)
LEMMA NoNewEntries ==
  ASSUME ClientInv,
         \/ ExchangeStep \/ UserStep
         \/ \E k \in Origins : ServerStep(k) \/ BecomesIdle(k)
  PROVE  /\ \A k \in Origins : pool'[k] # None => pool[k] # None
         /\ (phase = "handshake") = (phase' = "handshake")
         /\ phase = "handshake" => req' = req
<1>1. CASE \E k \in Origins : ServerStep(k) \/ BecomesIdle(k)
  <2>1. phase' = phase /\ req' = req
    BY <1>1 DEF ServerStep, Answer, ServerCloses, BecomesIdle
  <2> QED
    BY <1>1, <2>1, ServerChanges, EntryChanged
<1>2. CASE SendRequest \/ ReceiveWhole \/ ReceivePart
  <2>1. phase \in {"send", "receive"} /\ phase' \in {"receive", "respond"}
    BY <1>2 DEF SendRequest, ReceiveWhole, ReceivePart
  <2> QED
    BY <1>2, <2>1, SendChanges, ReceiveChanges, EntryChanged
<1>3. CASE Redirect \/ RedirectIsReturned \/ Respond
  <2>1. phase = "respond" /\ phase' \in {"idle", "callback", "follow"} /\ using' = None
    BY <1>3 DEF Redirect, RedirectIsReturned, Respond, Finish
  <2>2. CASE pool' = Active
    BY <2>1, <2>2, ResponseChanges, EntryChanged
  <2>3. CASE pool' = [pool EXCEPT ![using] = None]
    BY <2>1, <2>3 DEF ClientInv, TypeOK
  <2> QED
    BY <1>3, <2>2, <2>3 DEF Redirect, RedirectIsReturned, Respond
<1>4. CASE SendFails \/ ReceiveTail \/ ReceiveEof
  <2>1. /\ phase \in {"send", "receive"} /\ phase' \in {"idle", "callback"}
        /\ pool' = [pool EXCEPT ![using] = None]
    BY <1>4 DEF SendFails, ReceiveTail, ReceiveEof, Fail, Finish
  <2> QED
    BY <2>1 DEF ClientInv, TypeOK
<1>5. CASE ReuseConnection \/ OpenConnection
  <2>1. phase = "prepare" /\ phase' \in {"send", "connect"}
        /\ \A k \in Origins : pool'[k] # None => Cleaned[k] # None
    BY <1>5 DEF ReuseConnection, OpenConnection, Cleaned
  <2> QED
    BY <2>1 DEF Cleaned
<1>6. CASE CallbackReturns \/ BadTarget \/ Follow \/ UserStep
  <2>1. /\ pool' = pool /\ phase \in {"idle", "callback", "follow"}
        /\ phase' \in {"idle", "callback", "follow", "prepare"}
    BY <1>6 DEF CallbackReturns, BadTarget, Follow, UserStep, Execute, CallbackExecutes, Finish
  <2> QED
    BY <2>1
<1> QED
  BY <1>1, <1>2, <1>3, <1>4, <1>5, <1>6 DEF ExchangeStep

(* What frees the sessions of the entries it removes.                      *)
LEMMA FreeRemovedStep ==
  ASSUME TlsInv, ~ending, FreeRemoved,
         \/ ExchangeStep \/ UserStep
         \/ \E k \in Origins : ServerStep(k) \/ BecomesIdle(k)
  PROVE  CountsNext /\ SessionsAreOwned' /\ SessionInv'
<1> DEFINE S == {tls[k] : k \in Removed}
<1>1. S \subseteq DOMAIN sessions
  BY OwnedSessions DEF TlsInv, Removed
<1>2. FreeSessions(S) /\ newTls' = newTls /\ ending' = ending
      /\ tls' = [k \in Origins |-> IF k \in Removed THEN 0 ELSE tls[k]]
  BY DEF FreeRemoved
<1>3. /\ \A k \in Origins : pool'[k] # None => pool[k] # None
      /\ (phase = "handshake") = (phase' = "handshake")
      /\ phase = "handshake" => req' = req
  BY NoNewEntries DEF TlsInv
<1>4. /\ CountsNext
      /\ DOMAIN sessions' = DOMAIN sessions \ S
      /\ \A s \in DOMAIN sessions' : sessions'[s] = sessions[s]
  <2> HIDE DEF S
  <2> QED
    BY <1>1, <1>2, FreeStep, CountedIsCounted DEF TlsInv
<1>5. ending' \in BOOLEAN /\ ~ending'
  BY <1>2 DEF TlsInv, SessionInv
<1> QED
  BY <1>2, <1>3, <1>4, <1>5, RemovedSessions

(* The entries end behind the context of the client.                       *)
LEMMA EndEntriesStep ==
  ASSUME TlsInv, EndEntries
  PROVE  CountsNext /\ SessionsAreOwned' /\ SessionInv'
<1> DEFINE S == {tls[k] : k \in Removed}
<1>1. S \subseteq DOMAIN sessions
  BY OwnedSessions DEF TlsInv, Removed
<1>2. /\ FreeSessions(S) /\ newTls' = newTls /\ ending' = FALSE
      /\ phase' = phase /\ req' = req /\ \A k \in Origins : pool'[k] = None
      /\ tls' = [k \in Origins |-> 0]
  BY DEF EndEntries
<1>3. tls' = [k \in Origins |-> IF k \in Removed THEN 0 ELSE tls[k]]
  BY <1>2 DEF Removed, TlsInv, SessionInv
<1>4. /\ CountsNext
      /\ DOMAIN sessions' = DOMAIN sessions \ S
      /\ \A s \in DOMAIN sessions' : sessions'[s] = sessions[s]
  <2> HIDE DEF S
  <2> QED
    BY <1>1, <1>2, FreeStep, CountedIsCounted DEF TlsInv
<1> QED
  BY <1>2, <1>3, <1>4, RemovedSessions

(* A plain connection enters the pool, without a session.                  *)
LEMMA PlainStep ==
  ASSUME TlsInv, ~ending, ConnectedPlain
  PROVE  CountsNext /\ SessionsAreOwned' /\ SessionInv'
<1>1. /\ phase = "connect" /\ phase' = "send" /\ req' = req
      /\ UNCHANGED <<wrapper, contexts, sessions, tls, newTls, ending>>
      /\ Emplace(NewConnection(req.origin)) /\ req.origin.scheme = "http"
  BY DEF ConnectedPlain, Connected, Emplace, tlsVars, ownerVars
<1>2. req.origin \in Origins /\ pool[req.origin] = None
  BY <1>1 DEF TlsInv, ClientInv, TypeOK, PlaceInv, Requests
<1>3. NewConnection(req.origin) # None
  BY <1>2, NewConnectionType, NoneAssumption DEF NoneAssumption
<1>4. pool' = [pool EXCEPT ![req.origin] = NewConnection(req.origin)]
  BY <1>1, <1>2 DEF Emplace, PoolKey
<1>5. CountsNext /\ SessionsAreOwned'
  BY <1>1, CountedIsCounted DEF CountsNext, TlsInv, SessionsAreOwned
<1>6. \A k \in Origins : (pool'[k] # None) = (pool[k] # None \/ k = req.origin)
  BY <1>2, <1>3, <1>4 DEF TlsInv, ClientInv, TypeOK
<1>7. SessionInv'
  BY <1>1, <1>2, <1>6 DEF TlsInv, SessionInv
<1> QED
  BY <1>5, <1>7

(* A session is made, and its handshake begins.                            *)
LEMMA SessionStep ==
  ASSUME TlsInv, ~ending, ConnectedTls
  PROVE  CountsNext /\ SessionsAreOwned' /\ SessionInv'
<1> DEFINE n == NewSession
<1>1. /\ phase = "connect" /\ phase' = "handshake" /\ req' = req /\ pool' = pool
      /\ UNCHANGED <<tls, ending>> /\ newTls' = n
      /\ Create(req.origin.host)
  BY DEF ConnectedTls, Connected
<1>2. req.origin.host \in {o.host : o \in Origins}
  BY <1>1 DEF TlsInv, ClientInv, TypeOK, Requests
<1>3. /\ CountsNext
      /\ n \in Nat \ {0} /\ n \notin DOMAIN sessions
      /\ DOMAIN sessions' = DOMAIN sessions \union {n}
      /\ sessions'[n].host = req.origin.host
      /\ \A s \in DOMAIN sessions : sessions'[s] = sessions[s]
  BY <1>1, <1>2, CreateStep, CountedIsCounted DEF TlsInv
<1> HIDE DEF n
<1>4. /\ \A s : s \in DOMAIN sessions <=> \E k \in Origins : tls[k] # 0 /\ s = tls[k]
      /\ \A j, k \in Origins : tls[j] # 0 /\ tls[j] = tls[k] => j = k
  BY <1>1, OwnedSessions DEF TlsInv, SessionInv
<1>5. \A k \in Origins : tls[k] # 0 => tls[k] \in DOMAIN sessions /\ tls[k] # n
  BY <1>3, <1>4
<1>6. SessionsAreOwned'
  BY <1>1, <1>3, <1>4, <1>5, SessionsOwned
<1>7. SessionInv'
  BY <1>1, <1>3, <1>5 DEF TlsInv, SessionInv
<1> QED
  BY <1>3, <1>6, <1>7

(* The handshake ends, and the connection enters the pool with its session.*)
LEMMA SecuredStep ==
  ASSUME TlsInv, ~ending, HandshakeDoneTls
  PROVE  CountsNext /\ SessionsAreOwned' /\ SessionInv'
<1> DEFINE o == req.origin
<1>1. /\ phase = "handshake" /\ o \in Origins /\ pool[o] = None /\ o.scheme = "https"
      /\ conn = NewConnection(o)
  BY DEF HandshakeDoneTls, HandshakeDone, TlsInv, ClientInv, TypeOK, PlaceInv, Requests
<1>2. /\ phase' = "send" /\ req' = req /\ ending' = ending
      /\ Emplace([conn EXCEPT !.tls = TRUE])
      /\ Handshake(newTls, {}) /\ newTls' = 0
      /\ tls' = [tls EXCEPT ![o] = newTls]
  BY <1>1 DEF HandshakeDoneTls, HandshakeDone, Emplace, PoolKey
<1>3. [conn EXCEPT !.tls = TRUE] # None
  BY <1>1, NewConnectionType, NoneAssumption DEF NoneAssumption
<1>4. \A k \in Origins : (pool'[k] # None) = (pool[k] # None \/ k = o)
  BY <1>1, <1>2, <1>3 DEF Emplace, PoolKey, TlsInv, ClientInv, TypeOK
<1>5. /\ \A s : s \in DOMAIN sessions
                  <=> \/ \E k \in Origins : tls[k] # 0 /\ s = tls[k]
                      \/ newTls # 0 /\ s = newTls
      /\ \A j, k \in Origins : tls[j] # 0 /\ tls[j] = tls[k] => j = k
      /\ \A k \in Origins : tls[k] # 0 => tls[k] # newTls
  BY OwnedSessions DEF TlsInv
<1>6. newTls \in Nat \ {0} /\ newTls \in DOMAIN sessions /\ tls[o] = 0
  BY <1>1, <1>5 DEF TlsInv, SessionInv
<1>7. /\ CountsNext
      /\ DOMAIN sessions' = DOMAIN sessions
      /\ \A s \in DOMAIN sessions : sessions'[s].host = sessions[s].host
                                    /\ (sessions'[s].done = (s = newTls \/ sessions[s].done))
  BY <1>2, <1>6, HandshakeStep, CountedIsCounted DEF TlsInv
<1>8. \A k \in Origins : tls'[k] = IF k = o THEN newTls ELSE tls[k]
  BY <1>1, <1>2 DEF TlsInv, SessionInv
<1> HIDE DEF o
<1>9. SessionsAreOwned'
  <2>1. \A s : s \in DOMAIN sessions'
                 <=> \/ \E k \in Origins : tls'[k] # 0 /\ s = tls'[k]
                     \/ newTls' # 0 /\ s = newTls'
    BY <1>1, <1>2, <1>5, <1>6, <1>7, <1>8
  <2>2. \A j, k \in Origins : tls'[j] # 0 /\ tls'[j] = tls'[k] => j = k
    BY <1>5, <1>6, <1>8
  <2>3. \A k \in Origins : tls'[k] # 0 => tls'[k] # newTls'
    BY <1>2
  <2> QED
    BY <2>1, <2>2, <2>3, SessionsOwned
<1>10. SessionInv'
  <2>1. tls' \in [Origins -> Nat]
    BY <1>2, <1>6 DEF TlsInv, SessionInv
  <2>2. sessions[newTls].host = o.host
    BY <1>6 DEF TlsInv, SessionInv, o
  <2>3. ASSUME NEW k \in Origins
        PROVE  /\ (tls'[k] # 0) = (pool'[k] # None /\ k.scheme = "https")
               /\ tls'[k] # 0 => sessions'[tls'[k]].host = k.host /\ sessions'[tls'[k]].done
    <3>1. CASE k = o
      BY <1>1, <1>4, <1>6, <1>7, <1>8, <2>2, <3>1
    <3>2. CASE k # o
      <4>1. tls'[k] = tls[k] /\ (pool'[k] # None) = (pool[k] # None)
        BY <1>4, <1>8, <3>2
      <4>2. tls[k] # 0 => tls[k] \in DOMAIN sessions
        BY <1>5
      <4>3. /\ (tls[k] # 0) = (pool[k] # None /\ k.scheme = "https")
            /\ tls[k] # 0 => sessions[tls[k]].host = k.host /\ sessions[tls[k]].done
        BY DEF TlsInv, SessionInv
      <4>4. tls[k] # 0 => sessions'[tls[k]].host = k.host /\ sessions'[tls[k]].done
        BY <1>7, <4>2, <4>3
      <4> QED
        BY <4>1, <4>3, <4>4
    <3> QED
      BY <3>1, <3>2
  <2> QED
    BY <1>2, <2>1, <2>3 DEF TlsInv, SessionInv
<1> QED
  BY <1>7, <1>9, <1>10

(* A connection or a handshake fails.                                      *)
LEMMA FailedStep ==
  ASSUME TlsInv, ~ending, ConnectFailsTls \/ HandshakeFailsTls
  PROVE  CountsNext /\ SessionsAreOwned' /\ SessionInv'
<1>0. /\ phase' \in {"idle", "callback"} /\ pool' = pool /\ tls' = tls /\ ending' = ending
      /\ newTls' = 0
  BY DEF ConnectFailsTls, HandshakeFailsTls, ConnectFails, Finish, ownerVars, TlsInv, SessionInv
<1>5. /\ \A s : s \in DOMAIN sessions
                  <=> \/ \E k \in Origins : tls[k] # 0 /\ s = tls[k]
                      \/ newTls # 0 /\ s = newTls
      /\ \A j, k \in Origins : tls[j] # 0 /\ tls[j] = tls[k] => j = k
      /\ \A k \in Origins : tls[k] # 0 => tls[k] # newTls
  BY OwnedSessions DEF TlsInv
<1>6. /\ CountsNext /\ DOMAIN sessions' = DOMAIN sessions \ {newTls}
      /\ \A s \in DOMAIN sessions' : sessions'[s] = sessions[s]
  <2>1. CASE ConnectFailsTls
    <3>1. newTls = 0 /\ 0 \notin DOMAIN sessions
      BY <2>1 DEF ConnectFailsTls, TlsInv, SessionInv, Typed
    <3>2. CountsNext /\ sessions' = sessions
      BY <2>1, FailStep, CountedIsCounted DEF ConnectFailsTls, TlsInv
    <3> QED
      BY <3>1, <3>2
  <2>2. CASE HandshakeFailsTls
    <3>1. newTls # 0 /\ FreeSessions({newTls}) /\ {newTls} \subseteq DOMAIN sessions
      BY <1>5, <2>2 DEF HandshakeFailsTls, TlsInv, SessionInv
    <3> QED
      BY <3>1, FreeStep, CountedIsCounted DEF TlsInv
  <2> QED
    BY <2>1, <2>2
<1>7. \A s : s \in DOMAIN sessions' <=> \E k \in Origins : tls[k] # 0 /\ s = tls[k]
  BY <1>5, <1>6
<1>8. SessionsAreOwned'
  BY <1>0, <1>5, <1>7, SessionsOwned
<1>9. SessionInv'
  BY <1>0, <1>6, <1>7 DEF TlsInv, SessionInv
<1> QED
  BY <1>6, <1>8, <1>9

-----------------------------------------------------------------------------
\* TlsClient: it is inductive, and what follows from it.

(* There is no context and no session at first. *)
LEMMA TlsInitInv == TlsClientInit => TlsInv
<1> SUFFICES ASSUME TlsClientInit
             PROVE  TlsInv
  OBVIOUS
<1>1. Init /\ wrapper = 0 /\ contexts = <<>> /\ sessions = <<>>
      /\ tls = [k \in Origins |-> 0] /\ newTls = 0 /\ ending = FALSE
  BY DEF TlsClientInit, TlsInit
<1>2. ClientInv
  BY <1>1, ClientInitInv
<1>3. DOMAIN contexts = {} /\ DOMAIN sessions = {}
  BY <1>1
<1>4. Typed(wrapper, contexts, sessions)
  BY <1>1, <1>3, FS_EmptySet DEF Typed
<1>5. \A c : HoldersOf(c, sessions) = {}
  BY <1>3 DEF HoldersOf
<1>6. ContextsAreCounted
  BY <1>1, <1>3, <1>4, <1>5, CountedIsCounted DEF Counted
<1>7. SessionsAreOwned
  BY <1>1, <1>3 DEF SessionsAreOwned
<1>8. SessionInv
  BY <1>1 DEF SessionInv, Init
<1> QED
  BY <1>2, <1>4, <1>6, <1>7, <1>8 DEF TlsInv

(* Each step of the client over its sessions keeps the invariant. *)
LEMMA TlsInvStep == TlsInv /\ [TlsClientNext]_clientTlsVars => TlsInv'
<1> SUFFICES ASSUME TlsInv, [TlsClientNext]_clientTlsVars
             PROVE  CountsNext /\ SessionsAreOwned' /\ SessionInv'
  BY ClientTakesStep, CountedNext DEF CountsNext, TlsInv
<1>1. CASE UNCHANGED clientTlsVars
  BY <1>1, CountedIsCounted
  DEF clientTlsVars, vars, tlsVars, ownerVars, CountsNext, TlsInv, SessionsAreOwned, SessionInv
<1>2. CASE ~ending /\ (ConnectedPlain \/ ConnectedTls \/ HandshakeDoneTls)
  BY <1>2, PlainStep, SessionStep, SecuredStep
<1>3. CASE ~ending /\ (ConnectFailsTls \/ HandshakeFailsTls)
  BY <1>3, FailedStep
<1>4. CASE /\ ~ending /\ FreeRemoved
           /\ \/ ExchangeStep \/ UserStep
              \/ \E k \in Origins : ServerStep(k) \/ BecomesIdle(k)
  BY <1>4, FreeRemovedStep
<1>5. CASE ~ending /\ EndClient
  <2>1. CountsNext /\ sessions' = sessions
    BY <1>5, EndStep, CountedIsCounted DEF EndClient, TlsInv
  <2>2. UNCHANGED <<phase, pool, req, tls, newTls>> /\ phase = "idle" /\ ending' = TRUE
    BY <1>5 DEF EndClient, vars
  <2> QED
    BY <2>1, <2>2 DEF TlsInv, SessionsAreOwned, SessionInv
<1>6. CASE EndEntries
  BY <1>6, EndEntriesStep
<1> QED
  BY <1>1, <1>2, <1>3, <1>4, <1>5, <1>6 DEF TlsClientNext, TlsClientStep, TlsServerStep

(* The client, its connections and their sessions are as they should be,   *)
(* whichever call of OpenSSL, connection or request fails, and whichever   *)
(* clients come and go.                                                    *)
THEOREM TlsInvariant == TlsClientSpec => []TlsInv
BY TlsInitInv, TlsInvStep, PTL DEF TlsClientSpec

(* No SSL_CTX and no SSL leaks or is freed too early.                      *)
THEOREM NothingIsLeaked == TlsClientSpec => []NothingLeaks
<1>1. TlsInv => NothingLeaks
  BY DEF TlsInv, NothingLeaks
<1> QED
  BY <1>1, TlsInvariant, PTL

(* A request is written to a connection to its own host and port, and for  *)
(* https on the session that verified the certificate of that host.        *)
THEOREM SentSecured == TlsClientSpec => []SecuredForItsHost
<1>1. TlsInv => SecuredForItsHost
  <2> SUFFICES ASSUME TlsInv
               PROVE  SecuredForItsHost
    OBVIOUS
  <2>1. SentToOrigin
    BY RequestsProperties DEF TlsInv
  <2>2. ASSUME phase \in {"send", "receive"}
        PROVE  IF req.origin.scheme = "https"
                 THEN /\ tls[using] \in DOMAIN sessions
                      /\ sessions[tls[using]].done
                      /\ sessions[tls[using]].host = req.origin.host
                 ELSE tls[using] = 0
    <3>1. using \in Origins /\ using = req.origin /\ pool[using] # None
      BY <2>2, UsingEntry, NoneAssumption DEF TlsInv, NoneAssumption
    <3>2. tls[using] # 0 => tls[using] \in DOMAIN sessions
      BY <3>1, OwnedSessions DEF TlsInv
    <3> QED
      BY <3>1, <3>2 DEF TlsInv, SessionInv
  <2> QED
    BY <2>1, <2>2 DEF SecuredForItsHost
<1> QED
  BY <1>1, TlsInvariant, PTL

(* The requests of a client that makes sessions are still those of         *)
(* HttpClient: bounded redirects, and credentials that stay home.          *)
THEOREM TlsRequestsBounded == TlsClientSpec => []RedirectsBounded
<1>1. TlsInv => RedirectsBounded
  BY RequestsProperties DEF TlsInv
<1> QED
  BY <1>1, TlsInvariant, PTL

(* A user's credentials go to their own host only, also over TLS. *)
THEOREM TlsCredentialsAreKept == TlsClientSpec => []CredentialsStayHome
<1>1. TlsInv => CredentialsStayHome
  BY RequestsProperties DEF TlsInv
<1> QED
  BY <1>1, TlsInvariant, PTL

=============================================================================
