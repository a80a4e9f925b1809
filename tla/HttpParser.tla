----------------------------- MODULE HttpParser -----------------------------
(***************************************************************************)
(* vynx_http::http_parser: the incremental response parser. feed() appends *)
(* a segment to the buffer and then takes steps, one action each, until it *)
(* needs more data, has finished or has failed.                            *)
(*                                                                         *)
(* Bytes are tokens. A status or header line is a single token followed by *)
(* "CR" and "LF"; chunk sizes and bodies are sequences of byte tokens.     *)
(***************************************************************************)
EXTENDS Integers, Sequences

CONSTANTS
  Responses,        \* what servers send: the wire, the body it stands for,
                    \* whether it is well-formed, the state it leads to, where
                    \* its chunks begin, in the wire and in the body, and
                    \* whether TCP cuts it into segments or delivers it whole
  Lengths,          \* token of a Content-Length line -> its value
  HexDigits,        \* byte token that is a hex digit -> its value
  MaxHeader,        \* max_header_buffer
  MaxChunk          \* max_chunk_size

ASSUME ParserAssumption ==
  /\ \A r \in Responses : /\ r.wire \in Seq(STRING)
                          /\ r.body \in Seq(STRING)
                          /\ r.chunks \in Seq([at : Nat, from : Nat])
                          /\ r.wellFormed \in BOOLEAN
                          /\ r.segmented \in BOOLEAN
  /\ \A t \in DOMAIN Lengths : Lengths[t] \in Nat
  /\ \A t \in DOMAIN HexDigits : HexDigits[t] \in 0..15
  /\ MaxHeader \in Nat
  /\ MaxChunk \in Nat

VARIABLES
  state,            \* state_
  buffer,           \* buffer_
  body,             \* response_.body, also after it was released
  remaining,        \* body_remaining_
  chunked,          \* response_.is_chunked()
  contentLength,    \* response_.content_length(), -1 for none
  moved,            \* release_response() took the storage of response_.body
  feeding,          \* feed() is running
  hung,             \* byte_buffer::grow doubles a capacity of 0 for ever
  response,         \* the response on the wire
  sent              \* how many of its tokens were fed

headVars == <<chunked, contentLength, remaining>>
wireVars == <<response, sent>>
parserVars == <<state, buffer, body, headVars, moved, feeding, hung, wireVars>>

ParserInit ==
  /\ state = "status_line"
  /\ buffer = <<>>
  /\ body = <<>>
  /\ remaining = 0
  /\ chunked = FALSE
  /\ contentLength = -1
  /\ moved = FALSE
  /\ feeding = FALSE
  /\ hung = FALSE
  /\ response \in Responses
  /\ sent = 0

-----------------------------------------------------------------------------
\* Lines.

LineEnds == {p \in 1..Len(buffer) - 1 : buffer[p] = "CR" /\ buffer[p + 1] = "LF"}
HasLine == LineEnds # {}
LineEnd == CHOOSE p \in LineEnds : \A q \in LineEnds : p <= q
Line == SubSeq(buffer, 1, LineEnd - 1)
AfterLine == SubSeq(buffer, LineEnd + 2, Len(buffer))

\* buffer_.erase(0, n) on what is behind the line, or on the whole buffer.
Drop(s, n) == SubSeq(s, n + 1, Len(s))

(* parse_status_line and parse_header_line, as the lines they accept. *)
IsStatusLine(l) == l = <<"status">>
IsHeaderLine(l) ==
  Len(l) = 1 /\ l[1] \in {"chunked", "plain"} \union DOMAIN Lengths

(* The chunk size: std::from_chars takes the leading hex digits of what is *)
(* in front of an extension, and fails if there are none.                  *)
SizeDigits(l) ==
  CHOOSE k \in 0..Len(l) :
    /\ \A j \in 1..k : l[j] \in DOMAIN HexDigits
    /\ k = Len(l) \/ l[k + 1] \notin DOMAIN HexDigits

SizeOf(l) ==
  LET value[k \in 0..SizeDigits(l)] ==
        IF k = 0 THEN 0 ELSE 16 * value[k - 1] + HexDigits[l[k]]
  IN value[SizeDigits(l)]

IsSizeLine(l) == SizeDigits(l) > 0 /\ SizeOf(l) <= MaxChunk

-----------------------------------------------------------------------------
\* What a well-formed response is: a status line, k fields, an empty line, and
\* a body that is framed as the fields say. Each line takes three tokens.

FieldAt(r, i) == r.wire[3 * i + 1]

HasHead(r, k) ==
  /\ 3 * k + 5 <= Len(r.wire)
  /\ r.wire[1] = "status"
  /\ \A i \in 1..k : IsHeaderLine(<<FieldAt(r, i)>>)
  /\ \A i \in 0..k : r.wire[3 * i + 2] = "CR" /\ r.wire[3 * i + 3] = "LF"
  /\ r.wire[3 * k + 4] = "CR" /\ r.wire[3 * k + 5] = "LF"

IsChunked(r, k) == \E i \in 1..k : FieldAt(r, i) = "chunked"
IsFirstLength(r, k, i) ==
  /\ i \in 1..k
  /\ FieldAt(r, i) \in DOMAIN Lengths
  /\ \A j \in 1..i - 1 : FieldAt(r, j) \notin DOMAIN Lengths

\* A body as it is, up to its length or to the end of the connection.
HasPlainBody(r, k) ==
  /\ r.body = SubSeq(r.wire, 3 * k + 6, Len(r.wire))
  /\ r.final = IF \E i \in 1..k : IsFirstLength(r, k, i)
                 THEN "complete" ELSE "body_until_eof"
  /\ \A i \in 1..k : IsFirstLength(r, k, i) => Lengths[FieldAt(r, i)] = Len(r.body)

\* A chunk of n bytes: p tokens of the wire and f of the body are in front of
\* it, and its size line has l tokens.
IsChunk(r, p, f, l, n) ==
  /\ p + l + n + 4 <= Len(r.wire) /\ f + n <= Len(r.body)
  /\ \A q \in p + 1..p + l : ~(r.wire[q] = "CR" /\ r.wire[q + 1] = "LF")
  /\ r.wire[p + l + 1] = "CR" /\ r.wire[p + l + 2] = "LF"
  /\ LET line == SubSeq(r.wire, p + 1, p + l) IN IsSizeLine(line) /\ SizeOf(line) = n
  /\ \A i \in 1..n : r.body[f + i] = r.wire[p + l + 2 + i]
  /\ r.wire[p + l + n + 3] = "CR" /\ r.wire[p + l + n + 4] = "LF"

\* Chunks, and a last one of size 0.
HasChunks(r, k) ==
  /\ r.chunks # <<>> /\ r.chunks[1] = [at |-> 3 * k + 5, from |-> 0]
  /\ r.final = "complete"
  /\ \A j \in DOMAIN r.chunks : \E l \in 1..Len(r.wire), n \in 0..MaxChunk :
       LET p == r.chunks[j].at
           f == r.chunks[j].from
       IN  /\ IsChunk(r, p, f, l, n)
           /\ IF j < Len(r.chunks)
                THEN n > 0 /\ r.chunks[j + 1] = [at |-> p + l + n + 4, from |-> f + n]
                ELSE n = 0 /\ p + l + 4 = Len(r.wire) /\ f = Len(r.body)

(* A line without its last token is within the limit of the header buffer. *)
IsWellFormed(r, k) ==
  /\ MaxHeader >= 2
  /\ HasHead(r, k)
  /\ IF IsChunked(r, k) THEN HasChunks(r, k) ELSE HasPlainBody(r, k)

ASSUME WellFormedAssumption ==
  \A r \in Responses : r.wellFormed => \E k \in 0..Len(r.wire) : IsWellFormed(r, k)

-----------------------------------------------------------------------------
\* feed().

\* A way out of feed(): the caller sees the state s, unless feed() hangs.
ReturnOrHang(s) == state' = (IF hung' THEN state ELSE s) /\ feeding' = hung'
Return(s) == state' = s /\ feeding' = FALSE

Fail == Return("error") /\ UNCHANGED <<buffer, body, headVars, hung>>

(* Data for a parser that is complete or in error is dropped. *)
Feed(n) ==
  /\ ~feeding
  /\ ~hung
  /\ sent + n <= Len(response.wire)
  /\ response.segmented \/ n = Len(response.wire)
  /\ sent' = sent + n
  /\ IF state \in {"complete", "error"}
       THEN UNCHANGED <<buffer, feeding>>
       ELSE /\ buffer' = buffer \o SubSeq(response.wire, sent + 1, sent + n)
            /\ feeding' = TRUE
  /\ UNCHANGED <<state, body, headVars, moved, hung, response>>

\* Fault: the limit on the header section is not enforced.
NoLine_Unlimited ==
  /\ state \in {"status_line", "headers"}
  /\ ~HasLine
  /\ Return(state)
  /\ UNCHANGED <<buffer, body, headVars, hung>>

(* No complete line: wait for more, unless the limit is exceeded. *)
NoLine ==
  /\ state \in {"status_line", "headers"}
  /\ ~HasLine
  /\ IF Len(buffer) > MaxHeader
       THEN Fail
       ELSE Return(state) /\ UNCHANGED <<buffer, body, headVars, hung>>

StatusLine ==
  /\ state = "status_line"
  /\ HasLine
  /\ IF IsStatusLine(Line)
       THEN /\ buffer' = AfterLine
            /\ state' = "headers"
            /\ UNCHANGED <<body, headVars, feeding, hung>>
       ELSE Fail

\* content_length() reads the first Content-Length field.
HeaderLine ==
  /\ state = "headers"
  /\ HasLine
  /\ Line # <<>>
  /\ IF IsHeaderLine(Line)
       THEN /\ buffer' = AfterLine
            /\ chunked' = (chunked \/ Line[1] = "chunked")
            /\ contentLength' = IF Line[1] \in DOMAIN Lengths /\ contentLength = -1
                                  THEN Lengths[Line[1]] ELSE contentLength
            /\ UNCHANGED <<state, body, remaining, feeding, hung>>
       ELSE Fail

(* The empty line selects how the body is delimited. *)
EndOfHeaders ==
  /\ state = "headers"
  /\ HasLine
  /\ Line = <<>>
  /\ buffer' = AfterLine
  /\ state' = IF chunked THEN "body_chunked"
              ELSE IF contentLength # -1 THEN "body_raw" ELSE "body_until_eof"
  /\ remaining' = IF ~chunked /\ contentLength # -1 THEN contentLength ELSE remaining
  /\ UNCHANGED <<body, chunked, contentLength, feeding, hung>>

(* response_.body.write(): a byte_buffer without capacity never grows. *)
Write(n) ==
  /\ body' = IF moved /\ n > 0 THEN body ELSE body \o SubSeq(buffer, 1, n)
  /\ hung' = (moved /\ n > 0)

\* std::min(body_remaining_, buffer_.size()).
ToRead == IF remaining <= Len(buffer) THEN remaining ELSE Len(buffer)

(* process_body, Content-Length: what is there, but no more than is left.  *)
ReadRaw ==
  /\ state = "body_raw"
  /\ Write(ToRead)
  /\ buffer' = Drop(buffer, ToRead)
  /\ remaining' = remaining - ToRead
  /\ ReturnOrHang(IF remaining' = 0 THEN "complete" ELSE state)
  /\ UNCHANGED <<chunked, contentLength>>

(* process_body, chunked, one turn of its loop. *)
ChunkNoLine ==
  /\ state = "body_chunked"
  /\ ~HasLine
  /\ Return(state)
  /\ UNCHANGED <<buffer, body, headVars, hung>>

ChunkBadSize ==
  /\ state = "body_chunked"
  /\ HasLine
  /\ ~IsSizeLine(Line)
  /\ Fail

\* The final chunk; its CRLF is skipped if it is already there.
ChunkLast ==
  /\ state = "body_chunked"
  /\ HasLine
  /\ IsSizeLine(Line)
  /\ SizeOf(Line) = 0
  /\ buffer' = IF Len(AfterLine) >= 2 /\ SubSeq(AfterLine, 1, 2) = <<"CR", "LF">>
                 THEN Drop(AfterLine, 2) ELSE AfterLine
  /\ Return("complete")
  /\ UNCHANGED <<body, headVars, hung>>

\* The size line is consumed even if the data is not there yet.
ChunkIncomplete ==
  /\ state = "body_chunked"
  /\ HasLine
  /\ IsSizeLine(Line)
  /\ SizeOf(Line) > 0
  /\ Len(AfterLine) < SizeOf(Line) + 2
  /\ buffer' = AfterLine
  /\ Return(state)
  /\ UNCHANGED <<body, headVars, hung>>

\* Fault: the CRLF behind the data is not skipped.
ChunkWhole_KeepsCRLF ==
  /\ state = "body_chunked"
  /\ HasLine
  /\ IsSizeLine(Line)
  /\ SizeOf(Line) > 0
  /\ Len(AfterLine) >= SizeOf(Line) + 2
  /\ body' = body \o SubSeq(AfterLine, 1, SizeOf(Line))
  /\ buffer' = Drop(AfterLine, SizeOf(Line))
  /\ UNCHANGED <<state, headVars, feeding, hung>>

ChunkWhole ==
  /\ state = "body_chunked"
  /\ HasLine
  /\ IsSizeLine(Line)
  /\ SizeOf(Line) > 0
  /\ Len(AfterLine) >= SizeOf(Line) + 2
  /\ body' = IF moved THEN body ELSE body \o SubSeq(AfterLine, 1, SizeOf(Line))
  /\ hung' = moved
  /\ buffer' = IF moved THEN AfterLine ELSE Drop(AfterLine, SizeOf(Line) + 2)
  /\ UNCHANGED <<state, headVars, feeding>>

\* process_body, until the connection closes.
ReadUntilEof ==
  /\ state = "body_until_eof"
  /\ Write(Len(buffer))
  /\ buffer' = <<>>
  /\ ReturnOrHang(state)
  /\ UNCHANGED headVars

Step ==
  /\ feeding
  /\ ~hung
  /\ \/ NoLine \/ StatusLine \/ HeaderLine \/ EndOfHeaders
     \/ ReadRaw
     \/ ChunkNoLine \/ ChunkBadSize \/ ChunkLast \/ ChunkIncomplete \/ ChunkWhole
     \/ ReadUntilEof
  /\ UNCHANGED <<moved, wireVars>>

-----------------------------------------------------------------------------
\* The other operations.

(* release_response(), for a complete response. *)
ReleaseResponse ==
  /\ ~feeding
  /\ state = "complete"
  /\ ~moved
  /\ moved' = TRUE
  /\ UNCHANGED <<state, buffer, body, headVars, feeding, hung, wireVars>>

\* Fault: bytes of the last response stay in the buffer.
Reset_KeepsBuffer ==
  /\ ~feeding
  /\ ~hung
  /\ state' = "status_line"
  /\ body' = <<>>
  /\ remaining' = 0
  /\ chunked' = FALSE
  /\ contentLength' = -1
  /\ response' \in Responses
  /\ sent' = 0
  /\ UNCHANGED <<buffer, moved, feeding, hung>>

\* What reset() sets, and with it all that a new parser starts from.
Cleared ==
  /\ state' = "status_line"
  /\ buffer' = <<>>
  /\ body' = <<>>
  /\ remaining' = 0
  /\ chunked' = FALSE
  /\ contentLength' = -1
  /\ response' \in Responses
  /\ sent' = 0

(* reset(), for the next response. *)
Reset ==
  /\ ~feeding
  /\ ~hung
  /\ Cleared
  /\ UNCHANGED <<moved, feeding, hung>>

ParserNext ==
  \/ \E n \in 1..Len(response.wire) : Feed(n)
  \/ Step
  \/ ReleaseResponse
  \/ Reset

ParserSpec == ParserInit /\ [][ParserNext]_parserVars

(* feed() runs to its end. *)
FairParserSpec == ParserSpec /\ WF_parserVars(Step)

-----------------------------------------------------------------------------
\* Properties.

(* The variables of the parser have their types. *)
TypeOK ==
  /\ state \in {"status_line", "headers", "body_raw", "body_chunked",
                "body_until_eof", "complete", "error"}
  /\ buffer \in Seq(STRING)
  /\ body \in Seq(STRING)
  /\ remaining \in Nat
  /\ chunked \in BOOLEAN
  /\ contentLength \in Nat \union {-1}
  /\ moved \in BOOLEAN
  /\ feeding \in BOOLEAN
  /\ hung \in BOOLEAN
  /\ response \in Responses
  /\ sent \in 0..Len(response.wire)

(* Between two calls of feed() the buffer holds at most max_header_buffer  *)
(* bytes as long as the header section is incomplete.                      *)
HeaderBufferBounded ==
  (~feeding /\ state \in {"status_line", "headers"}) => Len(buffer) <= MaxHeader

PrefixOf(s, t) == Len(s) <= Len(t) /\ s = SubSeq(t, 1, Len(s))

(* However a well-formed response is cut into segments, the parser never   *)
(* rejects it and never holds a body that is not a prefix of its body.     *)
ParsesFaithfully ==
  response.wellFormed => state # "error" /\ PrefixOf(body, response.body)

(* Once the whole of a well-formed response has been fed, the parser is in *)
(* the state that response ends in, with exactly its body.                 *)
WholeIsParsed ==
  (response.wellFormed /\ sent = Len(response.wire) /\ ~feeding /\ ~hung)
    => state = response.final /\ body = response.body

(* "Response fully parsed" (http_parser.h, complete): no byte of the       *)
(* response is still to come, so that the connection is ready for the next *)
(* response.                                                               *)
CompleteIsWhole ==
  (response.wellFormed /\ state = "complete") => sent = Len(response.wire)

(* feed() reports the end of a response neither early nor late, and the    *)
(* body is then exactly the one that was sent.                             *)
CompleteAtItsEnd == WholeIsParsed /\ CompleteIsWhole

-----------------------------------------------------------------------------
\* What the documentation says and the code does not keep.

(* feed() returns, also after "Reset the parser for reuse" (http_parser.h) *)
(* of a parser whose response was released.                                *)
FeedReturns == feeding ~> ~feeding
=============================================================================
