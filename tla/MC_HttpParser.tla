--------------------------- MODULE MC_HttpParser ---------------------------
(***************************************************************************)
(* Instances of HttpParser for TLC: the responses servers send.            *)
(***************************************************************************)
EXTENDS HttpParser

CRLF == <<"CR", "LF">>
StatusPart == <<"status">> \o CRLF
Field(t) == <<t>> \o CRLF

\* A well-formed response: header fields, framed body, the body itself.
Good(fields, framed, b, f) ==
  [wire |-> StatusPart \o fields \o CRLF \o framed, body |-> b,
   wellFormed |-> TRUE, final |-> f, chunks |-> <<>>, segmented |-> TRUE]

Bad(w) == [wire |-> w, body |-> <<>>, wellFormed |-> FALSE, final |-> "error",
           chunks |-> <<>>, segmented |-> TRUE]

\* A chunked one, with the places where its chunks begin.
Chunked(fields, framed, b, c) == [Good(fields, framed, b, "complete") EXCEPT !.chunks = c]
At(p, f) == [at |-> p, from |-> f]

Chunk(size, b) == size \o CRLF \o b \o CRLF
LastChunk == <<"0">> \o CRLF \o CRLF

MCLengths == [t \in {"cl0", "cl2"} |-> IF t = "cl0" THEN 0 ELSE 2]
MCHexDigits == [t \in {"0", "1", "2"} |->
                  CASE t = "0" -> 0 [] t = "1" -> 1 [] t = "2" -> 2]

\* Bodies delimited by Content-Length or by the end of the connection; the
\* bytes of a body may be those of a line end or of a size. The last one has
\* a byte behind its body.
MCLengthResponses ==
  {Good(Field("cl2"), <<"x", "0">>, <<"x", "0">>, "complete"),
   Good(Field("plain") \o Field("cl2"), CRLF, CRLF, "complete"),
   Good(Field("cl0"), <<>>, <<>>, "complete"),
   Good(<<>>, <<"x">> \o CRLF, <<"x">> \o CRLF, "body_until_eof"),
   Bad(StatusPart \o Field("cl2") \o CRLF \o <<"x", "x", "x">>)}

\* Lines no server should send, and a header section without an end.
MCMalformedResponses ==
  {Bad(Field("junk")),
   Bad(StatusPart \o Field("junk")),
   Bad(StatusPart \o <<"plain", "plain", "plain", "plain", "plain">>),
   Bad(StatusPart \o Field("chunked") \o CRLF \o Field("x")),
   Bad(StatusPart \o Field("chunked") \o CRLF \o <<"2", "0">> \o CRLF),
   Bad(StatusPart \o Field("chunked") \o CRLF \o <<"1">> \o CRLF \o <<"x">>)}

\* Chunked bodies: two chunks, one with an extension; data that looks like a
\* size or a line end; the empty body.
MCChunkedResponses ==
  {Chunked(Field("chunked"),
           Chunk(<<"2">>, <<"x", "1">>) \o Chunk(<<"1", ";", "x">>, <<"0">>) \o LastChunk,
           <<"x", "1", "0">>, <<At(8, 0), At(15, 2), At(23, 3)>>),
   Chunked(Field("chunked") \o Field("cl2"),
           Chunk(<<"0", "2">>, CRLF) \o LastChunk, CRLF, <<At(11, 0), At(19, 2)>>),
   Chunked(Field("chunked"), LastChunk, <<>>, <<At(8, 0)>>)}

\* Chunked responses come in one piece.
Whole(R) == {[r EXCEPT !.segmented = FALSE] : r \in R}

MCResponses ==
  MCLengthResponses \union MCMalformedResponses \union Whole(MCChunkedResponses)
=============================================================================
