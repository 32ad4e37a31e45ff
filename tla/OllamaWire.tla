----------------------------- MODULE OllamaWire -----------------------------
(***************************************************************************)
(* How the response of the local model server is taken off the socket      *)
(* (agent_runtime/ollama_model.py: _receive_http_response,                 *)
(* _decode_chunked_body).  The body comes in pieces of any size, framed by *)
(* chunks, by its declared length or by the end of the connection; after   *)
(* each piece the whole of what came so far is decoded again.  Places are  *)
(* counted from 0, as in the code, and a negative one from the back.  A    *)
(* chunk's size is whatever int(line, 16) reads, a negative number too.    *)
(***************************************************************************)
EXTENDS Integers, Sequences, SequencesExt, FiniteSetsExt

CONSTANTS MaxBody,    \* bytes a body may have
          MaxOverhead,\* bytes beyond them that framing may take
          MaxSizeLine,\* bytes of a chunk's size, its extension left off
          WireSize    \* bound: the parts of a wire that is not a message

VARIABLES framing,  \* what the headers declare
          wire,     \* the body the server sends before it closes
          got,      \* the bytes of it received, or Nothing
          outcome   \* "reading", a body, or how the request failed

vars == <<framing, wire, got, outcome>>

\* "z" is a byte of data, of a trailer or of an extension, and no digit.
Digits == [d \in {"0", "1", "2", "6"} |->
              CASE d = "0" -> 0 [] d = "1" -> 1 [] d = "2" -> 2 [] d = "6" -> 6]
Bytes == DOMAIN Digits \cup {"-", "x", "_", ";", "z", "\r", "\n"}
Blanks == {"\r", "\n"}
LineEnd == <<"\r", "\n">>
Nothing == -1

Reading == <<"reading", 0>>
Body(n) == <<"body", n>>
Malformed == <<"malformed", 0>>
Endless == <<"endless", 0>>
Late == <<"late", 0>>

\* A chunked message: chunks of the sizes ns, each with the extension, the last
\* chunk, t trailer lines.
Digit(n) == CHOOSE d \in DOMAIN Digits : Digits[d] = n
Sizes == 0 .. 2
Size(n) == <<Digit(n)>> \o LineEnd
Extensions == {<<>>, <<";", "z">>}
Chunk(n, ext) == <<Digit(n)>> \o ext \o LineEnd \o [i \in 1 .. n |-> "z"] \o LineEnd
Chunks(ns, ext) == FlattenSeq([i \in DOMAIN ns |-> Chunk(ns[i], ext)])
Text == <<"z">>
Trailer == Text \o LineEnd
Message(ns, ext, t) ==
    Chunks(ns, ext) \o Size(0) \o FlattenSeq([i \in 1 .. t |-> Trailer]) \o LineEnd
Total(ns) == FoldSeq(LAMBDA n, sum : n + sum, 0, ns)
Chunkings == BoundedSeq(Sizes \ {0}, 2)
Messages == {Message(ns, ext, t) : ns \in Chunkings, ext \in Extensions, t \in 0 .. 1}

\* Sizes in other spellings, and what is no size.
Spellings == {<<"0", "x", "_", "1">>, <<"-", "2", "\r">>, <<"-", "6">>,
              <<"0", "0", "0", "0", "1">>, <<";", "z">>}
Parts == {Size(n) : n \in Sizes} \cup {line \o LineEnd : line \in Spellings} \cup {Text, LineEnd}

Wires == {FlattenSeq(parts) : parts \in BoundedSeq(Parts, WireSize)}
            \cup Messages \cup {m \o part : m \in Messages, part \in Parts}

Framings == {[kind |-> "chunked", length |-> 0], [kind |-> "close", length |-> 0],
             [kind |-> "refused", length |-> 0]}
                \cup {[kind |-> "length", length |-> n] : n \in 0 .. MaxBody + 1}

TypeOK ==
    /\ framing \in Framings
    /\ wire \in Seq(Bytes)
    /\ got \in Nothing .. Len(wire)
    /\ outcome \in {Reading, Malformed, Endless, Late} \cup {Body(n) : n \in 0 .. MaxBody}

Init ==
    /\ framing \in Framings
    /\ wire \in IF framing.kind = "chunked" THEN Wires ELSE BoundedSeq({"z"}, MaxBody + 2)
    /\ got = Nothing
    /\ outcome = Reading

-----------------------------------------------------------------------------
(* Decoding *)

\* payload[i:j], and whether it is part.
Index(payload, i) == IF i < 0 THEN Max({0, Len(payload) + i}) ELSE Min({i, Len(payload)})
Slice(payload, i, j) == SubSeq(payload, Index(payload, i) + 1, Index(payload, j))
At(payload, i, part) == Slice(payload, i, i + Len(part)) = part

\* payload.find(part, i): the places at which it occurs, of which the first counts.
Found(payload, i, part) == {k \in i .. Len(payload) - Len(part) : At(payload, k, part)}

\* int(line, 16): a number, or None for what is none.  Blanks around it, a sign,
\* the prefix 0x and single underscores between digits say nothing.
NumberOf(line) ==
    LET text == {i \in DOMAIN line : line[i] \notin Blanks}
        trimmed == IF text = {} THEN <<>> ELSE SubSeq(line, Min(text), Max(text))
        negative == IsPrefix(<<"-">>, trimmed)
        unsigned == IF negative THEN Tail(trimmed) ELSE trimmed
        prefixed == IsPrefix(<<"0", "x">>, unsigned)
        digits == IF prefixed THEN SubSeq(unsigned, 3, Len(unsigned)) ELSE unsigned
        value == FoldLeft(LAMBDA sum, d : IF d = "_" THEN sum ELSE 16 * sum + Digits[d], 0, digits)
    IN IF /\ digits # <<>> /\ Last(digits) # "_"
          /\ \A i \in DOMAIN digits : digits[i] \in DOMAIN Digits \cup {"_"}
          /\ \A i \in DOMAIN digits :
                digits[i] = "_" => IF i = 1 THEN prefixed ELSE digits[i - 1] # "_"
       THEN <<IF negative THEN -value ELSE value>> ELSE <<>>

\* The size a line states before its extension, in <<>>: none if it is refused.
SizeOf(line) ==
    LET stated == SubSeq(line, 1, Min({i \in DOMAIN line : line[i] = ";"} \cup {Len(line) + 1}) - 1)
    IN IF stated = <<>> \/ Len(stated) > MaxSizeLine THEN <<>> ELSE NumberOf(stated)

\* Mutant: an empty line after the last chunk ends the message, whatever follows.
LastChunkAnyway(payload, p) ==
    IF At(payload, p, LineEnd) \/ Found(payload, p, LineEnd \o LineEnd) # {}
    THEN Body(0) ELSE Reading

\* The trailers after the last chunk end with an empty line; nothing follows it.
LastChunk(payload, p) ==
    LET blank == Found(payload, p, LineEnd \o LineEnd)
    IN CASE At(payload, p, LineEnd) -> IF Len(payload) = p + 2 THEN Body(0) ELSE Malformed
         [] ~At(payload, p, LineEnd) /\ blank # {} ->
                IF Len(payload) = Min(blank) + 4 THEN Body(0) ELSE Malformed
         [] OTHER -> Reading

\* _decode_chunked_body: the data of the chunks from position p on, with room
\* for left more bytes.  A negative size leads back; more chunks in turn without
\* data than there are places are read again and again.
DecodeChunks(payload) ==
    LET places == 0 .. Len(payload)
        From[p \in places, left \in -Len(payload) .. MaxBody, dry \in 0 .. Len(payload) + 2] ==
          LET lines == Found(payload, p, LineEnd)
              size == SizeOf(Slice(payload, p, Min(lines)))
              n == size[1]
              begin == Min(lines) + 2
              end == begin + n
              data == Len(Slice(payload, begin, end))
              rest == From[Index(payload, end) + 2, left - data, IF data = 0 THEN dry + 1 ELSE 0]
          IN IF left < 0 THEN Malformed
             ELSE IF dry > Len(payload) + 1 THEN Endless
             ELSE IF lines = {} THEN Reading
             ELSE IF size = <<>> THEN Malformed
             ELSE IF n = 0 THEN LastChunk(payload, begin)
             ELSE IF end + 2 > Len(payload) THEN Reading
             ELSE IF ~At(payload, end, LineEnd) THEN Malformed
             ELSE IF rest[1] = "body" THEN Body(data + rest[2]) ELSE rest
    IN From[0, MaxBody, 0]

Chunked(payload) ==
    LET decoded == DecodeChunks(payload)
    IN IF decoded = Reading /\ Len(payload) > MaxBody + MaxOverhead THEN Malformed ELSE decoded

\* A declared length is met exactly.
OfLength(payload, n) ==
    CASE n > MaxBody -> Malformed
      [] Len(payload) > n -> Malformed
      [] Len(payload) = n -> Body(n)
      [] OTHER -> Reading

\* _receive_http_response with the headers and this much of the body.
Received(payload) ==
    CASE framing.kind = "refused" -> Malformed
      [] framing.kind = "chunked" -> Chunked(payload)
      [] framing.kind = "length" -> OfLength(payload, framing.length)
      [] framing.kind = "close" -> IF Len(payload) > MaxBody THEN Malformed ELSE Reading

-----------------------------------------------------------------------------
(* Actions *)

\* recv returns some of what the server sent; the first piece may hold no
\* more than the headers.
Receive ==
    /\ outcome = Reading
    /\ \E n \in got + 1 .. Len(wire) :
          /\ got' = n
          /\ outcome' = Received(SubSeq(wire, 1, n))
    /\ UNCHANGED <<framing, wire>>

\* recv returns nothing: the server closed the connection.
Closed ==
    /\ outcome = Reading
    /\ got = Len(wire)
    /\ outcome' = IF framing.kind = "close" THEN Body(got) ELSE Malformed
    /\ UNCHANGED <<framing, wire, got>>

\* The one deadline of the request passes while it waits.
Deadline ==
    /\ outcome = Reading
    /\ outcome' = Late
    /\ UNCHANGED <<framing, wire, got>>

Next == Receive \/ Closed \/ Deadline

Spec == Init /\ [][Next]_vars

-----------------------------------------------------------------------------
(* Properties *)

Taken == SubSeq(wire, 1, got)

\* What may follow the last chunk: lines, none of them empty, and an empty one.
Closes(tail) == tail = LineEnd \/ Found(tail, 0, LineEnd \o LineEnd) = {Len(tail) - 4}

\* A chunk of n bytes: a line that states n, n bytes, and the end of a line.
Line(part) == Slice(part, 0, Min(Found(part, 0, LineEnd) \cup {Len(part)}))
IsChunk(part, n) ==
    /\ SizeOf(Line(part)) = <<n>> /\ n > 0
    /\ Len(part) = Len(Line(part)) + 2 + n + 2 /\ At(part, Len(part) - 2, LineEnd)
IsEnd(part) ==
    SizeOf(Line(part)) = <<0>> /\ Closes(Slice(part, Len(Line(part)) + 2, Len(part)))

\* The bytes of data in the sequences of chunks of which the first i bytes consist.
Sums[i \in 0 .. Len(Taken)] ==
    IF i = 0 THEN {0}
    ELSE UNION {{sum + c[2] : sum \in Sums[c[1]]} :
                   c \in {d \in (0 .. i - 1) \X (1 .. MaxBody) : IsChunk(Slice(Taken, d[1], i), d[2])}}

\* A body is returned only if what was received is exactly one message of the
\* declared framing, and it is that message's data: no piece boundary makes a
\* part of a response, or one with something after it, look whole.  Without a
\* negative size, that is, of which the code makes what it can.
BodyIsWhole ==
    outcome[1] = "body" =>
        CASE framing.kind = "chunked" ->
                \/ \E i \in 1 .. got : Taken[i] = "-"
                \/ \E i \in 0 .. got : outcome[2] \in Sums[i] /\ IsEnd(Slice(Taken, i, got))
          [] framing.kind = "length" -> Len(Taken) = framing.length
          [] OTHER -> Taken = wire

\* Decoding ends, again without a negative size.
DecodingEnds == outcome = Endless => \E i \in 1 .. got : Taken[i] = "-"

\* A message within the limits is never refused, however it is cut into
\* pieces: decoding a part of it waits for more.
MessageIsTaken ==
    framing.kind = "chunked" /\ outcome \in {Malformed, Endless} =>
        ~\E ns \in Chunkings, ext \in Extensions, t \in 0 .. 1 :
            /\ wire = Message(ns, ext, t)
            /\ Total(ns) <= MaxBody
            /\ Len(wire) <= MaxBody + MaxOverhead
=============================================================================
