---------------------------- MODULE ResponseBody ----------------------------
(***************************************************************************)
(* How a response body is read: hyper's stream, the pool slot that travels *)
(* with an HTTP/1.1 body, the chain of content decoders with its expansion *)
(* guard, the deadline around them, and the three ways of reading: the     *)
(* whole body, the front of it up to a stopping point, or chunk by chunk.  *)
(* chromulate-http/src/body.rs, chromulate-compression, core's body.rs and *)
(* chromulate/src/response.rs.                                             *)
(*                                                                         *)
(* A page is a sequence of bytes.  Under content codings the wire carries  *)
(* a number of opaque bytes and each decoder (async-compression, external) *)
(* emits its output in chunks of any size once it has any input.           *)
(***************************************************************************)
EXTENDS Naturals, Sequences, SequencesExt, FiniteSets

CONSTANTS None,
          Pages,                \* the decoded bodies, as sequences of bytes
          Encodings,            \* the Content-Encoding token lists, None: no such header
          Compiled,             \* the codings whose cargo feature is enabled
          WireSizes,            \* how many bytes an encoded body takes on the wire
          InnerSizes,           \* how many bytes an inner decoder of two emits in all
          Reads,                \* [kind, marker, extra, budget]
          MaxContentCodings,    \* MAX_CONTENT_CODINGS
          MaxDecompressedSize,
          MaxRatio,
          MaxSize               \* the client's max_response_size

VARIABLES body,   \* None until the head arrives, then the stream and its wrappers
          read    \* what the caller asked for and has received

vars == <<body, read>>

Codings == {"gzip", "deflate", "br", "zstd", "identity"}

ParseCoding(token) == IF token = "x-gzip" THEN "gzip" ELSE IF token \in Codings THEN token ELSE None

\* The codings of a response, or None where the header cannot be honoured.
\* Only the token it fails at distinguishes the errors, all Error::Decode.
ParseContentEncoding(tokens) ==
  LET named == SelectSeq(tokens, LAMBDA t : t # "")
      parsed == [i \in DOMAIN named |-> ParseCoding(named[i])]
  IN IF Len(named) > MaxContentCodings \/ \E i \in DOMAIN named : parsed[i] = None
     THEN None ELSE parsed

\* decode_response: the last coding applied is undone first, identity builds
\* no decoder.  The first layer is the one that reads the wire.
Layers(codings) == SelectSeq(Reverse(codings), LAMBDA c : c # "identity")

\* The first match of `needle` that ends beyond byte `from` of `hay`: the byte
\* count up to and including it, None when there is none.
Find(hay, needle, from) ==
  LET ends == {e \in from + Len(needle)..Len(hay) :
                 SubSeq(hay, e - Len(needle) + 1, e) = needle}
  IN IF ends = {} THEN None ELSE CHOOSE e \in ends : \A f \in ends : e <= f

Smaller(a, b) == IF a < b THEN a ELSE b
Less(a, b) == IF a > b THEN a - b ELSE 0
Cut(buf, length) == SubSeq(buf, 1, Smaller(length, Len(buf)))

\* Mutant of MatchPoint: the scan starts at the new data, without the overlap.
ForgetfulMatchPoint(stop, buf, previous) ==
  IF stop.kind = "marker" THEN Find(buf, stop.marker, previous)
  ELSE IF stop.kind = "when" /\ Find(buf, stop.marker, 0) # None THEN Len(buf) ELSE None

\* match_point: where the condition matched, everything below `previous`
\* having been scanned.  A predicate is asked about every byte so far.
MatchPoint(stop, buf, previous) ==
  IF stop.kind = "marker" THEN Find(buf, stop.marker, Less(previous, Less(Len(stop.marker), 1)))
  ELSE IF stop.kind = "when" /\ Find(buf, stop.marker, 0) # None THEN Len(buf) ELSE None

\* bytes_until: the client's ceiling is a stopping point, not a failure.
Ceiling(stop) == IF stop.budget # None /\ stop.budget <= MaxSize THEN stop.budget ELSE MaxSize

Outcome(kind, bytes, complete) == [kind |-> kind, bytes |-> bytes, complete |-> complete]

\* The head of Stop::read's loop: the read stops at the target, or at the budget.
StopsAt(buf, target, budget) ==
  IF target # None /\ Len(buf) >= target THEN Outcome("Matched", Cut(buf, target), FALSE)
  ELSE IF Len(buf) >= budget THEN Outcome("Budget", Cut(buf, budget), FALSE)
  ELSE None

\* One chunk arrives at the caller.
Received(r, chunk) ==
  LET buf == r.buf \o chunk
      point == MatchPoint(r.stop, buf, Len(r.buf))
      budget == Ceiling(r.stop)
      target == IF r.target = None /\ point # None /\ point <= budget
                THEN Smaller(point + r.stop.extra, budget) ELSE r.target
  IN IF r.stop.kind = "collect"
     THEN IF Len(buf) > MaxSize THEN [r EXCEPT !.result = Outcome("BodyTooLarge", <<>>, FALSE)]
          ELSE [r EXCEPT !.buf = buf]
     ELSE IF r.stop.kind = "stream" THEN [r EXCEPT !.buf = buf]
     ELSE [r EXCEPT !.buf = buf, !.target = target, !.result = StopsAt(buf, target, budget)]

\* The stream ends at the caller.
Ended(r) ==
  [r EXCEPT !.result =
     IF r.stop.kind \in {"collect", "stream"} THEN Outcome("Ok", r.buf, TRUE)
     ELSE Outcome(IF r.target # None THEN "Matched" ELSE "EndOfBody", r.buf, TRUE)]

ErrorKinds == {"Body", "BodyTooLarge", "Decode", "Timeout"}

\* classify_io_error: an error of ours that came up through a decoder's reader
\* keeps its class, anything else is the decoder's own complaint.
ClassifyIoError(cause) == IF cause \in ErrorKinds THEN cause ELSE "Decode"

\* What the caller sees of an error that enters layer `layer` from below.
Surfacing(layer, cause) == IF layer > Len(body.layers) THEN cause ELSE ClassifyIoError(cause)

Failed(r, kind) == [r EXCEPT !.result = Outcome(kind, <<>>, FALSE)]

\* Dropping a body that holds a connection discards the connection.
Discard(b) == [b EXCEPT !.slot = IF @ = "held" THEN "discarded" ELSE @]

\* A read that has its result drops the body.
Settle(b, r) == /\ read' = r
                /\ body' = IF r.result = None THEN b ELSE Discard(b)

Live == body # None /\ read.result = None
Depth == Len(body.layers)

\* wrap_decoder: a layer without its cargo feature drops the stream below it.
Built == \A i \in DOMAIN body.layers : body.layers[i] \in Compiled

(***************************************************************************)
(* Actions                                                                 *)
(***************************************************************************)
Fresh(page, layers, wire, inner, slot, timed) ==
  [page |-> page, layers |-> layers, slot |-> slot, timed |-> timed,
   wire |-> IF layers = <<>> THEN Len(page) ELSE wire,
   size |-> [i \in DOMAIN layers |-> IF i = Len(layers) THEN Len(page) ELSE inner],
   taken |-> 0, counted |-> 0, ended |-> FALSE, cause |-> None,
   made |-> [i \in DOMAIN layers |-> 0], over |-> [i \in DOMAIN layers |-> FALSE]]

\* The head arrives, decode_response builds the chain and the caller starts
\* to read.  The slot is there on HTTP/1.1 only, the timer with a deadline.
Open ==
  /\ body = None
  /\ \E page \in Pages, tokens \in Encodings, wire \in WireSizes, inner \in InnerSizes,
        stop \in Reads, slot \in {"none", "held"}, timed \in BOOLEAN :
       LET codings == IF tokens = None THEN <<>> ELSE ParseContentEncoding(tokens)
           layers == IF codings = None THEN <<>> ELSE Layers(codings)
           fresh == Fresh(page, layers, wire, inner, slot, timed)
           asked == [stop |-> stop, buf |-> <<>>, target |-> None, result |-> None]
       IN /\ (layers = <<>>) => wire = CHOOSE w \in WireSizes : TRUE
          /\ (Len(layers) < 2) => inner = CHOOSE n \in InnerSizes : TRUE
          /\ IF codings = None
             THEN Settle([fresh EXCEPT !.cause = "Decode"], Failed(asked, "Decode"))
             ELSE Settle(fresh, IF stop.kind \in {"marker", "when", "after"}
                                THEN [asked EXCEPT !.result = StopsAt(<<>>, None, Ceiling(stop))]
                                ELSE asked)

\* hyper yields a chunk.  Without decoders it is the caller's chunk; with them
\* the stage that reads the wire counts it.
ReadWire ==
  /\ Live /\ Built /\ body.taken < body.wire
  /\ \E n \in 1..body.wire - body.taken :
       IF Depth = 0
       THEN Settle([body EXCEPT !.taken = @ + n],
                   Received(read, SubSeq(body.page, body.taken + 1, body.taken + n)))
       ELSE Settle([body EXCEPT !.taken = @ + n, !.counted = @ + n], read)

\* ReleasingStream: the end of hyper's stream gives the connection back.
WireEnds ==
  /\ Live /\ Built /\ ~body.ended /\ body.taken = body.wire
  /\ LET b == [body EXCEPT !.ended = TRUE,
                           !.slot = IF @ = "held" THEN "released" ELSE @]
     IN Settle(b, IF Depth = 0 THEN Ended(read) ELSE read)

\* The connection breaks: the slot goes, and the error travels up.
WireBreaks ==
  /\ Live /\ Built /\ ~body.ended
  /\ Settle([Discard(body) EXCEPT !.cause = "Body"], Failed(read, Surfacing(1, "Body")))

\* The bound on a layer's output: a multiple of the bytes off the wire.
RatioLimit(b) == MaxRatio * b.counted

\* check_limits, after a layer has emitted.
Exceeds(b, i) ==
  \/ b.made[i] > MaxDecompressedSize
  \/ b.counted > 0 /\ b.made[i] > RatioLimit(b)

\* Layer i emits a chunk, once something of its input has reached it.  The
\* guard drops a chunk that goes past a limit and reports BodyTooLarge.
Emit(i) ==
  /\ Built
  /\ IF i = 1 THEN body.taken > 0 ELSE body.made[i - 1] > 0
  /\ \E n \in 1..body.size[i] - body.made[i] :
       LET b == [body EXCEPT !.made[i] = @ + n]
       IN IF Exceeds(b, i)
          THEN Settle([b EXCEPT !.cause = "BodyTooLarge"],
                      Failed(read, Surfacing(i + 1, "BodyTooLarge")))
          ELSE Settle(b, IF i < Depth THEN read
                         ELSE Received(read, SubSeq(body.page, body.made[i] + 1, b.made[i])))

\* Layer i is through: the decoder has seen the end of its own format, which
\* need not be the end of its input.
Finish(i) ==
  /\ Built /\ ~body.over[i] /\ body.made[i] = body.size[i]
  /\ IF i = 1 THEN body.taken = body.wire ELSE body.made[i - 1] = body.size[i - 1]
  /\ Settle([body EXCEPT !.over[i] = TRUE], IF i = Depth THEN Ended(read) ELSE read)

\* What a layer meets that stops it: compressed data the decoder rejects, or
\* a coding whose feature is not in this build, reported at the first poll.
Reject(i) ==
  /\ Built \/ body.layers[i] \notin Compiled
  /\ LET raised == IF Built THEN ClassifyIoError("corrupt") ELSE "Decode"
     IN Settle([body EXCEPT !.cause = "Decode"], Failed(read, Surfacing(i + 1, raised)))

Decode == /\ Live
          /\ \E i \in DOMAIN body.layers : Emit(i) \/ Finish(i) \/ Reject(i)

\* BoundedStream: the deadline passes before the next chunk.
Expire == /\ Live /\ body.timed
          /\ Settle([body EXCEPT !.cause = "Timeout"], Failed(read, "Timeout"))

\* A caller reading the stream itself may drop it at any point.
Abandon == /\ Live /\ read.stop.kind = "stream"
           /\ Settle(body, [read EXCEPT !.result = Outcome("Dropped", read.buf, FALSE)])

Init == body = None /\ read = [result |-> None]

Next == Open \/ ReadWire \/ WireEnds \/ WireBreaks \/ Decode \/ Expire \/ Abandon

Spec == Init /\ [][Next]_vars

(***************************************************************************)
(* Properties                                                              *)
(***************************************************************************)
\* What reading `page` with a marker stop gives, said without chunks.
Promised(page, stop) ==
  LET budget == Ceiling(stop)
      first == Find(page, stop.marker, 0)
  IN IF budget > 0 /\ page # <<>> /\ first # None /\ first <= budget
     THEN [kind |-> "Matched", bytes |-> Cut(page, Smaller(first + stop.extra, budget))]
     ELSE IF Len(page) >= budget THEN [kind |-> "Budget", bytes |-> Cut(page, budget)]
     ELSE [kind |-> "EndOfBody", bytes |-> page]

\* A reader gets what the body says, whatever the chunks: a marker read has
\* one answer per page (a marker split over chunks is found, one past the
\* budget is not), a whole read has the whole page and no more than the limit,
\* an incomplete read is never called complete, and an error keeps the class
\* of what went wrong on its way through the decoders (Stop::read, collect,
\* classify_io_error).
ReadsHonest ==
  (body # None /\ read.result # None) =>
    LET got == read.result
    IN /\ got.kind \in {"Matched", "Budget", "EndOfBody", "Ok", "Dropped"} =>
            /\ IsPrefix(got.bytes, body.page)
            /\ got.complete => got.bytes = body.page
            /\ read.stop.kind = "marker" =>
                 [kind |-> got.kind, bytes |-> got.bytes] = Promised(body.page, read.stop)
            /\ read.stop.kind = "collect" => Len(got.bytes) <= MaxSize
       /\ got.kind \in {"Timeout", "Body", "Decode"} => got.kind = body.cause
       /\ (got.kind = "BodyTooLarge") =>
            body.cause = "BodyTooLarge" \/ Len(body.page) > MaxSize

\* What decoding may produce and what becomes of the connection: however many
\* codings a response stacks, no reader ever holds more than the absolute
\* limit or than the ratio times the bytes that came off the wire, and a
\* connection is pooled again only when its response was read to the end,
\* which an uncoded body read to its end always is (WireBytes, check_limits,
\* ReleasingStream).
DecodedWithinBounds ==
  body # None =>
    /\ body.layers # <<>> => /\ Len(read.buf) <= MaxDecompressedSize
                             /\ Len(read.buf) <= MaxRatio * body.taken
    /\ body.slot = "released" => body.ended /\ body.taken = body.wire
    /\ (read.result # None /\ read.result.complete /\ body.layers = <<>>) => body.slot # "discarded"
=============================================================================
