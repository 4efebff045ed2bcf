------------------------------ MODULE Multipart ------------------------------
(***************************************************************************)
(* A multipart/form-data body, from the form to the bytes: the boundary    *)
(* drawn until it occurs in nothing the encoder can see, the header block  *)
(* of each part with its two escaped parameters, the declared length, and  *)
(* the stream that emits the parts.  chromulate/src/multipart.rs.          *)
(*                                                                         *)
(* Text is a sequence of tokens.  A boundary is one token (a run of text   *)
(* that may also stand in a name or in content), CR, LF and the quote are  *)
(* tokens, and so are their percent escapes; each counts as one byte.      *)
(***************************************************************************)
EXTENDS Naturals, Sequences, SequencesExt, FiniteSets

CONSTANTS None,
          Boundaries,   \* what draw_boundary may return
          Forms,        \* sequences of [name, file, mime, source]
          MaxLength     \* the largest length a u64 holds

VARIABLES body,   \* None, the error, or the encoded form as it is streamed
          sent    \* the frames the transport has taken

vars == <<body, sent>>

Breaks == {"\"", "CR", "LF"}

\* A line break in a name is normalised to one CRLF before it is escaped, in
\* a file name each byte is escaped for itself.
EscapeAt(value, i, slot) ==
  LET c == value[i]
  IN IF c = "\"" THEN <<"%22">>
     ELSE IF slot = "filename"
          THEN IF c = "CR" THEN <<"%0D">> ELSE IF c = "LF" THEN <<"%0A">> ELSE <<c>>
     ELSE IF c = "CR" THEN <<"%0D", "%0A">>
     ELSE IF c = "LF" THEN IF i > 1 /\ value[i - 1] = "CR" THEN <<>> ELSE <<"%0D", "%0A">>
     ELSE <<c>>

EscapeParameter(value, slot) == FlattenSeq([i \in DOMAIN value |-> EscapeAt(value, i, slot)])

\* The header lines of a part: Content-Type exactly with a file name.
HeaderBlock(part) ==
  <<"name=">> \o EscapeParameter(part.name, "name")
  \o (IF part.file = None THEN <<>> ELSE <<"filename=">> \o EscapeParameter(part.file, "filename"))
  \o <<"CRLF">>
  \o (IF part.file = None THEN <<>>
      ELSE <<"type=", IF part.mime = None THEN "octet-stream" ELSE part.mime, "CRLF">>)
  \o <<"CRLF">>

\* What of a part's content a boundary search can see.
Inspectable(source) == IF source.kind = "bytes" THEN source.content ELSE <<>>

SourceLength(source) == IF source.kind = "bytes" THEN Len(source.content) ELSE source.length

\* Mutant of Collides: only the contents are searched.
CollidesInContent(boundary, form) ==
  \E i \in DOMAIN form : Contains(Inspectable(form[i].source), boundary)

Collides(boundary, form) ==
  \E i \in DOMAIN form : \/ Contains(HeaderBlock(form[i]), boundary)
                         \/ Contains(Inspectable(form[i].source), boundary)

\* The delimiter and the headers of part i; the line break that ends the
\* content before it is folded in.
PartHead(form, i, boundary) ==
  (IF i = 1 THEN <<>> ELSE <<"CRLF">>) \o <<"--", boundary, "CRLF">> \o HeaderBlock(form[i])

Closing(form, boundary) ==
  (IF form = <<>> THEN <<>> ELSE <<"CRLF">>) \o <<"--", boundary, "--", "CRLF">>

CheckedAdd(a, b) == IF a = None \/ b = None THEN None
                    ELSE IF a + b > MaxLength THEN None ELSE a + b

TotalLength(form, boundary) ==
  CheckedAdd(FoldLeft(CheckedAdd, 0,
               FlattenSeq([i \in DOMAIN form |-> <<Len(PartHead(form, i, boundary)),
                                                   SourceLength(form[i].source)>>])),
             Len(Closing(form, boundary)))

(***************************************************************************)
(* Actions                                                                 *)
(***************************************************************************)
Unusable(form) == \E i \in DOMAIN form : form[i].mime = "unusable"

\* into_body: the first error a part collected, or a body whose boundary was
\* redrawn until nothing visible contains it.
Encode ==
  /\ body = None
  /\ \E form \in Forms :
       IF Unusable(form)
       THEN body' = [form |-> form, state |-> "refused"]
       ELSE \E boundary \in {b \in Boundaries : ~Collides(b, form)} :
              body' = [form |-> form, boundary |-> boundary,
                       length |-> TotalLength(form, boundary),
                       part |-> 0, rest |-> <<>>, state |-> "streaming"]
  /\ UNCHANGED sent

\* The chunks a source yields: its content at once, or the stream's own.
Chunks(source) == IF source.kind = "bytes" THEN <<source.content>> ELSE source.chunks

\* poll_next: the rest of the current part without its empty chunks, then the
\* head of the next part, then the closing delimiter.
Poll ==
  /\ body # None /\ body.state = "streaming"
  /\ LET rest == SelectSeq(body.rest, LAMBDA c : c # <<>>)
     IN IF rest # <<>>
        THEN IF rest[1] = <<"failed">>
             THEN body' = [body EXCEPT !.state = "failed"] /\ UNCHANGED sent
             ELSE /\ body' = [body EXCEPT !.rest = Tail(rest)]
                  /\ sent' = Append(sent, rest[1])
        ELSE IF body.part < Len(body.form)
        THEN /\ body' = [body EXCEPT !.part = @ + 1,
                                     !.rest = Chunks(body.form[body.part + 1].source)]
             /\ sent' = Append(sent, PartHead(body.form, body.part + 1, body.boundary))
        ELSE /\ body' = [body EXCEPT !.state = "sent"]
             /\ sent' = Append(sent, Closing(body.form, body.boundary))

Init == body = None /\ sent = <<>>

Next == Encode \/ Poll

Spec == Init /\ [][Next]_vars

(***************************************************************************)
(* Property                                                                *)
(***************************************************************************)
\* The bytes of part i as it was given, a stream's chunks joined.
Given(form, i) == FlattenSeq(Chunks(form[i].source))

\* A form on the wire is the form: no frame is empty; once it is sent, the
\* bytes are the delimited parts in order with their contents untouched; the
\* declared length is what was sent whenever every declared stream kept its
\* word, and is absent rather than wrapped when it cannot be held; the
\* boundary stands in the bytes once per delimiter unless a stream carried
\* it; and no quote or line break of a name or file name reaches a header
\* block (encode_with, header_block, FormStream).
FormArrives ==
  /\ \A i \in DOMAIN sent : sent[i] # <<>>
  /\ (body # None /\ body.state = "sent") =>
       LET form == body.form
           all == FlattenSeq(sent)
           Streamed(i) == form[i].source.kind = "stream"
           honest == \A i \in DOMAIN form : SourceLength(form[i].source) \in {None, Len(Given(form, i))}
       IN /\ all = FlattenSeq([i \in DOMAIN form |-> PartHead(form, i, body.boundary) \o Given(form, i)])
                   \o Closing(form, body.boundary)
          /\ (honest /\ body.length # None) => body.length = Len(all)
          /\ (body.length = None) =>
               \/ \E i \in DOMAIN form : SourceLength(form[i].source) = None
               \/ Len(all) > MaxLength \/ ~honest
          /\ (\A i \in DOMAIN form : Streamed(i) => ~Contains(Given(form, i), body.boundary)) =>
               Cardinality({i \in DOMAIN all : all[i] = body.boundary}) = Len(form) + 1
          /\ \A i \in DOMAIN form : ToSet(HeaderBlock(form[i])) \cap Breaks = {}
=============================================================================
