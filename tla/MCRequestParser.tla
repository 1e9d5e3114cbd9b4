-------------------------- MODULE MCRequestParser --------------------------
(* Instances of RequestParser for TLC: the bytes of some requests.         *)
EXTENDS RequestParser, SequencesExt

Copies(n, role) == [i \in 1..n |-> [role |-> role, n |-> 0]]
One(role, n) == << [role |-> role, n |-> n] >>

\* The n bytes of a body or a chunk.
Counted(n, role) == [i \in 1..n |-> [role |-> role, n |-> n - i]]

\* A query and a fragment count their "?" and "#".
Line(q) ==
  Copies(q.path, "path")
    \o (IF q.query = 0 THEN <<>> ELSE One("?", 0) \o Copies(q.query - 1, "query"))
    \o (IF q.frag = 0 THEN <<>> ELSE One("#", 0) \o Copies(q.frag - 1, "frag"))
    \o One("version", 0)

Headers(q) ==
  FlattenSeq([i \in DOMAIN q.headers |->
    Copies(q.headers[i][1], "name") \o One(":", 0) \o Copies(q.headers[i][2], "value")
      \o One("crlf", 0)])

\* One length, or the sizes of the chunks.
Body(q) ==
  IF q.chunked
    THEN One("end", Chunked)
           \o FlattenSeq([i \in DOMAIN q.body |->
                One("size", q.body[i]) \o One("line", q.body[i]) \o Counted(q.body[i], "data")
                  \o One("tail", 0)])
           \o One("zero", 0) \o One("close", 0)
    ELSE One("end", q.body[1]) \o Counted(q.body[1], "body")

Request(q) == Line(q) \o Headers(q) \o Body(q)

Plain == [path |-> 1, query |-> 0, frag |-> 0, headers |-> <<>>, chunked |-> FALSE, body |-> <<0>>]

\* Requests that differ in their line and headers.
Heads ==
  [path : {1, 2}, query : {0, 1, 3}, frag : {0, 2},
   headers : {<<>>, << <<1, 2>> >>, << <<2, 0>>, <<1, 1>> >>, << <<1, 1>>, <<2, 0>>, <<1, 2>> >>,
              << <<2, 1>>, <<1, 2>> >>},
   chunked : {FALSE}, body : {<<0>>}]

\* Requests that differ in their bodies.
Bodies ==
  {[Plain EXCEPT !.body = <<n>>] : n \in 1..4}
    \cup {[Plain EXCEPT !.chunked = TRUE, !.body = b] : b \in {<<>>, <<1>>, <<3>>, <<2, 1>>}}

\* What stops at a byte that is not HTTP.
Cut ==
  LET r == Request([Plain EXCEPT !.query = 2, !.frag = 2, !.headers = << <<2, 1>>, <<1, 2>> >>])
      bad == One("bad", 0)
  IN  {SubSeq(r, 1, n) \o bad \o Request(Plain) :
         n \in {k \in 0..Len(r) : k = 0 \/ Follows(r[k], bad[1])}}

MCStreams ==
  {Request(h) \o Request(Plain) : h \in Heads}
    \cup {Request(b) \o Request(c) : b \in Bodies, c \in {q \in Bodies : q.body \in {<<>>, <<2>>}}}
    \cup Cut
=============================================================================
