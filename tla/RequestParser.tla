--------------------------- MODULE RequestParser ---------------------------
(***************************************************************************)
(* The request parser of libebb (ebb_request_parser.rl) over a stream of   *)
(* pipelined requests that arrives in buffers cut anywhere, and what       *)
(* http.cc makes of its callbacks: the strings of the request line, the    *)
(* two lists of header names and values, the body and its end.             *)
(*                                                                         *)
(* A byte of the stream has a role, its place in the request as the client *)
(* means it.  The parser sees only the byte's kind, the classes the        *)
(* grammar tells apart.  The digits of a number are one byte, and so is    *)
(* the end of a line (no mark is set inside either).  Text is kept by      *)
(* position: a string is the sequence of the positions of its bytes in the *)
(* stream, a mark the position it points to.                               *)
(***************************************************************************)
EXTENDS Integers, Sequences

CONSTANT Streams   \* what a client may send

VARIABLES
  stream,     \* what the client sends
  pos,        \* p: how many bytes of it are parsed
  left,       \* pe - p: how many more are in the buffer at hand
  phase,      \* "idle", "parsing" a buffer, or "closed"
  cs,         \* the state of the machine; in the headers, the kind it took last
  mark,       \* for each element its mark, or NULL
  chunkSize, eating,
  chunked,    \* CURRENT->transfer_encoding is EBB_CHUNKED
  index,      \* CURRENT->number_of_headers
  from,       \* history: where the request begun last begins, or NULL
  got,        \* for each element the text given to its callback
  entries,    \* for each of the HttpRequest's lists where its entries begin
  body,       \* history: bytes given to on_body
  completed,  \* history: where on_complete was called
  torn,       \* history: a buffer ended inside a name or a value
  broken      \* the back of an empty list, or a name past the end, was used

vars == <<stream, pos, left, phase, cs, mark, chunkSize, eating, chunked, index,
          from, got, entries, body, completed, torn, broken>>

NULL == 0

-----------------------------------------------------------------------------
(* The grammar.                                                            *)

\* Request line and headers; "version" ends the line, "end" is the empty line.
InHead == {"path", "?", "query", "#", "frag", "version", "name", ":", "value", "crlf"}
Kinds == InHead \cup {"end", "size", "zero", "body", "bad"}

\* The kinds for which the machine has transitions.
After(state) ==
  CASE state = "start" -> {"path"}
    [] state = "path" -> {"path", "?", "#", "version"}
    [] state \in {"?", "query"} -> {"query", "#", "version"}
    [] state \in {"#", "frag"} -> {"frag", "version"}
    [] state \in {"version", "crlf"} -> {"name", "end"}
    [] state = "name" -> {"name", ":"}
    [] state \in {":", "value"} -> {"value", "crlf"}
    [] state \in {"line", "tail"} -> {"crlf"}
    [] state = "data" -> Kinds
    [] state = "size" -> {"size", "zero"}
    [] state = "last" -> {"end"}
    [] OTHER -> {}

\* The ends of lines around the data of a chunk, the data, and the end of the last
\* chunk are told from those of a header, of a body and of the headers by place.
Roles == Kinds \cup {"line", "data", "tail", "close"}

Kind(role) ==
  CASE role \in {"line", "tail"} -> "crlf"
    [] role = "data" -> "body"
    [] role = "close" -> "end"
    [] OTHER -> role

\* What the headers say of the body comes with the byte that ends them: its length,
\* or Chunked.  A size comes with its number, and so does the line it ends; a byte
\* of a body or a chunk, with the number of those that follow it there.
Chunked == -1

Bytes ==
  {b \in [role : Roles, n : Nat \cup {Chunked}] :
    /\ b.n = Chunked => b.role = "end"
    /\ b.role = "size" => b.n > 0
    /\ b.role = "zero" => b.n = 0}

Follows(a, b) ==
  \/ a.role \in InHead /\ b.role \in After(a.role)
  \/ a.role \in InHead \ {":", "value"} /\ b.role = "bad"
  \/ a.role = "bad"
  \/ a.role \in {"end", "body"} /\ a.n > 0 /\ b = [role |-> "body", n |-> a.n - 1]
  \/ a.role \in {"end", "body"} /\ a.n = 0 /\ b.role \in {"path", "bad"}
  \/ a.role = "end" /\ a.n = Chunked /\ b.role \in {"size", "zero"}
  \/ a.role = "size" /\ b = [role |-> "line", n |-> a.n]
  \/ a.role \in {"line", "data"} /\ a.n > 0 /\ b = [role |-> "data", n |-> a.n - 1]
  \/ a.role = "data" /\ a.n = 0 /\ b.role = "tail"
  \/ a.role = "tail" /\ b.role \in {"size", "zero"}
  \/ a.role = "zero" /\ b.role = "close"
  \/ a.role = "close" /\ b.role \in {"path", "bad"}

\* The client sends what the grammar accepts, or up to a byte that is not HTTP, and
\* may stop anywhere: whether the parser keeps in step with it is the question.
ASSUME StreamsAreRequests ==
  \A s \in Streams :
    /\ s \in Seq(Bytes)
    /\ s # <<>> => s[1].role \in {"path", "bad"}
    /\ \A p \in 1..(Len(s) - 1) : Follows(s[p], s[p + 1])

-----------------------------------------------------------------------------
(* The marked elements: a mark is set at the first of the bytes of these   *)
(* kinds, and the callback made at the first byte that is of none.         *)

Elements == {"uri", "path", "query", "frag", "name", "value"}
Lists == {"name", "value"}

Within == [e \in Elements |-> IF e = "uri" THEN {"path", "?", "query"} ELSE {e}]

NoMarks == [e \in Elements |-> NULL]

Init ==
  /\ stream \in Streams
  /\ pos = 0 /\ left = 0 /\ phase = "idle"
  /\ cs = "start"
  /\ mark = NoMarks
  /\ chunkSize = 0 /\ eating = FALSE
  /\ chunked = FALSE /\ index = 0
  /\ from = NULL
  /\ got = [e \in Elements |-> <<>>] /\ entries = [l \in Lists |-> <<>>]
  /\ body = <<>> /\ completed = <<>>
  /\ torn = FALSE /\ broken = FALSE

\* The positions from a to b.
Text(a, b) == [i \in 1..(b - a + 1) |-> a + i - 1]

\* Variant: header_index counts from 1.
IsThere(list) == Len(list) = index

\* on_header_field and on_header_value add to the last entry if there are
\* header_index - 1, and else make a new one.
IsBehind(list) == Len(list) = index - 1

\* The callbacks of the elements in S, with what is behind their marks.
Call(S) ==
  /\ got' = [e \in Elements |-> IF e \in S THEN got[e] \o Text(mark[e], pos) ELSE got[e]]
  /\ entries' = [l \in Lists |->
       IF l \in S /\ ~IsBehind(entries[l]) THEN Append(entries[l], mark[l]) ELSE entries[l]]
  /\ broken' = (broken \/ \E l \in S \cap Lists : entries[l] = <<>> /\ IsBehind(<<>>))

Marked == {e \in Elements : mark[e] # NULL}

\* Nothing is known of a process that broke.
Parsing == phase = "parsing" /\ ~broken

-----------------------------------------------------------------------------
(* The body.                                                               *)

\* END_REQUEST, at the byte at p.
EndRequest(p) == completed' = Append(completed, p)

\* Variant: a request ends with the byte after its body.
IsLate(size, n) == size < n

IsLast(size, n) == size = n

Lesser(a, b) == IF a < b THEN a ELSE b

\* skip_body: of the size bytes to come it takes the n that follow the first k of
\* those available.  An identity body ends its request.
SkipBody(available, k, size, n) ==
  /\ body' = body \o Text(pos + k + 1, pos + k + n)
  /\ pos' = pos + k + n
  /\ left' = available - k - n
  /\ chunkSize' = size - n
  /\ eating' = ~IsLast(size, n)
  /\ IF IsLast(size, n) /\ ~chunked' THEN EndRequest(pos + k + n) ELSE UNCHANGED completed

\* Variant: the marks stay in the buffer before.
Forgotten == NoMarks

\* Marks are set to the start of the new buffer.
Restarted == [e \in Elements |-> IF mark[e] = NULL THEN NULL ELSE pos + 1]

\* ebb_request_parser_execute is given a buffer of n bytes.  A body that is being
\* eaten takes its part first.
Read(n) ==
  /\ phase = "idle" /\ n <= Len(stream) - pos
  /\ phase' = "parsing"
  /\ mark' = Restarted
  /\ UNCHANGED chunked
  /\ IF chunkSize > 0 /\ eating
       THEN SkipBody(n, 0, chunkSize, Lesser(n, chunkSize))
       ELSE left' = n /\ UNCHANGED <<body, pos, chunkSize, eating, completed>>
  /\ UNCHANGED <<stream, cs, index, from, got, entries, torn, broken>>

\* The next byte is there, and is of a kind the machine takes here.
Byte == stream[pos + 1]
Sees(kinds) == Parsing /\ left > 0 /\ Kind(Byte.role) \in kinds \cap After(cs)

Take(kinds) == Sees(kinds) /\ pos' = pos + 1 /\ left' = left - 1

\* start_req: new_request makes an HttpRequest, which is CURRENT.
Start ==
  /\ cs = "start" /\ Take({"path"})
  /\ cs' = "path"
  /\ mark' = [e \in Elements |-> IF "path" \in Within[e] THEN pos + 1 ELSE NULL]
  /\ chunked' = FALSE /\ index' = 0
  /\ from' = pos + 1
  /\ got' = [e \in Elements |-> <<>>] /\ entries' = [l \in Lists |-> <<>>]
  /\ torn' = FALSE
  /\ UNCHANGED <<stream, phase, chunkSize, eating, body, completed, broken>>

\* A byte of the request line or of a header: the elements that do not go on with
\* it are told, those that begin with it are marked.
HeadByte ==
  /\ cs \in InHead /\ Take(InHead)
  /\ cs' = Kind(Byte.role)
  /\ mark' = [e \in Elements |->
       IF cs' \notin Within[e] THEN NULL
       ELSE IF cs \notin Within[e] THEN pos + 1 ELSE mark[e]]
  /\ Call({e \in Marked : cs' \notin Within[e]})
  /\ index' = IF cs' = "crlf" THEN index + 1 ELSE index
  /\ UNCHANGED <<stream, phase, chunkSize, eating, chunked, from, body, completed, torn>>

\* CreateJSObject walks both lists, to the end of the values.
NamesRunOut == Len(entries["value"]) > Len(entries["name"])

\* end_headers, and body_logic: an identity body starts behind this very byte.
HeadersEnd ==
  /\ cs \in InHead /\ Sees({"end"})
  /\ broken' = (broken \/ NamesRunOut)
  /\ chunked' = (Byte.n = Chunked)
  /\ IF chunked'
       THEN Take({"end"}) /\ cs' = "size" /\ UNCHANGED <<body, chunkSize, eating, completed>>
       ELSE SkipBody(left, 1, Byte.n, Lesser(left - 1, Byte.n)) /\ cs' = "start"
  /\ UNCHANGED <<stream, phase, mark, index, from, got, entries, torn>>

\* What surrounds the data of chunks: a size and its line, the line behind the
\* data, and the last chunk, of size 0, whose end ends the request.
Frame(state, kind, to) ==
  /\ cs = state /\ Take({kind})
  /\ cs' = to
  /\ chunkSize' = IF kind \in {"size", "zero"} THEN 16 * chunkSize + Byte.n ELSE chunkSize
  /\ IF kind = "end" THEN EndRequest(pos + 1) ELSE UNCHANGED completed
  /\ UNCHANGED <<stream, phase, mark, eating, chunked, index, from, got, entries, body,
                 torn, broken>>

ChunkFrame ==
  \/ Frame("size", "size", "line") \/ Frame("line", "crlf", "data")
  \/ Frame("tail", "crlf", "size")
  \/ Frame("size", "zero", "last") \/ Frame("last", "end", "start")

\* skip_chunk_data, on the first byte of the data, whatever it is.
ChunkData ==
  /\ cs = "data" /\ Sees(Kinds)
  /\ UNCHANGED chunked
  /\ SkipBody(left, 0, chunkSize, Lesser(chunkSize, left))
  /\ cs' = "tail"
  /\ UNCHANGED <<stream, phase, mark, index, from, got, entries, torn, broken>>

\* A byte that no transition takes: the machine goes no further.
Fail ==
  /\ Parsing /\ left > 0 /\ cs # "error"
  /\ Kind(Byte.role) \notin After(cs)
  /\ cs' = "error"
  /\ UNCHANGED <<stream, pos, left, phase, mark, chunkSize, eating, chunked, index, from,
                 got, entries, body, completed, torn, broken>>

\* The end of ebb_request_parser_execute: what is marked is told as far as it
\* goes.  After an error Connection::Parse closes the connection.
EndOfBuffer ==
  /\ Parsing /\ (left = 0 \/ cs = "error")
  /\ Call(Marked)
  /\ torn' = (torn \/ Marked \cap Lists # {})
  /\ phase' = IF cs = "error" \/ broken' THEN "closed" ELSE "idle"
  /\ UNCHANGED <<stream, pos, left, cs, mark, chunkSize, eating, chunked, index, from,
                 body, completed>>

Next ==
  \/ \E n \in 1..Len(stream) : Read(n)
  \/ Start \/ HeadByte \/ HeadersEnd \/ ChunkFrame \/ ChunkData \/ Fail \/ EndOfBuffer

Spec == Init /\ [][Next]_vars

-----------------------------------------------------------------------------
\* s lists the positions in S, in order.
Enumerates(s, S) ==
  /\ {s[i] : i \in DOMAIN s} = S
  /\ \A i, j \in DOMAIN s : i < j => s[i] < s[j]

Role(p) == stream[p].role

\* on_headers_complete was called for the request begun last.
Told == from # NULL /\ cs \notin InHead \cup {"error"}

\* However the stream is cut into buffers, JavaScript gets path, query, fragment
\* and uri as they were sent, and no byte of a header's name or value is lost,
\* doubled, or put before another.
TextIsKept ==
  Told => \A e \in Elements : Enumerates(got[e], {p \in from..pos : Role(p) \in Within[e]})

\* No value in the request is empty.
NoneEmpty == \A p \in from..pos : Role(p) = "crlf" => Role(p - 1) = "value"

Begins(l) == {p \in from..pos : Role(p) = l /\ Role(p - 1) # l}

\* The headers are those sent, each value under its name, provided that no buffer
\* ended inside a name or a value and that no value is empty.  (Otherwise names
\* and values come apart: on_header_field and on_header_value count from 1,
\* number_of_headers from 0, and an empty value is never told.)
HeadersAsSent ==
  from # NULL /\ ~torn /\ NoneEmpty =>
    /\ ~broken
    /\ Told =>
         /\ \A l \in Lists : Enumerates(entries[l], Begins(l))
         /\ Len(entries["name"]) = Len(entries["value"])
         /\ \A i \in DOMAIN entries["name"] :
              \A p \in entries["name"][i]..entries["value"][i] : Role(p) \in {"name", ":", "value"}

\* The parser keeps in step with the client: it takes every byte of a body, and
\* no other, for the body, wherever the buffers are cut and however the lengths
\* are given, and fails only at a byte that is not HTTP.
KeepsInStep ==
  /\ Enumerates(body, {p \in 1..pos : Role(p) \in {"body", "data"}})
  /\ cs = "error" => Byte.role = "bad"

\* Where a request ends.
Ends(b) == b.role = "close" \/ (b.role \in {"end", "body"} /\ b.n = 0)

\* Every request is completed once, in order, when its body has been given in
\* full and not a byte later.
CompletedInTime == Enumerates(completed, {p \in 1..pos : Ends(stream[p])})

-----------------------------------------------------------------------------
(* The inductive invariant: the state of the parser, by the last byte.     *)

TypeOK ==
  /\ stream \in Streams
  /\ pos \in 0..Len(stream) /\ left \in Nat
  /\ phase \in {"idle", "parsing", "closed"}
  /\ cs \in InHead \cup {"start", "size", "line", "data", "tail", "last", "error"}
  /\ mark \in [Elements -> Nat]
  /\ chunkSize \in Nat /\ eating \in BOOLEAN /\ chunked \in BOOLEAN
  /\ index \in Nat /\ from \in 0..pos
  /\ got \in [Elements -> Seq(Nat)] /\ entries \in [Lists -> Seq(Nat)]
  /\ body \in Seq(Nat) /\ completed \in Seq(Nat)
  /\ torn \in BOOLEAN /\ broken \in BOOLEAN

StateAfter(b) ==
  CASE b.role \in InHead -> b.role
    [] b.role = "end" /\ b.n = Chunked -> "size"
    [] b.role = "size" -> "line"
    [] b.role = "line" -> "data"
    [] b.role = "data" -> "tail"
    [] b.role = "tail" -> "size"
    [] b.role = "zero" -> "last"
    [] OTHER -> "start"

IsCounted(b) == b.role \in {"end", "body", "size", "line", "data"} /\ b.n # Chunked
IsOfChunks(b) == b.role \in {"size", "line", "data", "tail", "zero"} \/ b.n = Chunked

\* The machine is where the last byte leaves it, with what is to come of the body.
StateFits(b) ==
  /\ b.role # "bad"
  /\ cs \in {StateAfter(b), "error"}
  /\ chunkSize = IF IsCounted(b) THEN b.n ELSE 0
  /\ eating <=> b.role \in {"end", "body", "data"} /\ b.n > 0
  /\ IsOfChunks(b) => chunked
  /\ b.role \in {"end", "body"} /\ b.n # Chunked => ~chunked

InStep ==
  /\ pos = 0 => cs \in {"start", "error"} /\ chunkSize = 0 /\ ~eating
  /\ pos > 0 => StateFits(stream[pos]) /\ from > 0 /\ Role(from) = "path"
  /\ cs = "error" => phase # "idle" /\ pos < Len(stream) /\ Role(pos + 1) = "bad"
  /\ phase = "parsing" => left <= Len(stream) - pos
  /\ phase = "parsing" /\ eating => left = 0

\* An element is marked while the machine is within it.
Pending(e) == phase = "parsing" /\ mark[e] # NULL

MarksFit ==
  \A e \in Elements :
    /\ mark[e] # NULL <=> pos > 0 /\ Role(pos) \in Within[e]
    /\ Pending(e) => mark[e] \in from..(pos + 1) /\ \A p \in mark[e]..pos : Role(p) \in Within[e]

\* Its callback has been given all that is before the mark.
Given(e) == IF Pending(e) THEN mark[e] - 1 ELSE pos

TextIsGiven ==
  from # NULL =>
    \A e \in Elements : Enumerates(got[e], {p \in from..Given(e) : Role(p) \in Within[e]})

\* The lists grow in step with the count of the headers, a name's entry first.
Named == IF Role(pos) \in {":", "value"} THEN index + 1 ELSE index
EndOf(i) == IF i > index THEN pos ELSE entries["value"][i]

ListsFit ==
  /\ ~broken
  /\ Len(entries["value"]) = index /\ Len(entries["name"]) = Named
  /\ \A l \in Lists :
       /\ mark[l] # NULL => phase = "parsing" /\ mark[l] \in Begins(l)
       /\ Enumerates(entries[l], Begins(l) \ {mark[l]})
  /\ \A i \in 1..Named : \A p \in entries["name"][i]..EndOf(i) : Role(p) \in {"name", ":", "value"}

HeadersInStep == from # NULL /\ ~torn /\ NoneEmpty => ListsFit

IInv ==
  /\ TypeOK /\ InStep /\ MarksFit /\ TextIsGiven /\ HeadersInStep
  /\ KeepsInStep /\ CompletedInTime
=============================================================================
