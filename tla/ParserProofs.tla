---------------------------- MODULE ParserProofs ----------------------------
(***************************************************************************)
(* For any streams of requests, of any length, in buffers cut anywhere:    *)
(* the text, the headers, the body and its end are those that were sent.   *)
(***************************************************************************)
EXTENDS RequestParser, SequenceTheorems, NumberFacts, TLAPS

-----------------------------------------------------------------------------
(* Sequences that enumerate sets of positions.                             *)

\* The empty sequence enumerates the empty set.
LEMMA EnumEmpty == <<>> \in Seq(Nat) /\ Enumerates(<<>>, {})
BY EmptySeq, LenProperties DEF Enumerates

\* Text is the sequence of its positions.
LEMMA TextIsSeq ==
  ASSUME NEW a \in Nat, NEW b \in Nat, a <= b + 1
  PROVE  /\ Text(a, b) \in Seq(Nat) /\ Len(Text(a, b)) = b - a + 1
         /\ \A i \in 1..(b - a + 1) : Text(a, b)[i] = a + i - 1
<1> DEFINE n == b - a + 1
<1>1. n \in Nat
  OBVIOUS
<1>2. Text(a, b) \in [1..n -> Nat] /\ \A i \in 1..n : Text(a, b)[i] = a + i - 1
  BY DEF Text
<1>3. Text(a, b) \in Seq(Nat)
  BY <1>1, <1>2, SeqDef
<1>4. Len(Text(a, b)) = n
  <2>1. Len(Text(a, b)) \in Nat /\ DOMAIN Text(a, b) = 1..Len(Text(a, b)) /\ DOMAIN Text(a, b) = 1..n
    BY <1>2, <1>3, LenProperties
  <2> QED BY <1>1, <2>1, SameLength
<1> QED BY <1>2, <1>3, <1>4

\* What enumerates S goes on with the positions behind S.
LEMMA EnumText ==
  ASSUME NEW s \in Seq(Nat), NEW S, Enumerates(s, S), NEW a \in Nat, NEW b \in Nat, a <= b + 1,
         \A p \in S : p < a
  PROVE  s \o Text(a, b) \in Seq(Nat) /\ Enumerates(s \o Text(a, b), S \cup a..b)
<1> DEFINE n == b - a + 1
           t == s \o Text(a, b)
           L == Len(s)
<1>1. n \in Nat /\ L \in Nat /\ DOMAIN s = 1..L /\ \A i \in 1..L : s[i] \in Nat
  BY LenProperties, ElementOfSeq
<1>2. /\ Text(a, b) \in Seq(Nat) /\ Len(Text(a, b)) = n
      /\ \A i \in 1..n : Text(a, b)[i] = a + i - 1
  BY TextIsSeq
<1>3. /\ t \in Seq(Nat) /\ Len(t) = L + n
      /\ \A i \in 1..(L + n) : t[i] = IF i <= L THEN s[i] ELSE Text(a, b)[i - L]
  <2> HIDE DEF n
  <2> QED BY <1>2, ConcatProperties
<1>4. DOMAIN t = 1..(L + n)
  BY <1>3, LenProperties
<1>5. \A i \in 1..L : i \in 1..(L + n) /\ t[i] = s[i]
  BY <1>1, <1>3
<1>6. \A i \in (L + 1)..(L + n) : i \in 1..(L + n) /\ t[i] = a + (i - L) - 1
  BY <1>1, <1>2, <1>3
<1>7. \A i \in 1..(L + n) : i \in 1..L \/ i \in (L + 1)..(L + n)
  BY <1>1
<1>8. \A i \in 1..L : s[i] \in S
  BY <1>1 DEF Enumerates
<1>9. {t[i] : i \in 1..(L + n)} = S \cup a..b
  <2>1. \A i \in (L + 1)..(L + n) : a + (i - L) - 1 \in a..b
    BY <1>1
  <2>2. \A i \in 1..(L + n) : t[i] \in S \cup a..b
    BY <1>5, <1>6, <1>7, <1>8, <2>1
  <2>3. ASSUME NEW p \in S PROVE \E i \in 1..(L + n) : t[i] = p
    <3>1. PICK i \in 1..L : s[i] = p
      BY <1>1 DEF Enumerates
    <3> QED BY <1>5, <3>1
  <2>4. ASSUME NEW p \in a..b PROVE \E i \in 1..(L + n) : t[i] = p
    <3>1. L + (p - a + 1) \in (L + 1)..(L + n) /\ a + ((L + (p - a + 1)) - L) - 1 = p
      BY <1>1
    <3> QED BY <1>6, <3>1
  <2> HIDE DEF t, n, L
  <2> QED BY <2>2, <2>3, <2>4
<1>10. ASSUME NEW i \in 1..(L + n), NEW j \in 1..(L + n), i < j PROVE t[i] < t[j]
  <2> HIDE DEF t, n, L
  <2>1. CASE j \in 1..L
    <3>1. i \in 1..L
      BY <1>1, <1>10, <2>1
    <3> QED BY <1>1, <1>5, <1>10, <2>1, <3>1 DEF Enumerates
  <2>2. CASE j \in (L + 1)..(L + n) /\ i \in 1..L
    <3>1. t[i] < a /\ t[i] \in Nat
      BY <1>1, <1>5, <1>8, <2>2
    <3>2. t[j] >= a /\ t[j] \in Nat
      BY <1>1, <1>6, <2>2
    <3> QED BY <3>1, <3>2
  <2>3. CASE j \in (L + 1)..(L + n) /\ i \in (L + 1)..(L + n)
    BY <1>1, <1>6, <1>10, <2>3
  <2> QED BY <1>7, <2>1, <2>2, <2>3
<1> QED BY <1>3, <1>4, <1>9, <1>10 DEF Enumerates

\* And with one position.
LEMMA EnumAppend ==
  ASSUME NEW s \in Seq(Nat), NEW S, Enumerates(s, S), NEW a \in Nat, \A p \in S : p < a
  PROVE  /\ Append(s, a) \in Seq(Nat) /\ Enumerates(Append(s, a), S \cup {a})
         /\ Len(Append(s, a)) = Len(s) + 1 /\ Append(s, a)[Len(s) + 1] = a
         /\ \A i \in 1..Len(s) : Append(s, a)[i] = s[i]
<1> DEFINE L == Len(s)
           t == Append(s, a)
<1>1. L \in Nat /\ DOMAIN s = 1..L /\ \A i \in 1..L : s[i] \in Nat
  BY LenProperties, ElementOfSeq
<1>2. /\ t \in Seq(Nat) /\ Len(t) = L + 1 /\ t[L + 1] = a /\ \A i \in 1..L : t[i] = s[i]
  BY AppendProperties
<1>3. DOMAIN t = 1..(L + 1)
  BY <1>2, LenProperties
<1>4. \A i \in 1..(L + 1) : i \in 1..L \/ i = L + 1
  BY <1>1
<1>5. \A i \in 1..L : s[i] \in S /\ i \in 1..(L + 1)
  BY <1>1 DEF Enumerates
<1>6. L + 1 \in 1..(L + 1)
  BY <1>1
<1>7. {t[i] : i \in 1..(L + 1)} = S \cup {a}
  <2>1. \A p \in S : \E i \in 1..L : s[i] = p
    BY <1>1 DEF Enumerates
  <2> HIDE DEF t, L
  <2> QED BY <1>2, <1>4, <1>5, <1>6, <2>1
<1>8. ASSUME NEW i \in 1..(L + 1), NEW j \in 1..(L + 1), i < j PROVE t[i] < t[j]
  <2>1. i \in 1..L
    BY <1>1, <1>8
  <2>2. CASE j \in 1..L
    BY <1>1, <1>2, <1>8, <2>1, <2>2 DEF Enumerates
  <2>3. CASE j = L + 1
    BY <1>2, <1>5, <2>1, <2>3
  <2> QED BY <1>4, <2>2, <2>3
<1> QED BY <1>2, <1>3, <1>7, <1>8 DEF Enumerates

-----------------------------------------------------------------------------
(* Streams.                                                                *)

\* A stream is a sequence of bytes, each of which follows the one before.
LEMMA StreamFacts ==
  ASSUME stream \in Streams
  PROVE  /\ Len(stream) \in Nat
         /\ \A p \in 1..Len(stream) : stream[p] \in Bytes /\ Role(p) \in Roles
         /\ Len(stream) > 0 => Role(1) \in {"path", "bad"}
         /\ \A p \in 1..Len(stream) : p < Len(stream) => Follows(stream[p], stream[p + 1])
<1>1. /\ stream \in Seq(Bytes)
      /\ stream # <<>> => stream[1].role \in {"path", "bad"}
      /\ \A p \in 1..(Len(stream) - 1) : Follows(stream[p], stream[p + 1])
  BY StreamsAreRequests
<1>2. Len(stream) \in Nat /\ \A p \in 1..Len(stream) : stream[p] \in Bytes
  BY <1>1, LenProperties, ElementOfSeq
<1>3. Len(stream) > 0 => stream # <<>>
  BY EmptySeq
<1>4. \A p \in 1..Len(stream) : p < Len(stream) => p \in 1..(Len(stream) - 1)
  BY <1>2
<1> QED BY <1>1, <1>2, <1>3, <1>4 DEF Bytes, Role

\* A body or a chunk counts down.
LEMMA CountDown ==
  ASSUME stream \in Streams, NEW q \in 1..Len(stream), NEW n \in Nat, q + n <= Len(stream),
         n <= stream[q].n,
         NEW r, \/ Role(q) \in {"end", "body"} /\ r = "body"
                \/ Role(q) \in {"line", "data"} /\ r = "data"
  PROVE  \A i \in 1..n : stream[q + i] = [role |-> r, n |-> stream[q].n - i]
<1> DEFINE size == stream[q].n
           Good(i) == stream[q + i] = [role |-> r, n |-> size - i]
           S == {i \in 1..n : ~Good(i)}
<1>0. Len(stream) \in Nat /\ stream[q] \in Bytes /\ size \in Int
  BY StreamFacts DEF Bytes, Chunked
<1>1. SUFFICES ASSUME S # {} PROVE FALSE
  OBVIOUS
<1>2. PICK m \in S : \A i \in S : m <= i
  <2>1. S \in SUBSET Nat
    OBVIOUS
  <2> QED BY <1>1, <2>1, Least
<1>3. /\ m \in 1..n /\ ~Good(m)
      /\ q + (m - 1) \in 1..Len(stream) /\ q + (m - 1) < Len(stream)
      /\ (q + (m - 1)) + 1 = q + m
  BY <1>0, <1>2
<1>4. Follows(stream[q + (m - 1)], stream[q + m])
  BY <1>3, StreamFacts
<1>5. /\ stream[q + (m - 1)].n = size - (m - 1)
      /\ \/ stream[q + (m - 1)].role \in {"end", "body"} /\ r = "body"
         \/ stream[q + (m - 1)].role \in {"line", "data"} /\ r = "data"
  <2>1. CASE m = 1
    BY <1>0, <2>1 DEF Role
  <2>2. CASE m # 1
    <3>1. m - 1 \in 1..n /\ m - 1 \notin S
      BY <1>2, <1>3, <2>2
    <3>2. Good(m - 1)
      BY <3>1
    <3>3. stream[q + (m - 1)] = [role |-> r, n |-> size - (m - 1)] /\ r \in {"body", "data"}
      BY <3>2
    <3> HIDE DEF size
    <3> QED BY <3>3
  <2> QED BY <2>1, <2>2
<1>6. size - (m - 1) > 0 /\ (size - (m - 1)) - 1 = size - m /\ size - (m - 1) # Chunked
  BY <1>0, <1>3 DEF Chunked
<1>7. stream[q + m] = [role |-> r, n |-> stream[q + (m - 1)].n - 1]
  <2> DEFINE b == stream[q + (m - 1)]
             c == stream[q + m]
  <2>1. Follows(b, c) /\ b.n > 0 /\ b.n # Chunked /\ b.n # 0
    <3>1. size - (m - 1) \in Int /\ size - (m - 1) # 0
      <4> HIDE DEF size
      <4> QED BY <1>0, <1>2, <1>6
    <3>2. b.n = size - (m - 1)
      BY <1>5
    <3>3. Follows(b, c)
      BY <1>4
    <3> HIDE DEF size, b
    <3> QED BY <1>6, <3>1, <3>2, <3>3
  <2>2. \/ b.role \in {"end", "body"} /\ r = "body"
        \/ b.role \in {"line", "data"} /\ r = "data"
    BY <1>5
  <2> HIDE DEF b, c
  <2>3. c = [role |-> r, n |-> b.n - 1]
    BY <2>1, <2>2 DEF Follows, InHead
  <2> QED BY <2>3 DEF b, c
<1> QED BY <1>3, <1>5, <1>6, <1>7

\* What the machine sees when it is in step: the byte that comes, whose role it does
\* not see, is of the role that its state stands for.
LEMMA NextByte ==
  ASSUME TypeOK, InStep, phase = "parsing", left > 0, cs # "error"
  PROVE  /\ pos + 1 \in 1..Len(stream) /\ Byte \in Bytes /\ ~eating
         /\ cs = "start" => Byte.role \in {"path", "bad"} /\ chunkSize = 0
         /\ cs \in InHead => /\ pos > 0 /\ Role(pos) = cs /\ chunkSize = 0
                             /\ Byte.role \in After(cs) \cup {"bad"}
         /\ cs = "size" => Byte.role \in {"size", "zero"} /\ chunkSize = 0 /\ chunked
         /\ cs = "line" => Byte.role = "line" /\ Byte.n = chunkSize /\ chunkSize > 0 /\ chunked
         /\ cs = "data" => /\ pos > 0 /\ Role(pos) = "line" /\ stream[pos].n = chunkSize
                           /\ Byte.role = "data" /\ chunkSize > 0 /\ chunked
         /\ cs = "tail" => Byte.role = "tail" /\ chunkSize = 0 /\ chunked
         /\ cs = "last" => Byte.role = "close" /\ chunkSize = 0 /\ chunked
<1>0. /\ stream \in Streams /\ pos \in Nat /\ pos <= Len(stream) /\ Len(stream) \in Nat
      /\ left \in Nat
  BY StreamFacts DEF TypeOK
<1>1. pos + 1 \in 1..Len(stream) /\ pos + 1 <= Len(stream) /\ ~eating
  BY <1>0 DEF InStep, TypeOK
<1>2. Byte \in Bytes /\ Byte.role \in Roles
  BY <1>0, <1>1, StreamFacts DEF Byte, Role
<1>3. CASE pos = 0
  <2>1. cs = "start" /\ chunkSize = 0
    BY <1>3 DEF InStep
  <2>2. Byte.role \in {"path", "bad"}
    BY <1>0, <1>1, <1>3, StreamFacts DEF Byte, Role
  <2> QED BY <1>1, <1>2, <2>1, <2>2 DEF InHead
<1>4. CASE pos > 0
  <2> DEFINE a == stream[pos]
             b == Byte
  <2>1. /\ a \in Bytes /\ a.role \in Roles /\ Follows(a, b) /\ StateFits(a) /\ Role(pos) = a.role
    BY <1>0, <1>1, <1>4, StreamFacts DEF InStep, Byte, Role
  <2>2. /\ a.role # "bad" /\ cs = StateAfter(a) /\ chunkSize = IF IsCounted(a) THEN a.n ELSE 0
        /\ ~(a.role \in {"end", "body", "data"} /\ a.n > 0)
        /\ IsOfChunks(a) => chunked
    BY <1>1, <2>1 DEF StateFits
  <2>3. /\ a.n \in Nat \cup {Chunked} /\ (a.n = Chunked => a.role = "end")
        /\ (a.role = "size" => a.n > 0) /\ a.role \in Roles /\ b.n \in Nat \cup {Chunked}
    BY <1>2, <2>1 DEF Bytes
  <2> HIDE DEF a, b
  <2>4. CASE a.role \in InHead
    <3>1. cs = a.role /\ chunkSize = 0
      BY <2>2, <2>4 DEF StateAfter, IsCounted, InHead
    <3>2. b.role \in After(a.role) \cup {"bad"}
      BY <2>1, <2>4 DEF Follows, InHead
    <3> QED BY <1>1, <1>2, <1>4, <2>1, <2>4, <3>1, <3>2 DEF InHead, b
  <2>5. CASE a.role \in {"end", "body", "close"} /\ a.n # Chunked
    <3>1. cs = "start" /\ (a.role # "close" => a.n = 0) /\ chunkSize = 0
      BY <2>2, <2>3, <2>5 DEF StateAfter, IsCounted, InHead, Chunked
    <3>2. b.role \in {"path", "bad"}
      BY <2>1, <2>5, <3>1 DEF Follows, InHead, Chunked
    <3> QED BY <1>1, <1>2, <3>1, <3>2 DEF InHead, b
  <2>6. CASE a.role = "tail" \/ (a.role = "end" /\ a.n = Chunked)
    <3>1. cs = "size" /\ chunkSize = 0 /\ chunked
      BY <2>2, <2>3, <2>6 DEF StateAfter, IsCounted, IsOfChunks, InHead, Chunked
    <3>2. b.role \in {"size", "zero"}
      BY <2>1, <2>3, <2>6 DEF Follows, InHead, Chunked
    <3> QED BY <1>1, <1>2, <3>1, <3>2 DEF InHead, b
  <2>7. CASE a.role = "size"
    <3>1. cs = "line" /\ chunkSize = a.n /\ chunkSize > 0 /\ chunked
      BY <2>2, <2>3, <2>7 DEF StateAfter, IsCounted, IsOfChunks, InHead, Chunked
    <3>2. b.role = "line" /\ b.n = a.n
      BY <2>1, <2>7 DEF Follows, InHead
    <3> QED BY <1>1, <1>2, <3>1, <3>2 DEF InHead, b
  <2>8. CASE a.role = "line"
    <3>1. cs = "data" /\ chunkSize = a.n /\ chunked
      BY <2>2, <2>3, <2>8 DEF StateAfter, IsCounted, IsOfChunks, InHead, Chunked
    <3>2. b.role = "data" /\ a.n > 0
      BY <2>1, <2>8 DEF Follows, InHead
    <3> QED BY <1>1, <1>2, <1>4, <2>1, <2>8, <3>1, <3>2 DEF InHead, a, b
  <2>9. CASE a.role = "data"
    <3>1. cs = "tail" /\ a.n = 0 /\ chunkSize = 0 /\ chunked
      BY <2>2, <2>3, <2>9 DEF StateAfter, IsCounted, IsOfChunks, InHead, Chunked
    <3>2. b.role = "tail"
      BY <2>1, <2>9, <3>1 DEF Follows, InHead
    <3> QED BY <1>1, <1>2, <3>1, <3>2 DEF InHead, b
  <2>10. CASE a.role = "zero"
    <3>1. cs = "last" /\ chunkSize = 0 /\ chunked
      BY <2>2, <2>10 DEF StateAfter, IsCounted, IsOfChunks, InHead
    <3>2. b.role = "close"
      BY <2>1, <2>10 DEF Follows, InHead
    <3> QED BY <1>1, <1>2, <3>1, <3>2 DEF InHead, b
  <2>11. a.role \in InHead \cup {"end", "body", "close", "tail", "size", "line", "data", "zero"}
    BY <2>2, <2>3 DEF Roles, Kinds
  <2>12. a.role \in {"body", "close"} => a.n # Chunked
    BY <2>3
  <2> QED BY <2>4, <2>5, <2>6, <2>7, <2>8, <2>9, <2>10, <2>11, <2>12
<1> QED BY <1>0, <1>3, <1>4

\* Bytes of bodies and chunks up to p, and ends of requests.
BodyTo(p) == {q \in 1..p : Role(q) \in {"body", "data"}}
EndsTo(p) == {q \in 1..p : Ends(stream[q])}

\* What follows the end of the headers, a line or their like, if it counts.
BodyOf(role) == IF role \in {"end", "body"} THEN "body" ELSE "data"

\* skip_body, given a number of the bytes behind the one at q, which are all to be
\* skipped: it takes these, and completes an identity body with its last byte.
LEMMA Skipped ==
  ASSUME TypeOK, NEW k \in {0, 1}, NEW q \in 1..Len(stream), q = pos + k, NEW n \in Nat,
         n <= stream[q].n, q + n <= Len(stream), k = 1 \/ n > 0,
         NEW available \in Nat, k + n <= available, chunked' \in BOOLEAN,
         \/ Role(q) \in {"end", "body"} /\ ~chunked'
         \/ Role(q) \in {"line", "data"} /\ chunked',
         SkipBody(available, k, stream[q].n, n),
         Enumerates(body, BodyTo(q)), Enumerates(completed, EndsTo(q - 1))
  PROVE  /\ pos' = q + n /\ q + n \in 1..Len(stream) /\ left' = available - k - n /\ left' \in Nat
         /\ chunkSize' = stream[q].n - n /\ chunkSize' \in Nat /\ (eating' <=> chunkSize' > 0)
         /\ stream[q + n].n = chunkSize' /\ Role(q + n) = IF n = 0 THEN Role(q) ELSE BodyOf(Role(q))
         /\ \A p \in (q + 1)..(q + n) : Role(p) = BodyOf(Role(q))
         /\ body' \in Seq(Nat) /\ Enumerates(body', BodyTo(q + n))
         /\ completed' \in Seq(Nat) /\ Enumerates(completed', EndsTo(q + n))
<1> DEFINE size == stream[q].n
<1> PICK r : r = BodyOf(Role(q))
  OBVIOUS
<1>r. \/ Role(q) \in {"end", "body"} /\ r = "body" /\ ~chunked'
      \/ Role(q) \in {"line", "data"} /\ r = "data" /\ chunked'
  BY DEF BodyOf
<1>0. /\ stream \in Streams /\ pos \in Nat /\ Len(stream) \in Nat /\ body \in Seq(Nat) /\ completed \in Seq(Nat)
      /\ size \in Nat /\ q \in Nat
  <2>1. stream \in Streams /\ pos \in Nat /\ Len(stream) \in Nat /\ stream[q] \in Bytes
    BY StreamFacts DEF TypeOK
  <2>2. size \in Nat
    BY <2>1 DEF Bytes, Chunked
  <2> QED BY <2>1, <2>2 DEF TypeOK
<1>1. /\ body' = body \o Text(pos + k + 1, pos + k + n) /\ pos' = pos + k + n
      /\ left' = available - k - n /\ chunkSize' = size - n /\ (eating' <=> size # n)
      /\ completed' = IF size = n /\ ~chunked' THEN Append(completed, pos + k + n) ELSE completed
  BY DEF SkipBody, IsLast, EndRequest
<1>2. pos + k = q /\ q + n \in 1..Len(stream)
  BY <1>0
<1>3. \A i \in 1..n : stream[q + i] = [role |-> r, n |-> size - i]
  <2>1. \/ Role(q) \in {"end", "body"} /\ r = "body"
        \/ Role(q) \in {"line", "data"} /\ r = "data"
    BY <1>r
  <2>2. stream \in Streams /\ n <= stream[q].n
    BY <1>0
  <2> HIDE DEF size
  <2>3. \A i \in 1..n : stream[q + i] = [role |-> r, n |-> stream[q].n - i]
    BY <2>1, <2>2, CountDown
  <2> QED BY <2>3 DEF size
<1>4. \A p \in (q + 1)..(q + n) : Role(p) = r /\ stream[p].n = size - (p - q)
  <2> SUFFICES ASSUME NEW p \in (q + 1)..(q + n)
               PROVE  Role(p) = r /\ stream[p].n = size - (p - q)
    OBVIOUS
  <2>1. p - q \in 1..n /\ q + (p - q) = p
    BY <1>0
  <2>2. stream[p] = [role |-> r, n |-> size - (p - q)]
    BY <1>3, <2>1
  <2> HIDE DEF size
  <2> QED BY <2>2 DEF Role
<1>5. stream[q + n].n = size - n /\ Role(q + n) = IF n = 0 THEN Role(q) ELSE r
  <2>1. CASE n = 0
    BY <1>0, <2>1
  <2>2. CASE n # 0
    <3>1. q + n \in (q + 1)..(q + n) /\ (q + n) - q = n
      <4> HIDE DEF size
      <4> QED BY <1>0, <2>2
    <3> QED BY <1>4, <2>2, <3>1
  <2> QED BY <2>1, <2>2
<1>6. body' \in Seq(Nat) /\ Enumerates(body', BodyTo(q + n))
  <2>1. \A p \in BodyTo(q) : p < q + 1
    BY <1>0 DEF BodyTo
  <2>2. /\ body \o Text(q + 1, q + n) \in Seq(Nat)
        /\ Enumerates(body \o Text(q + 1, q + n), BodyTo(q) \cup (q + 1)..(q + n))
    <3>1. q + 1 \in Nat /\ q + n \in Nat /\ q + 1 <= (q + n) + 1
      <4> HIDE DEF size
      <4> QED BY <1>0
    <3>2. Enumerates(body, BodyTo(q)) /\ body \in Seq(Nat)
      BY <1>0
    <3> QED BY <2>1, <3>1, <3>2, EnumText
  <2>3. BodyTo(q + n) = BodyTo(q) \cup (q + 1)..(q + n)
    <3>1. \A p \in 1..(q + n) : p \in 1..q \/ p \in (q + 1)..(q + n)
      BY <1>0
    <3>2. \A p \in 1..q : p \in 1..(q + n)
      BY <1>0
    <3>3. \A p \in (q + 1)..(q + n) : p \in 1..(q + n) /\ Role(p) \in {"body", "data"}
      BY <1>0, <1>r, <1>4
    <3> QED BY <3>1, <3>2, <3>3 DEF BodyTo
  <2> QED BY <1>1, <1>2, <2>2, <2>3
<1>7. completed' \in Seq(Nat) /\ Enumerates(completed', EndsTo(q + n))
  <2>1. \A p \in 1..(q + n) : p \in 1..(q - 1) \/ p = q \/ p \in (q + 1)..(q + n)
    BY <1>0
  <2>2. \A p \in 1..(q - 1) : p \in 1..(q + n)
    BY <1>0
  <2>3. q \in 1..(q + n) /\ q + n \in 1..(q + n) /\ \A p \in (q + 1)..(q + n) : p \in 1..(q + n)
    BY <1>0
  <2>4. CASE chunked'
    <3>1. Role(q) \in {"line", "data"} /\ r = "data"
      BY <1>r, <2>4
    <3>2. ~Ends(stream[q]) /\ \A p \in (q + 1)..(q + n) : ~Ends(stream[p])
      BY <1>4, <3>1 DEF Ends, Role
    <3>3. EndsTo(q + n) = EndsTo(q - 1)
      BY <2>1, <2>2, <3>2 DEF EndsTo
    <3> QED BY <1>0, <1>1, <2>4, <3>3
  <2>5. CASE ~chunked'
    <3>1. Role(q) \in {"end", "body"} /\ r = "body"
      BY <1>r, <2>5
    <3>2. Ends(stream[q]) <=> size = 0
      BY <3>1 DEF Ends, Role
    <3>3. \A p \in (q + 1)..(q + n) : Ends(stream[p]) <=> p = q + size
      <4> HIDE DEF size
      <4> QED BY <1>0, <1>4, <3>1 DEF Ends, Role
    <3>4. CASE size = n
      <4>1. EndsTo(q + n) = EndsTo(q - 1) \cup {q + n}
        <5>1. Ends(stream[q + n])
          <6>1. CASE n = 0
            BY <1>0, <3>2, <3>4, <6>1
          <6>2. CASE n # 0
            <7>1. q + n \in (q + 1)..(q + n)
              BY <1>0, <6>2
            <7> QED BY <3>3, <3>4, <7>1
          <6> QED BY <6>1, <6>2
        <5>2. \A p \in 1..(q + n) : Ends(stream[p]) => p \in 1..(q - 1) \/ p = q + n
          <6> HIDE DEF size
          <6> QED BY <1>0, <2>1, <3>2, <3>3, <3>4
        <5> QED BY <2>2, <2>3, <5>1, <5>2 DEF EndsTo
      <4>2. \A p \in EndsTo(q - 1) : p < q + n
        BY <1>0 DEF EndsTo
      <4>3. /\ Append(completed, q + n) \in Seq(Nat)
            /\ Enumerates(Append(completed, q + n), EndsTo(q - 1) \cup {q + n})
        <5>1. q + n \in Nat /\ completed \in Seq(Nat)
          BY <1>0
        <5> QED BY <4>2, <5>1, EnumAppend
      <4>4. completed' = Append(completed, q + n)
        BY <1>1, <1>2, <2>5, <3>4
      <4> QED BY <4>1, <4>3, <4>4
    <3>5. CASE size # n
      <4>1. \A p \in 1..(q + n) : Ends(stream[p]) => p \in 1..(q - 1)
        <5>1. n < size
          BY <1>0, <3>5
        <5> HIDE DEF size
        <5> SUFFICES ASSUME NEW p \in 1..(q + n), Ends(stream[p]), p \notin 1..(q - 1) PROVE FALSE
          OBVIOUS
        <5>2. CASE p = q
          BY <1>0, <3>2, <5>1, <5>2
        <5>3. CASE p \in (q + 1)..(q + n)
          BY <1>0, <3>3, <5>1, <5>3
        <5> QED BY <2>1, <5>2, <5>3
      <4>2. EndsTo(q + n) = EndsTo(q - 1)
        BY <2>2, <4>1 DEF EndsTo
      <4> QED BY <1>0, <1>1, <3>5, <4>2
    <3> QED BY <3>4, <3>5
  <2> QED BY <2>4, <2>5
<1>8. left' \in Nat /\ chunkSize' \in Nat /\ (eating' <=> chunkSize' > 0)
  <2>1. n <= size
    OBVIOUS
  <2> HIDE DEF size
  <2>2. available - k - n \in Nat /\ size - n \in Nat /\ (size # n <=> size - n > 0)
    BY <1>0, <2>1
  <2> QED BY <1>1, <2>2
<1>9. \A p \in (q + 1)..(q + n) : Role(p) = r
  BY <1>4
<1> QED BY <1>1, <1>2, <1>5, <1>6, <1>7, <1>8, <1>9

-----------------------------------------------------------------------------
(* The steps.                                                              *)

\* What each element is made of.
LEMMA WithinFacts ==
  /\ \A e \in Elements : Within[e] \subseteq InHead
  /\ Within["name"] = {"name"} /\ Within["value"] = {"value"}
  /\ \A e \in Elements : "path" \in Within[e] <=> e \in {"uri", "path"}
  /\ \A l \in Lists : l \in Elements /\ Within[l] = {l} /\ l # "path"
BY DEF Within, Elements, Lists, InHead

\* A step that takes bytes of no element, and leaves marks, text and lists alone.
LEMMA QuietStep ==
  ASSUME TypeOK, MarksFit, TextIsGiven, HeadersInStep, from # NULL,
         UNCHANGED <<stream, index, from, got, entries, torn>>,
         \A e \in Elements : mark[e] = NULL /\ mark'[e] = NULL,
         pos' \in Nat, pos' > pos, \A p \in (pos + 1)..pos' : Role(p) \notin InHead,
         Role(pos) \notin {":", "value"}, broken' => broken \/ NamesRunOut
  PROVE  MarksFit' /\ TextIsGiven' /\ HeadersInStep'
<1>0. pos \in Nat /\ from \in Nat /\ from <= pos /\ index \in Nat
  <2>1. Len(stream) \in Nat
    BY StreamFacts DEF TypeOK
  <2> QED BY <2>1 DEF TypeOK
<1>1. \A p : Role(p)' = Role(p)
  BY DEF Role
<1>2. \A p \in from..pos' : p \in from..pos \/ Role(p) \notin InHead
  BY <1>0
<1>3. \A p \in from..pos : p \in from..pos'
  BY <1>0
<1>4. Role(pos') \notin InHead
  BY <1>0
<1>5. \A e \in Elements : Given(e) = pos /\ Given(e)' = pos'
  BY DEF Given, Pending
<1>6. MarksFit'
  BY <1>1, <1>4, WithinFacts DEF MarksFit, Pending, Role
<1>7. TextIsGiven'
  <2> SUFFICES ASSUME NEW e \in Elements
               PROVE  Enumerates(got[e], {p \in from..pos' : Role(p) \in Within[e]})
    BY <1>1, <1>5 DEF TextIsGiven
  <2>1. {p \in from..pos' : Role(p) \in Within[e]} = {p \in from..pos : Role(p) \in Within[e]}
    BY <1>2, <1>3, WithinFacts
  <2>2. Enumerates(got[e], {p \in from..pos : Role(p) \in Within[e]})
    BY <1>5 DEF TextIsGiven
  <2> QED BY <2>1, <2>2
<1>8. HeadersInStep'
  <2> SUFFICES ASSUME ~torn, NoneEmpty' PROVE ListsFit'
    BY DEF HeadersInStep
  <2>1. NoneEmpty
    BY <1>1, <1>3 DEF NoneEmpty
  <2>2. ListsFit
    BY <2>1 DEF HeadersInStep
  <2>3. Named = index /\ Named' = index
    BY <1>4 DEF Named, Role, InHead
  <2>4. \A l \in Lists : Begins(l)' = Begins(l)
    <3> SUFFICES ASSUME NEW l \in Lists PROVE Begins(l)' = Begins(l)
      OBVIOUS
    <3>1. l \in InHead
      BY DEF Lists, InHead
    <3> QED BY <1>1, <1>2, <1>3, <3>1 DEF Begins
  <2>5. ~broken'
    BY <2>2, <2>3 DEF ListsFit, NamesRunOut
  <2>6. \A i \in 1..index : EndOf(i)' = EndOf(i)
    BY <1>0 DEF EndOf
  <2>7. \A l \in Lists : mark[l] = NULL /\ mark'[l] = NULL
    BY WithinFacts
  <2> QED BY <1>1, <2>2, <2>3, <2>4, <2>5, <2>6, <2>7 DEF ListsFit
<1> QED BY <1>6, <1>7, <1>8

\* What the invariant says, besides the types.
Parts ==
  /\ InStep /\ MarksFit /\ TextIsGiven /\ HeadersInStep
  /\ Enumerates(body, BodyTo(pos)) /\ Enumerates(completed, EndsTo(pos))

\* It is the invariant.
LEMMA PartsAreInv == IInv <=> TypeOK /\ Parts
<1>1. InStep => (cs = "error" => Byte.role = "bad")
  BY DEF InStep, Role, Byte
<1> QED BY <1>1 DEF IInv, Parts, KeepsInStep, CompletedInTime, BodyTo, EndsTo, Role

\* And holds after a step in which its parts do.
LEMMA PartsNext ==
  ASSUME UNCHANGED stream, InStep', MarksFit', TextIsGiven', HeadersInStep',
         Enumerates(body', BodyTo(pos')), Enumerates(completed', EndsTo(pos'))
  PROVE  Parts'
<1>1. BodyTo(pos)' = BodyTo(pos') /\ EndsTo(pos)' = EndsTo(pos')
  BY DEF BodyTo, EndsTo, Role
<1> QED BY <1>1 DEF Parts

\* Facts that every step begins with.
LEMMA TypeFacts ==
  ASSUME TypeOK
  PROVE  /\ stream \in Streams /\ Len(stream) \in Nat /\ pos \in Nat /\ pos <= Len(stream)
         /\ from \in Nat /\ from <= pos /\ left \in Nat /\ chunkSize \in Nat /\ index \in Nat
         /\ mark \in [Elements -> Nat] /\ body \in Seq(Nat) /\ completed \in Seq(Nat)
         /\ got \in [Elements -> Seq(Nat)] /\ entries \in [Lists -> Seq(Nat)]
         /\ \A p \in 1..Len(stream) : stream[p] \in Bytes
<1>1. stream \in Streams /\ Len(stream) \in Nat /\ \A p \in 1..Len(stream) : stream[p] \in Bytes
  BY StreamFacts DEF TypeOK
<1> QED BY <1>1 DEF TypeOK

\* A byte that is no body, and at which no request ends.
LEMMA OneByte ==
  ASSUME TypeOK, NEW p \in Nat
  PROVE  /\ Role(p + 1) \notin {"body", "data"} => BodyTo(p + 1) = BodyTo(p)
         /\ ~Ends(stream[p + 1]) => EndsTo(p + 1) = EndsTo(p)
         /\ Ends(stream[p + 1]) => EndsTo(p + 1) = EndsTo(p) \cup {p + 1}
         /\ \A q \in EndsTo(p) : q < p + 1
<1>1. \A q \in 1..(p + 1) : q \in 1..p \/ q = p + 1
  OBVIOUS
<1>2. /\ \A q \in 1..p : q \in 1..(p + 1) /\ q < p + 1
      /\ p + 1 \in 1..(p + 1)
  OBVIOUS
<1> QED BY <1>1, <1>2 DEF BodyTo, EndsTo

\* Outside the headers nothing is marked.
LEMMA NoneMarked ==
  ASSUME MarksFit, Role(pos) \notin InHead
  PROVE  \A e \in Elements : mark[e] = NULL
BY WithinFacts DEF MarksFit

\* The state after a step fits the last byte it takes.
LEMMA FitsNext ==
  ASSUME NEW b, stream'[pos'] = b, b.role # "bad", cs' = StateAfter(b),
         chunkSize' = IF IsCounted(b) THEN b.n ELSE 0,
         eating' <=> b.role \in {"end", "body", "data"} /\ b.n > 0,
         IsOfChunks(b) => chunked',
         b.role \in {"end", "body"} /\ b.n # Chunked => ~chunked'
  PROVE  StateFits(stream[pos])'
<1>1. StateAfter(b)' = StateAfter(b) /\ IsCounted(b)' = IsCounted(b) /\ IsOfChunks(b)' = IsOfChunks(b)
  BY DEF StateAfter, IsCounted, IsOfChunks
<1>2. StateFits(b)'
  BY <1>1 DEF StateFits
<1> QED BY <1>2 DEF StateFits

\* The frame of a chunk.
LEMMA FrameStep ==
  ASSUME TypeOK, Parts, ChunkFrame
  PROVE  TypeOK' /\ Parts'
<1>0. /\ stream \in Streams /\ Len(stream) \in Nat /\ pos \in Nat /\ pos <= Len(stream)
      /\ from \in Nat /\ left \in Nat /\ chunkSize \in Nat
      /\ completed \in Seq(Nat)
      /\ \A p \in 1..Len(stream) : stream[p] \in Bytes
  BY TypeFacts
<1>1. /\ phase = "parsing" /\ left > 0 /\ ~broken /\ pos' = pos + 1 /\ left' = left - 1
      /\ UNCHANGED <<stream, phase, mark, eating, chunked, index, from, got, entries, body,
                     torn, broken>>
      /\ cs \in {"size", "line", "tail", "last"}
  BY DEF ChunkFrame, Frame, Take, Sees, Parsing
<1>2. /\ pos + 1 \in 1..Len(stream) /\ Byte \in Bytes /\ ~eating /\ chunked
      /\ cs = "size" => Byte.role \in {"size", "zero"} /\ chunkSize = 0
      /\ cs = "line" => Byte.role = "line" /\ Byte.n = chunkSize
      /\ cs = "tail" => Byte.role = "tail" /\ chunkSize = 0
      /\ cs = "last" => Byte.role = "close" /\ chunkSize = 0
  BY <1>1, NextByte DEF Parts
<1>3. /\ Byte.role = "size" => cs' = "line" /\ chunkSize' = Byte.n
      /\ Byte.role = "line" => cs' = "data" /\ chunkSize' = Byte.n
      /\ Byte.role = "tail" => cs' = "size" /\ chunkSize' = 0
      /\ Byte.role = "zero" => cs' = "last" /\ chunkSize' = 0
      /\ Byte.role = "close" => cs' = "start" /\ chunkSize' = 0
      /\ completed' = IF Byte.role = "close" THEN Append(completed, pos + 1) ELSE completed
      /\ Byte.role \in {"size", "line", "tail", "zero", "close"}
  <2>1. /\ Byte.n \in Int /\ (Byte.role = "zero" => Byte.n = 0)
    BY <1>2 DEF Bytes, Chunked
  <2>2. CASE Frame("size", "size", "line")
    <3>1. Byte.role = "size"
      BY <1>2, <2>2 DEF Frame, Take, Sees, Kind
    <3> QED BY <1>2, <2>1, <2>2, <3>1 DEF Frame
  <2>3. CASE Frame("line", "crlf", "data")
    <3>1. Byte.role = "line"
      BY <1>2, <2>3 DEF Frame
    <3> QED BY <1>2, <2>3, <3>1 DEF Frame
  <2>4. CASE Frame("tail", "crlf", "size")
    <3>1. Byte.role = "tail"
      BY <1>2, <2>4 DEF Frame
    <3> QED BY <1>2, <2>4, <3>1 DEF Frame
  <2>5. CASE Frame("size", "zero", "last")
    <3>1. Byte.role = "zero"
      BY <1>2, <2>5 DEF Frame, Take, Sees, Kind
    <3> QED BY <1>2, <2>1, <2>5, <3>1 DEF Frame
  <2>6. CASE Frame("last", "end", "start")
    <3>1. Byte.role = "close"
      BY <1>2, <2>6 DEF Frame
    <3> QED BY <1>2, <2>6, <3>1 DEF Frame, EndRequest
  <2> QED BY <2>2, <2>3, <2>4, <2>5, <2>6 DEF ChunkFrame
<1>4. PICK b \in Bytes : b = Byte
  BY <1>2
<1>5. stream[pos'] = b /\ Role(pos') = b.role /\ Role(pos + 1) = b.role
  BY <1>1, <1>4 DEF Byte, Role
<1>6. /\ b.n \in Nat /\ b.role \in {"size", "line", "tail", "zero", "close"}
      /\ b.n # Chunked
  BY <1>3, <1>4 DEF Bytes, Chunked
<1>7. pos > 0 /\ from > 0 /\ Role(from) = "path" /\ Role(pos) \notin InHead
  <2>1. pos > 0
    BY <1>0, <1>1 DEF Parts, InStep
  <2>2. StateFits(stream[pos]) /\ from > 0 /\ Role(from) = "path"
    BY <2>1 DEF Parts, InStep
  <2>3. stream[pos].role \notin InHead
    BY <1>1, <2>2 DEF StateFits, StateAfter, InHead
  <2> QED BY <2>1, <2>2, <2>3 DEF Role
<1>8. InStep'
  <2> DEFINE role == b.role
  <2>a. /\ role = "size" => cs' = "line" /\ chunkSize' = b.n
        /\ role = "line" => cs' = "data" /\ chunkSize' = b.n
        /\ role = "tail" => cs' = "size" /\ chunkSize' = 0
        /\ role = "zero" => cs' = "last" /\ chunkSize' = 0
        /\ role = "close" => cs' = "start" /\ chunkSize' = 0
        /\ role \in {"size", "line", "tail", "zero", "close"}
    BY <1>3, <1>4
  <2>b. cs' = StateAfter(b)
    BY <2>a DEF StateAfter, InHead
  <2>c. chunkSize' = IF IsCounted(b) THEN b.n ELSE 0
    BY <1>6, <2>a DEF IsCounted
  <2>2. StateFits(stream[pos])'
    BY <1>1, <1>2, <1>5, <1>6, <2>a, <2>b, <2>c, FitsNext
  <2>3. left <= Len(stream) - pos
    BY <1>1 DEF Parts, InStep
  <2>4. left' <= Len(stream') - pos' /\ pos' > 0
    BY <1>0, <1>1, <2>3
  <2>5. cs' # "error"
    BY <1>3
  <2> QED BY <1>1, <1>2, <1>7, <2>2, <2>4, <2>5 DEF InStep, Role
<1>9. MarksFit' /\ TextIsGiven' /\ HeadersInStep'
  <2>1. \A e \in Elements : mark[e] = NULL /\ mark'[e] = NULL
    BY <1>1, <1>7, NoneMarked DEF Parts
  <2>2. pos' \in Nat /\ pos' > pos /\ \A p \in (pos + 1)..pos' : p = pos + 1
    BY <1>0, <1>1
  <2>3. \A p \in (pos + 1)..pos' : Role(p) \notin InHead
    BY <1>5, <1>6, <2>2 DEF InHead
  <2>4. Role(pos) \notin {":", "value"} /\ from # NULL
    BY <1>7 DEF InHead, NULL
  <2> QED BY <1>1, <2>1, <2>2, <2>3, <2>4, QuietStep DEF Parts
<1>10. Enumerates(body', BodyTo(pos'))
  BY <1>0, <1>1, <1>5, <1>6, OneByte DEF Parts
<1>11. completed' \in Seq(Nat) /\ Enumerates(completed', EndsTo(pos'))
  <2>1. Ends(b) <=> b.role = "close"
    BY <1>6 DEF Ends
  <2>2. Enumerates(completed, EndsTo(pos)) /\ stream[pos + 1] = b
    BY <1>1, <1>5 DEF Parts
  <2>3. CASE b.role = "close"
    <3>1. EndsTo(pos + 1) = EndsTo(pos) \cup {pos + 1} /\ \A q \in EndsTo(pos) : q < pos + 1
      BY <1>0, <2>1, <2>2, <2>3, OneByte
    <3>2. /\ Append(completed, pos + 1) \in Seq(Nat)
          /\ Enumerates(Append(completed, pos + 1), EndsTo(pos) \cup {pos + 1})
      BY <1>0, <2>2, <3>1, EnumAppend
    <3> QED BY <1>1, <1>3, <1>4, <2>3, <3>1, <3>2
  <2>4. CASE b.role # "close"
    <3>1. EndsTo(pos + 1) = EndsTo(pos)
      BY <1>0, <2>1, <2>2, <2>4, OneByte
    <3> QED BY <1>0, <1>1, <1>3, <1>4, <2>2, <2>4, <3>1
  <2> QED BY <2>3, <2>4
<1>12. TypeOK'
  <2>1. /\ pos' \in 0..Len(stream') /\ left' \in Nat /\ chunkSize' \in Nat /\ from' \in 0..pos'
        /\ cs' \in {"line", "data", "size", "last", "start"}
    BY <1>0, <1>1, <1>2, <1>3, <1>4, <1>6, TypeFacts
  <2> QED BY <1>1, <1>11, <2>1 DEF TypeOK
<1> QED BY <1>1, <1>8, <1>9, <1>10, <1>11, <1>12, PartsNext

\* A step that skips all it can of a body or a chunk.
LEMMA SkipStep ==
  ASSUME TypeOK, Parts,
         NEW k \in {0, 1}, NEW q \in 1..Len(stream), q = pos + k,
         NEW available \in Nat, available <= Len(stream) - pos, NEW n \in Nat, k + n <= available,
         n <= stream[q].n, k = 1 \/ n > 0, n = stream[q].n \/ n = available - k,
         \/ Role(q) \in {"end", "body"} /\ ~chunked' /\ cs' = "start"
         \/ Role(q) \in {"line", "data"} /\ chunked' /\ cs' = "tail",
         k = 1 => Role(q) = "end",
         SkipBody(available, k, stream[q].n, n),
         UNCHANGED <<stream, index, from, got, entries, torn>>, phase' = "parsing",
         chunked' \in BOOLEAN, broken' \in BOOLEAN, mark' \in [Elements -> Nat],
         \A e \in Elements : mark[e] = NULL /\ mark'[e] = NULL,
         from # NULL, Role(from) = "path", Role(pos) \notin {":", "value"},
         broken' => broken \/ NamesRunOut
  PROVE  TypeOK' /\ Parts'
<1>0. /\ stream \in Streams /\ Len(stream) \in Nat /\ pos \in Nat /\ pos <= Len(stream)
      /\ from \in Nat /\ from <= pos
      /\ \A p \in 1..Len(stream) : stream[p] \in Bytes
  BY TypeFacts
<1>1. Enumerates(body, BodyTo(q)) /\ Enumerates(completed, EndsTo(q - 1))
  <2>1. Enumerates(body, BodyTo(pos)) /\ Enumerates(completed, EndsTo(pos))
    BY DEF Parts
  <2>2. CASE k = 1
    <3>1. q - 1 = pos /\ q = pos + 1 /\ Role(q) = "end"
      BY <1>0, <2>2
    <3>2. BodyTo(q) = BodyTo(pos)
      BY <1>0, <3>1, OneByte
    <3> QED BY <2>1, <3>1, <3>2
  <2>3. CASE k = 0
    <3>1. q = pos /\ pos \in 1..Len(stream) /\ pos - 1 \in Nat /\ (pos - 1) + 1 = pos /\ stream[pos] \in Bytes
      BY <1>0, <2>3
    <3>2. ~Ends(stream[pos])
      <4>1. stream[pos].n # 0 /\ Role(pos) # "close"
        BY <2>3, <3>1 DEF Bytes, Chunked
      <4> QED BY <4>1 DEF Ends, Role
    <3>3. EndsTo(pos) = EndsTo(pos - 1)
      BY <3>1, <3>2, OneByte
    <3> QED BY <2>1, <3>1, <3>3
  <2> QED BY <2>2, <2>3
<1>2. /\ pos' = q + n /\ q + n \in 1..Len(stream) /\ left' = available - k - n /\ left' \in Nat
      /\ chunkSize' = stream[q].n - n /\ chunkSize' \in Nat /\ (eating' <=> chunkSize' > 0)
      /\ stream[q + n].n = chunkSize' /\ Role(q + n) = IF n = 0 THEN Role(q) ELSE BodyOf(Role(q))
      /\ \A p \in (q + 1)..(q + n) : Role(p) = BodyOf(Role(q))
      /\ body' \in Seq(Nat) /\ Enumerates(body', BodyTo(q + n))
      /\ completed' \in Seq(Nat) /\ Enumerates(completed', EndsTo(q + n))
  <2>1. q + n <= Len(stream)
    BY <1>0
  <2>2. \/ Role(q) \in {"end", "body"} /\ ~chunked'
        \/ Role(q) \in {"line", "data"} /\ chunked'
    OBVIOUS
  <2>3. /\ TypeOK /\ q = pos + k /\ n <= stream[q].n /\ (k = 1 \/ n > 0) /\ k + n <= available
        /\ chunked' \in BOOLEAN /\ SkipBody(available, k, stream[q].n, n)
    OBVIOUS
  <2> QED BY <1>1, <2>1, <2>2, <2>3, Skipped
<1>3. PICK b \in Bytes : b = stream[pos']
  BY <1>0, <1>2
<1>4. /\ b.n = chunkSize' /\ b.n \in Nat /\ b.n # Chunked /\ Role(pos') = b.role
      /\ \/ b.role \in {"end", "body"} /\ ~chunked' /\ cs' = "start"
         \/ b.role = "data" /\ chunked' /\ cs' = "tail"
  <2>1. b.n = chunkSize' /\ b.n \in Nat /\ Role(pos') = b.role
    BY <1>2, <1>3 DEF Role
  <2>2. b.role = IF n = 0 THEN Role(q) ELSE BodyOf(Role(q))
    BY <1>2, <2>1
  <2>3. n = 0 => Role(q) = "end"
    OBVIOUS
  <2>4. b.n # Chunked
    BY <2>1 DEF Chunked
  <2> QED BY <2>1, <2>2, <2>3, <2>4 DEF BodyOf
<1>5. StateFits(stream[pos])'
  <2>1. stream'[pos'] = b
    BY <1>3
  <2>2. b.role # "bad" /\ cs' = StateAfter(b)
    BY <1>4 DEF StateAfter, InHead
  <2>3. chunkSize' = IF IsCounted(b) THEN b.n ELSE 0
    BY <1>4 DEF IsCounted
  <2>4. eating' <=> b.role \in {"end", "body", "data"} /\ b.n > 0
    BY <1>2, <1>4
  <2>5. (IsOfChunks(b) => chunked') /\ (b.role \in {"end", "body"} /\ b.n # Chunked => ~chunked')
    BY <1>4 DEF IsOfChunks
  <2> QED BY <2>1, <2>2, <2>3, <2>4, <2>5, FitsNext
<1>6. InStep'
  <2>1. pos' > 0 /\ left' <= Len(stream') - pos'
    BY <1>0, <1>2
  <2>2. eating' => left' = 0
    <3>1. stream[q].n \in Int
      BY <1>0 DEF Bytes, Chunked
    <3>2. eating' => n # stream[q].n
      BY <1>2, <3>1
    <3> QED BY <1>2, <3>2
  <2>3. cs' # "error" /\ from' > 0 /\ Role(from)' = "path"
    BY <1>0 DEF Role, NULL
  <2> QED BY <1>5, <2>1, <2>2, <2>3 DEF InStep
<1>7. MarksFit' /\ TextIsGiven' /\ HeadersInStep'
  <2>1. pos' \in Nat /\ pos' > pos
    BY <1>0, <1>2
  <2>2. \A p \in (pos + 1)..pos' : (p = q /\ k = 1) \/ p \in (q + 1)..(q + n)
    BY <1>0, <1>2
  <2>3. \A p \in (pos + 1)..pos' : Role(p) \notin InHead
    BY <1>2, <2>2 DEF InHead, BodyOf
  <2> QED BY <2>1, <2>3, QuietStep DEF Parts
<1>8. TypeOK'
  <2>1. /\ pos' \in 0..Len(stream') /\ from' \in 0..pos' /\ left' \in Nat /\ eating' \in BOOLEAN
        /\ cs' \in {"start", "tail"}
    <3>1. eating' \in BOOLEAN
      BY DEF SkipBody, IsLast
    <3>2. cs' \in {"start", "tail"}
      BY <1>4
    <3>3. pos' \in 0..Len(stream')
      BY <1>0, <1>2
    <3>4. from' \in 0..pos'
      BY <1>0, <1>2
    <3> QED BY <1>2, <3>1, <3>2, <3>3, <3>4
  <2> QED BY <1>2, <2>1 DEF TypeOK
<1> QED BY <1>2, <1>6, <1>7, <1>8, PartsNext

\* The lesser of two numbers.
LEMMA LesserFacts ==
  ASSUME NEW a \in Nat, NEW b \in Nat
  PROVE  /\ Lesser(a, b) \in Nat /\ Lesser(a, b) <= a /\ Lesser(a, b) <= b
         /\ (Lesser(a, b) = a \/ Lesser(a, b) = b) /\ (a > 0 /\ b > 0 => Lesser(a, b) > 0)
BY DEF Lesser

\* What the parser is in when it is past the first byte.
LEMMA Underway ==
  ASSUME TypeOK, Parts, pos > 0
  PROVE  /\ pos \in 1..Len(stream) /\ stream[pos] \in Bytes /\ StateFits(stream[pos])
         /\ from # NULL /\ Role(from) = "path" /\ (eating => chunkSize > 0)
<1>1. pos \in 1..Len(stream) /\ stream[pos] \in Bytes
  BY TypeFacts
<1>2. StateFits(stream[pos]) /\ from > 0 /\ Role(from) = "path"
  BY DEF Parts, InStep
<1>3. eating => chunkSize > 0
  BY <1>1, <1>2 DEF StateFits, IsCounted, Bytes, Chunked
<1> QED BY <1>1, <1>2, <1>3, TypeFacts DEF NULL

\* The data of a chunk.
LEMMA ChunkDataStep ==
  ASSUME TypeOK, Parts, ChunkData
  PROVE  TypeOK' /\ Parts'
<1>0. /\ Len(stream) \in Nat /\ pos \in Nat /\ left \in Nat /\ chunkSize \in Nat
      /\ mark \in [Elements -> Nat] /\ stream \in Streams
  BY TypeFacts
<1>1. /\ phase = "parsing" /\ left > 0 /\ cs = "data" /\ cs' = "tail"
      /\ SkipBody(left, 0, chunkSize, Lesser(chunkSize, left))
      /\ UNCHANGED <<stream, phase, mark, chunked, index, from, got, entries, torn, broken>>
  BY DEF ChunkData, Sees, Parsing
<1>2. /\ pos > 0 /\ Role(pos) = "line" /\ stream[pos].n = chunkSize /\ chunkSize > 0 /\ chunked
  BY <1>1, NextByte DEF Parts
<1>3. /\ pos \in 1..Len(stream) /\ from # NULL /\ Role(from) = "path" /\ pos = pos + 0
  BY <1>0, <1>2, Underway
<1>4. PICK n \in Nat : n = Lesser(chunkSize, left)
  BY <1>0, LesserFacts
<1>5. /\ n <= chunkSize /\ n <= left /\ n > 0 /\ (n = chunkSize \/ n = left - 0) /\ 0 + n <= left
  <2>1. n <= chunkSize /\ n <= left /\ n > 0 /\ (n = chunkSize \/ n = left)
    BY <1>0, <1>1, <1>2, <1>4, LesserFacts
  <2> QED BY <1>0, <2>1
<1>6. \A e \in Elements : mark[e] = NULL /\ mark'[e] = NULL
  BY <1>1, <1>2, NoneMarked DEF Parts, InHead
<1>7. left <= Len(stream) - pos
  BY <1>1 DEF Parts, InStep
<1>8. /\ chunked' \in BOOLEAN /\ broken' \in BOOLEAN /\ mark' \in [Elements -> Nat] /\ chunked'
      /\ broken' => broken \/ NamesRunOut
  BY <1>1, <1>2 DEF TypeOK
<1>9. SkipBody(left, 0, stream[pos].n, n)
  BY <1>1, <1>2, <1>4
<1>10. /\ n <= stream[pos].n /\ (n = stream[pos].n \/ n = left - 0)
       /\ Role(pos) \in {"line", "data"} /\ chunked' /\ cs' = "tail"
  BY <1>1, <1>2, <1>5, <1>8
<1>11. phase' = "parsing" /\ Role(pos) \notin {":", "value"}
  BY <1>1, <1>2
<1> QED BY <1>0, <1>1, <1>3, <1>5, <1>6, <1>7, <1>8, <1>9, <1>10, <1>11, SkipStep

\* A byte that no transition takes is not HTTP.
LEMMA FailStep ==
  ASSUME TypeOK, Parts, Fail
  PROVE  TypeOK' /\ Parts'
<1>0. stream \in Streams /\ Len(stream) \in Nat /\ pos \in Nat /\ pos <= Len(stream)
  BY TypeFacts
<1>1. /\ phase = "parsing" /\ left > 0 /\ cs # "error" /\ cs' = "error"
      /\ Kind(Byte.role) \notin After(cs)
      /\ UNCHANGED <<stream, pos, left, phase, mark, chunkSize, eating, chunked, index, from,
                     got, entries, body, completed, torn, broken>>
  BY DEF Fail, Parsing
<1>2. pos + 1 \in 1..Len(stream) /\ pos < Len(stream)
  BY <1>0, <1>1, NextByte DEF Parts
<1>3. Byte.role = "bad"
  <2> PICK b : b = Byte
    OBVIOUS
  <2>1. /\ cs = "start" => b.role \in {"path", "bad"}
        /\ cs \in InHead => b.role \in After(cs) \cup {"bad"}
        /\ cs = "size" => b.role \in {"size", "zero"}
        /\ cs = "line" => b.role = "line"
        /\ cs = "data" => b.role = "data"
        /\ cs = "tail" => b.role = "tail"
        /\ cs = "last" => b.role = "close"
    BY <1>1, NextByte DEF Parts
  <2>2. cs \in InHead \cup {"start", "size", "line", "data", "tail", "last"}
    BY <1>1 DEF TypeOK
  <2>3. CASE cs \in InHead
    <3>1. \A role \in After(cs) : Kind(role) = role
      BY <2>3 DEF InHead, After, Kind
    <3> QED BY <1>1, <2>1, <2>3, <3>1
  <2>4. CASE cs \in {"start", "size", "line", "data", "tail", "last"}
    BY <1>1, <2>1, <2>4 DEF After, Kind, Kinds, InHead
  <2> QED BY <2>2, <2>3, <2>4
<1>4. InStep'
  <2>1. pos > 0 => StateFits(stream[pos])'
    <3> SUFFICES ASSUME pos > 0 PROVE StateFits(stream[pos])'
      OBVIOUS
    <3> PICK b : b = stream[pos]
      OBVIOUS
    <3>1. StateFits(b)
      BY DEF Parts, InStep
    <3>2. StateAfter(b)' = StateAfter(b) /\ IsCounted(b)' = IsCounted(b) /\ IsOfChunks(b)' = IsOfChunks(b)
      BY DEF StateAfter, IsCounted, IsOfChunks
    <3>3. StateFits(b)'
      BY <1>1, <3>1, <3>2 DEF StateFits
    <3>4. stream'[pos'] = b
      BY <1>1
    <3> QED BY <3>3, <3>4 DEF StateFits
  <2>2. Role(pos + 1)' = "bad"
    BY <1>1, <1>3 DEF Role, Byte
  <2>3. Role(from)' = Role(from)
    BY <1>1 DEF Role
  <2> QED BY <1>1, <1>2, <2>1, <2>2, <2>3 DEF Parts, InStep
<1>5. MarksFit' /\ TextIsGiven' /\ HeadersInStep'
  <2>1. MarksFit'
    BY <1>1 DEF Parts, MarksFit, Pending, Role
  <2>2. TextIsGiven'
    BY <1>1 DEF Parts, TextIsGiven, Given, Pending, Role
  <2>3. ListsFit => ListsFit'
    BY <1>1 DEF ListsFit, Named, EndOf, Begins, Role
  <2>4. HeadersInStep'
    BY <1>1, <2>3 DEF Parts, HeadersInStep, NoneEmpty, Role
  <2> QED BY <2>1, <2>2, <2>4
<1>6. Enumerates(body', BodyTo(pos')) /\ Enumerates(completed', EndsTo(pos'))
  BY <1>1 DEF Parts
<1>7. TypeOK'
  BY <1>1 DEF TypeOK
<1> QED BY <1>1, <1>4, <1>5, <1>6, <1>7, PartsNext

\* The next buffer.
LEMMA ReadStep ==
  ASSUME TypeOK, Parts, NEW m \in Nat, m > 0, Read(m)
  PROVE  TypeOK' /\ Parts'
<1>0. /\ stream \in Streams /\ Len(stream) \in Nat /\ pos \in Nat /\ pos <= Len(stream)
      /\ from \in Nat /\ from <= pos /\ chunkSize \in Nat /\ mark \in [Elements -> Nat]
  BY TypeFacts
<1>1. /\ phase = "idle" /\ m <= Len(stream) - pos /\ phase' = "parsing"
      /\ mark' = [e \in Elements |-> IF mark[e] = NULL THEN NULL ELSE pos + 1]
      /\ UNCHANGED <<stream, chunked, cs, index, from, got, entries, torn, broken>>
  BY DEF Read, Restarted
<1>2. cs # "error" /\ \A e \in Elements : ~Pending(e) /\ Given(e) = pos
  BY <1>1 DEF Parts, InStep, Pending, Given
<1>3. pos + 1 \in Nat /\ pos + 1 # NULL /\ mark' \in [Elements -> Nat]
  <2>1. pos + 1 \in Nat /\ pos + 1 # NULL /\ NULL \in Nat
    BY <1>0 DEF NULL
  <2> QED BY <1>1, <2>1
<1>4. ASSUME chunkSize > 0, eating PROVE TypeOK' /\ Parts'
  <2>1. SkipBody(m, 0, chunkSize, Lesser(m, chunkSize))
    BY <1>4 DEF Read
  <2>2. pos > 0
    BY <1>0, <1>4 DEF Parts, InStep
  <2>3. /\ pos \in 1..Len(stream) /\ stream[pos] \in Bytes /\ StateFits(stream[pos])
        /\ from # NULL /\ Role(from) = "path"
    BY <2>2, Underway
  <2> PICK b \in Bytes : b = stream[pos]
    BY <2>3
  <2>4. /\ b.role \in {"end", "body", "data"} /\ b.n > 0 /\ b.n # Chunked /\ chunkSize = b.n
        /\ cs = StateAfter(b) /\ Role(pos) = b.role
        /\ b.role = "data" => chunked
        /\ b.role # "data" => ~chunked
    <3>1. b.role \in {"end", "body", "data"} /\ b.n > 0 /\ cs = StateAfter(b) /\ Role(pos) = b.role
      BY <1>2, <1>4, <2>3 DEF StateFits, Role
    <3>2. b.n # Chunked
      BY <3>1 DEF Chunked
    <3>3. chunkSize = b.n
      <4>1. chunkSize = IF IsCounted(b) THEN b.n ELSE 0
        BY <2>3 DEF StateFits
      <4> QED BY <1>4, <4>1
    <3>4. b.role = "data" => chunked
      BY <2>3 DEF StateFits, IsOfChunks
    <3>5. b.role # "data" => ~chunked
      BY <2>3, <3>1, <3>2 DEF StateFits
    <3> QED BY <3>1, <3>2, <3>3, <3>4, <3>5
  <2>5. \/ b.role \in {"end", "body"} /\ cs = "start"
        \/ b.role = "data" /\ cs = "tail"
    BY <2>4 DEF StateAfter, InHead
  <2> PICK n \in Nat : n = Lesser(m, chunkSize)
    BY <1>0, LesserFacts
  <2>6. /\ n <= chunkSize /\ n <= m /\ (n = chunkSize \/ n = m) /\ 0 + n <= m /\ m - 0 = m
        /\ m > 0 => n > 0
    <3>1. n <= chunkSize /\ n <= m /\ (n = chunkSize \/ n = m) /\ (m > 0 => n > 0)
      BY <1>0, <1>4, LesserFacts
    <3> QED BY <1>0, <3>1
  <2>7. \A e \in Elements : mark[e] = NULL /\ mark'[e] = NULL
    <3>1. Role(pos) \notin InHead
      BY <2>4 DEF InHead
    <3> QED BY <1>1, <3>1, NoneMarked DEF Parts
  <2>8. pos = pos + 0 /\ Role(pos) \notin {":", "value"}
    BY <1>0, <2>4
  <2>9. SkipBody(m, 0, stream[pos].n, n)
    BY <2>1, <2>4
  <2>10. chunked' \in BOOLEAN /\ broken' \in BOOLEAN /\ (broken' => broken \/ NamesRunOut)
    BY <1>1 DEF TypeOK
  <2>11. /\ n <= stream[pos].n /\ (n = stream[pos].n \/ n = m - 0)
    BY <2>4, <2>6
  <2>12. \/ Role(pos) \in {"end", "body"} /\ ~chunked' /\ cs' = "start"
         \/ Role(pos) \in {"line", "data"} /\ chunked' /\ cs' = "tail"
    BY <1>1, <2>4, <2>5
  <2>13. n > 0
    BY <2>6
  <2> QED BY <1>1, <1>3, <2>3, <2>6, <2>7, <2>8, <2>9, <2>10, <2>11, <2>12, <2>13, SkipStep
<1>5. ASSUME ~(chunkSize > 0 /\ eating) PROVE TypeOK' /\ Parts'
  <2>1. left' = m /\ UNCHANGED <<body, pos, chunkSize, eating, completed>>
    BY <1>5 DEF Read
  <2>2. ~eating
    <3>1. CASE pos = 0
      BY <3>1 DEF Parts, InStep
    <3>2. CASE pos > 0
      BY <1>5, <3>2, Underway
    <3> QED BY <1>0, <3>1, <3>2
  <2>3. InStep'
    <3>1. pos > 0 => StateFits(stream[pos])'
      BY <1>1, <2>1 DEF Parts, InStep, StateFits, StateAfter, IsCounted, IsOfChunks
    <3>2. Role(from)' = Role(from)
      BY <1>1 DEF Role
    <3> QED BY <1>1, <1>2, <2>1, <2>2, <3>1, <3>2 DEF Parts, InStep
  <2>4. \A e \in Elements : Given(e)' = pos
    BY <1>0, <1>1, <1>3, <2>1 DEF Given, Pending
  <2>5. MarksFit'
    <3> SUFFICES ASSUME NEW e \in Elements
                 PROVE  /\ mark'[e] # NULL <=> pos' > 0 /\ Role(pos)' \in Within[e]
                        /\ Pending(e)' => /\ mark'[e] \in from'..(pos' + 1)
                                          /\ \A p \in mark'[e]..pos' : Role(p)' \in Within[e]
      BY DEF MarksFit, Pending, Role
    <3>1. mark[e] # NULL <=> pos > 0 /\ Role(pos) \in Within[e]
      BY DEF Parts, MarksFit
    <3>2. mark'[e] # NULL <=> mark[e] # NULL
      BY <1>1, <1>3
    <3>3. Role(pos)' = Role(pos)
      BY <1>1, <2>1 DEF Role
    <3>4. Pending(e)' => mark'[e] = pos + 1
      BY <1>1, <1>3 DEF Pending
    <3>5. pos + 1 \in from..(pos + 1) /\ \A p \in (pos + 1)..pos : FALSE
      BY <1>0
    <3> QED BY <1>1, <2>1, <3>1, <3>2, <3>3, <3>4, <3>5
  <2>6. TextIsGiven'
    BY <1>1, <1>2, <2>1, <2>4 DEF Parts, TextIsGiven, Role
  <2>7. HeadersInStep'
    <3> SUFFICES ASSUME from # NULL, ~torn, NoneEmpty PROVE ListsFit'
      BY <1>1, <2>1 DEF HeadersInStep, NoneEmpty, Role
    <3>1. ListsFit
      BY DEF Parts, HeadersInStep
    <3>2. \A l \in Lists : mark[l] = NULL /\ mark'[l] = NULL
      <4>1. \A l \in Lists : mark[l] = NULL
        BY <1>1, <3>1 DEF ListsFit
      <4> QED BY <1>1, <4>1, WithinFacts
    <3> QED BY <1>1, <2>1, <3>1, <3>2 DEF ListsFit, Named, EndOf, Begins, Role
  <2>8. TypeOK'
    BY <1>1, <1>3, <2>1 DEF TypeOK
  <2>9. Enumerates(body', BodyTo(pos')) /\ Enumerates(completed', EndsTo(pos'))
    BY <2>1 DEF Parts
  <2> QED BY <1>1, <2>3, <2>5, <2>6, <2>7, <2>8, <2>9, PartsNext
<1> QED BY <1>4, <1>5

\* The first byte of a request.
LEMMA StartStep ==
  ASSUME TypeOK, Parts, Start
  PROVE  TypeOK' /\ Parts'
<1>0. /\ stream \in Streams /\ Len(stream) \in Nat /\ pos \in Nat /\ pos <= Len(stream)
      /\ left \in Nat /\ chunkSize \in Nat
  BY TypeFacts
<1>1. /\ phase = "parsing" /\ left > 0 /\ ~broken /\ cs = "start" /\ pos' = pos + 1 /\ left' = left - 1
      /\ cs' = "path" /\ chunked' = FALSE /\ index' = 0 /\ from' = pos + 1 /\ torn' = FALSE
      /\ mark' = [e \in Elements |-> IF "path" \in Within[e] THEN pos + 1 ELSE NULL]
      /\ got' = [e \in Elements |-> <<>>] /\ entries' = [l \in Lists |-> <<>>]
      /\ UNCHANGED <<stream, phase, chunkSize, eating, body, completed, broken>>
  BY DEF Start, Take, Sees, Parsing
<1>2. /\ pos + 1 \in 1..Len(stream) /\ Byte \in Bytes /\ ~eating /\ chunkSize = 0
      /\ Byte.role \in {"path", "bad"}
  BY <1>1, NextByte DEF Parts
<1>3. PICK b \in Bytes : b = Byte
  BY <1>2
<1>4. b.role = "path" /\ b.n # Chunked
  BY <1>2, <1>3 DEF Start, Take, Sees, Kind, Bytes
<1>5. stream'[pos'] = b /\ Role(pos + 1) = "path" /\ stream[pos + 1] = b
      /\ \A p : Role(p)' = Role(p)
  BY <1>1, <1>3, <1>4 DEF Byte, Role
<1>6. \A p \in (pos + 1)..(pos + 1) : p = pos + 1
  BY <1>0
<1>7. pos + 1 \in Nat /\ pos + 1 # NULL /\ pos + 1 > 0 /\ NULL \in Nat
  BY <1>0 DEF NULL
<1>8. InStep'
  <2>1. cs' = StateAfter(b) /\ ~IsCounted(b) /\ ~IsOfChunks(b)
    BY <1>1, <1>4 DEF StateAfter, IsCounted, IsOfChunks, InHead
  <2>2. StateFits(stream[pos])'
    BY <1>1, <1>2, <1>4, <1>5, <2>1, FitsNext
  <2>3. left' <= Len(stream') - pos'
    <3>1. left <= Len(stream) - pos
      BY <1>1 DEF Parts, InStep
    <3> QED BY <1>0, <1>1, <3>1
  <2>4. Role(from)' = "path"
    BY <1>1, <1>5 DEF Role
  <2> QED BY <1>1, <1>2, <1>7, <2>2, <2>3, <2>4 DEF InStep
<1>9. MarksFit'
  <2> SUFFICES ASSUME NEW e \in Elements
               PROVE  /\ mark'[e] # NULL <=> pos' > 0 /\ Role(pos)' \in Within[e]
                      /\ Pending(e)' => /\ mark'[e] \in from'..(pos' + 1)
                                        /\ \A p \in mark'[e]..pos' : Role(p)' \in Within[e]
    BY DEF MarksFit, Pending, Role
  <2>1. Role(pos)' = "path"
    BY <1>1, <1>5 DEF Role
  <2>2. mark'[e] = IF "path" \in Within[e] THEN pos + 1 ELSE NULL
    BY <1>1
  <2>3. Pending(e)' => "path" \in Within[e]
    BY <2>2 DEF Pending
  <2>4. pos + 1 \in (pos + 1)..((pos + 1) + 1)
    BY <1>0
  <2> QED BY <1>1, <1>5, <1>6, <1>7, <2>1, <2>2, <2>3, <2>4
<1>10. TextIsGiven'
  <2> SUFFICES ASSUME NEW e \in Elements
               PROVE  Enumerates(<<>>, {p \in (pos + 1)..(Given(e)') : Role(p)' \in Within[e]})
    BY <1>1 DEF TextIsGiven, Role
  <2>1. Given(e)' = IF "path" \in Within[e] THEN (pos + 1) - 1 ELSE pos + 1
    BY <1>1, <1>7 DEF Given, Pending
  <2>2. \A p \in (pos + 1)..((pos + 1) - 1) : FALSE
    BY <1>0
  <2>3. {p \in (pos + 1)..(Given(e)') : Role(p)' \in Within[e]} = {}
    BY <1>5, <1>6, <2>1, <2>2
  <2> QED BY <2>3, EnumEmpty
<1>11. HeadersInStep'
  <2>1. \A l \in Lists : mark'[l] = NULL
    BY <1>1, WithinFacts
  <2>2. \A l \in Lists : Begins(l)' = {}
    <3> SUFFICES ASSUME NEW l \in Lists, NEW p \in Begins(l)' PROVE FALSE
      OBVIOUS
    <3>1. p = pos + 1 /\ Role(p)' = l
      BY <1>1, <1>6 DEF Begins, Role
    <3> QED BY <1>5, <3>1, WithinFacts
  <2>3. /\ entries["value"]' = <<>> /\ entries["name"]' = <<>> /\ Len(<<>>) = 0
        /\ \A l \in Lists : entries'[l] = <<>>
    BY <1>1, EmptySeq DEF Lists
  <2>4. Named' = 0
    BY <1>1, <1>5 DEF Named, Role
  <2>5. \A l \in Lists : Enumerates(entries'[l], Begins(l)' \ {mark'[l]})
    BY <2>2, <2>3, EnumEmpty
  <2>6. ListsFit'
    <3>1. \A i \in 1..0 : FALSE
      OBVIOUS
    <3>2. ~broken' /\ Len(entries["value"]') = index' /\ Len(entries["name"]') = Named'
      BY <1>1, <2>3, <2>4
    <3> QED BY <2>1, <2>4, <2>5, <3>1, <3>2 DEF ListsFit
  <2> QED BY <2>6 DEF HeadersInStep
<1>12. Enumerates(body', BodyTo(pos')) /\ Enumerates(completed', EndsTo(pos'))
  <2>1. ~Ends(b)
    BY <1>4 DEF Ends
  <2>2. BodyTo(pos + 1) = BodyTo(pos) /\ EndsTo(pos + 1) = EndsTo(pos)
    BY <1>0, <1>5, <2>1, OneByte
  <2> QED BY <1>1, <2>2 DEF Parts
<1>13. TypeOK'
  <2>1. mark' \in [Elements -> Nat]
    BY <1>1, <1>7
  <2>2. got' \in [Elements -> Seq(Nat)] /\ entries' \in [Lists -> Seq(Nat)]
    BY <1>1, EnumEmpty
  <2>3. pos' \in 0..Len(stream') /\ left' \in Nat /\ from' \in 0..pos'
    BY <1>0, <1>1, <1>2
  <2>4. cs' \in InHead /\ index' \in Nat
    BY <1>1 DEF InHead
  <2> QED BY <1>1, <2>1, <2>2, <2>3, <2>4 DEF TypeOK
<1> QED BY <1>1, <1>8, <1>9, <1>10, <1>11, <1>12, <1>13, PartsNext

\* In the request line and the headers the machine sees roles, and was left by one.
LEMMA SeesRole ==
  ASSUME TypeOK, Parts, NEW kinds, cs \in InHead, kinds \subseteq InHead \cup {"end"}, Sees(kinds)
  PROVE  /\ Byte.role \in kinds \cap After(cs) /\ Kind(Byte.role) = Byte.role
         /\ pos + 1 \in 1..Len(stream) /\ Byte \in Bytes /\ ~eating /\ chunkSize = 0
         /\ pos \in 1..Len(stream) /\ Role(pos) = cs /\ from # NULL /\ Role(from) = "path"
         /\ left <= Len(stream) - pos
<1>1. phase = "parsing" /\ left > 0 /\ cs # "error" /\ Kind(Byte.role) \in kinds \cap After(cs)
  BY DEF Sees, Parsing, InHead
<1>2. /\ pos + 1 \in 1..Len(stream) /\ Byte \in Bytes /\ ~eating /\ chunkSize = 0
      /\ pos > 0 /\ Role(pos) = cs /\ Byte.role \in After(cs) \cup {"bad"}
  BY <1>1, NextByte DEF Parts
<1>3. \A role \in After(cs) \cup {"bad"} : Kind(role) = role
  BY DEF InHead, After, Kind
<1>4. pos \in 1..Len(stream) /\ from # NULL /\ Role(from) = "path"
  BY <1>2, Underway
<1>5. left <= Len(stream) - pos
  BY <1>1 DEF Parts, InStep
<1> QED BY <1>1, <1>2, <1>3, <1>4, <1>5

\* The end of the headers.
LEMMA HeadersEndStep ==
  ASSUME TypeOK, Parts, HeadersEnd
  PROVE  TypeOK' /\ Parts'
<1>0. /\ stream \in Streams /\ Len(stream) \in Nat /\ pos \in Nat /\ pos <= Len(stream)
      /\ from \in Nat /\ from <= pos /\ left \in Nat /\ mark \in [Elements -> Nat]
  BY TypeFacts
<1>1. /\ cs \in InHead /\ Sees({"end"}) /\ phase = "parsing" /\ left > 0
      /\ broken' = (broken \/ NamesRunOut) /\ chunked' = (Byte.n = Chunked)
      /\ UNCHANGED <<stream, phase, mark, index, from, got, entries, torn>>
  BY DEF HeadersEnd, Sees, Parsing
<1>2. /\ Byte.role \in {"end"} \cap After(cs)
      /\ pos + 1 \in 1..Len(stream) /\ Byte \in Bytes /\ ~eating /\ chunkSize = 0
      /\ pos \in 1..Len(stream) /\ Role(pos) = cs /\ from # NULL /\ Role(from) = "path"
      /\ left <= Len(stream) - pos
  BY <1>1, SeesRole
<1>3. cs \in {"version", "crlf"}
  BY <1>1, <1>2 DEF InHead, After
<1>4. \A e \in Elements : mark[e] = NULL /\ mark'[e] = NULL
  <2>1. \A e \in Elements : cs \notin Within[e]
    BY <1>3 DEF Within, Elements
  <2> QED BY <1>1, <1>2, <2>1 DEF Parts, MarksFit
<1>5. PICK b \in Bytes : b = Byte
  BY <1>2
<1>6. /\ b.role = "end" /\ stream[pos + 1] = b /\ Role(pos + 1) = "end"
      /\ b.n \in Nat \cup {Chunked} /\ (chunked' <=> b.n = Chunked)
  BY <1>1, <1>2, <1>5 DEF Byte, Role, Bytes
<1>7. chunked' \in BOOLEAN /\ broken' \in BOOLEAN /\ (broken' => broken \/ NamesRunOut)
  BY <1>1 DEF TypeOK, NamesRunOut
<1>8. CASE b.n = Chunked
  <2>1. /\ pos' = pos + 1 /\ left' = left - 1 /\ cs' = "size"
        /\ UNCHANGED <<body, chunkSize, eating, completed>>
    BY <1>6, <1>8 DEF HeadersEnd, Take
  <2>2. InStep'
    <3>1. cs' = StateAfter(b) /\ ~IsCounted(b)
      BY <1>6, <1>8, <2>1 DEF StateAfter, IsCounted, InHead
    <3>2. ~(b.n > 0)
      BY <1>8 DEF Chunked
    <3>3. stream'[pos'] = b
      BY <1>1, <1>6, <2>1
    <3>4. StateFits(stream[pos])'
      BY <1>2, <1>6, <1>8, <2>1, <3>1, <3>2, <3>3, FitsNext
    <3>5. left' <= Len(stream') - pos' /\ pos' > 0 /\ from' > 0
      BY <1>0, <1>1, <1>2, <2>1 DEF NULL
    <3> QED BY <1>1, <1>2, <2>1, <3>4, <3>5 DEF InStep, Role
  <2>3. MarksFit' /\ TextIsGiven' /\ HeadersInStep'
    <3>1. pos' \in Nat /\ pos' > pos /\ \A p \in (pos + 1)..pos' : p = pos + 1
      BY <1>0, <2>1
    <3>2. \A p \in (pos + 1)..pos' : Role(p) \notin InHead
      BY <1>6, <3>1 DEF InHead
    <3>3. Role(pos) \notin {":", "value"}
      BY <1>2, <1>3
    <3> QED BY <1>1, <1>2, <1>4, <1>7, <3>1, <3>2, <3>3, QuietStep DEF Parts
  <2>4. Enumerates(body', BodyTo(pos')) /\ Enumerates(completed', EndsTo(pos'))
    <3>1. ~Ends(b)
      BY <1>6, <1>8 DEF Ends, Chunked
    <3>2. BodyTo(pos + 1) = BodyTo(pos) /\ EndsTo(pos + 1) = EndsTo(pos)
      BY <1>0, <1>6, <3>1, OneByte
    <3> QED BY <2>1, <3>2 DEF Parts
  <2>5. TypeOK'
    <3>1. pos' \in 0..Len(stream') /\ left' \in Nat /\ from' \in 0..pos'
      BY <1>0, <1>1, <1>2, <2>1
    <3> QED BY <1>1, <1>7, <2>1, <3>1 DEF TypeOK
  <2> QED BY <1>1, <2>2, <2>3, <2>4, <2>5, PartsNext
<1>9. CASE b.n # Chunked
  <2>1. b.n \in Nat /\ left - 1 \in Nat
    BY <1>0, <1>1, <1>6, <1>9
  <2>2. SkipBody(left, 1, b.n, Lesser(left - 1, b.n)) /\ cs' = "start"
    BY <1>5, <1>6, <1>9 DEF HeadersEnd
  <2> PICK n \in Nat : n = Lesser(left - 1, b.n)
    BY <2>1, LesserFacts
  <2>3. n <= b.n /\ (n = b.n \/ n = left - 1) /\ 1 + n <= left
    <3>1. n <= left - 1 /\ n <= b.n /\ (n = b.n \/ n = left - 1)
      BY <2>1, LesserFacts
    <3> QED BY <1>0, <3>1
  <2> PICK q \in 1..Len(stream) : q = pos + 1
    BY <1>2
  <2>4. SkipBody(left, 1, stream[q].n, n)
    BY <1>6, <2>2
  <2>5. /\ Role(q) = "end" /\ ~chunked' /\ cs' = "start" /\ n <= stream[q].n
        /\ n = stream[q].n \/ n = left - 1
    BY <1>6, <1>9, <2>2, <2>3
  <2>6. phase' = "parsing" /\ Role(pos) \notin {":", "value"} /\ mark' \in [Elements -> Nat]
    BY <1>0, <1>1, <1>2, <1>3
  <2>7. /\ Role(q) \in {"end", "body"} /\ ~chunked' /\ cs' = "start"
        /\ 1 \in {0, 1} /\ (1 = 1 \/ n > 0) /\ (1 = 1 => Role(q) = "end")
    BY <2>5
  <2> QED BY <1>0, <1>1, <1>2, <1>4, <1>7, <2>3, <2>4, <2>5, <2>6, <2>7, SkipStep
<1> QED BY <1>8, <1>9

\* What is told of an element is all of it so far.
LEMMA CallText ==
  ASSUME TypeOK, MarksFit, TextIsGiven, phase = "parsing", NEW e \in Elements, mark[e] # NULL
  PROVE  /\ got[e] \o Text(mark[e], pos) \in Seq(Nat)
         /\ from # NULL => Enumerates(got[e] \o Text(mark[e], pos), {p \in from..pos : Role(p) \in Within[e]})
<1>1. /\ pos \in Nat /\ from \in Nat /\ mark[e] \in Nat /\ got[e] \in Seq(Nat)
      /\ mark[e] \in from..(pos + 1) /\ \A p \in mark[e]..pos : Role(p) \in Within[e]
  BY TypeFacts DEF MarksFit, Pending
<1>2. mark[e] <= pos + 1
  BY <1>1
<1>3. Text(mark[e], pos) \in Seq(Nat)
  BY <1>1, <1>2, TextIsSeq
<1>4. ASSUME from # NULL
      PROVE  Enumerates(got[e] \o Text(mark[e], pos), {p \in from..pos : Role(p) \in Within[e]})
  <2> DEFINE S == {p \in from..(mark[e] - 1) : Role(p) \in Within[e]}
  <2>1. Enumerates(got[e], S)
    BY <1>4 DEF TextIsGiven, Given, Pending
  <2>2. \A p \in S : p < mark[e]
    BY <1>1
  <2>3. Enumerates(got[e] \o Text(mark[e], pos), S \cup mark[e]..pos)
    <3> HIDE DEF S
    <3> QED BY <1>1, <1>2, <2>1, <2>2, EnumText
  <2>4. \A p \in from..pos : p \in from..(mark[e] - 1) \/ p \in mark[e]..pos
    BY <1>1
  <2>5. \A p \in from..(mark[e] - 1) : p \in from..pos
    BY <1>1
  <2>6. \A p \in mark[e]..pos : p \in from..pos
    BY <1>1
  <2>7. S \cup mark[e]..pos = {p \in from..pos : Role(p) \in Within[e]}
    BY <1>1, <2>4, <2>5, <2>6
  <2> QED BY <2>3, <2>7
<1> QED BY <1>1, <1>3, <1>4, ConcatProperties

\* The end of a buffer.
LEMMA EndOfBufferStep ==
  ASSUME TypeOK, Parts, EndOfBuffer
  PROVE  TypeOK' /\ Parts'
<1>0. /\ stream \in Streams /\ Len(stream) \in Nat /\ pos \in Nat /\ pos <= Len(stream)
      /\ from \in Nat /\ from <= pos /\ left \in Nat /\ mark \in [Elements -> Nat]
      /\ got \in [Elements -> Seq(Nat)] /\ entries \in [Lists -> Seq(Nat)]
  BY TypeFacts
<1>1. /\ phase = "parsing" /\ Call(Marked) /\ torn' = (torn \/ Marked \cap Lists # {})
      /\ phase' = IF cs = "error" \/ broken' THEN "closed" ELSE "idle"
      /\ UNCHANGED <<stream, pos, left, cs, mark, chunkSize, eating, chunked, index, from,
                     body, completed>>
  BY DEF EndOfBuffer, Parsing
<1>2. \A p : Role(p)' = Role(p)
  BY <1>1 DEF Role
<1>3. phase' \in {"idle", "closed"} /\ phase' # "parsing" /\ (cs = "error" => phase' # "idle")
  BY <1>1
<1>4. \A e \in Elements : ~Pending(e)' /\ Given(e)' = pos
  BY <1>1, <1>3 DEF Pending, Given
<1>5. MarksFit'
  <2>1. Role(pos)' = Role(pos)
    BY <1>1 DEF Role
  <2> QED BY <1>1, <1>2, <1>4, <2>1 DEF Parts, MarksFit
<1>6. InStep'
  <2>1. pos > 0 => StateFits(stream[pos])'
    BY <1>1 DEF Parts, InStep, StateFits, StateAfter, IsCounted, IsOfChunks
  <2> QED BY <1>1, <1>3, <2>1 DEF Parts, InStep, Role
<1>7. /\ \A e \in Elements : mark[e] # NULL => got'[e] = got[e] \o Text(mark[e], pos)
      /\ \A e \in Elements : mark[e] = NULL => got'[e] = got[e]
      /\ DOMAIN got' = Elements /\ got' = [e \in Elements |-> got'[e]]
  BY <1>1 DEF Call, Marked
<1>8. got' \in [Elements -> Seq(Nat)]
  <2>1. \A e \in Elements : got'[e] \in Seq(Nat)
    <3> SUFFICES ASSUME NEW e \in Elements PROVE got'[e] \in Seq(Nat)
      OBVIOUS
    <3>1. CASE mark[e] # NULL
      BY <1>1, <1>7, <3>1, CallText DEF Parts
    <3>2. CASE mark[e] = NULL
      BY <1>0, <1>7, <3>2
    <3> QED BY <3>1, <3>2
  <2> QED BY <1>7, <2>1
<1>9. TextIsGiven'
  <2> SUFFICES ASSUME from # NULL, NEW e \in Elements
               PROVE  Enumerates(got'[e], {p \in from..pos : Role(p) \in Within[e]})
    BY <1>1, <1>2, <1>4 DEF TextIsGiven
  <2>1. CASE mark[e] # NULL
    BY <1>1, <1>7, <2>1, CallText DEF Parts
  <2>2. CASE mark[e] = NULL
    BY <1>7, <2>2 DEF Parts, TextIsGiven, Given, Pending
  <2> QED BY <2>1, <2>2
<1>10. entries' = [l \in Lists |->
         IF l \in Marked /\ ~IsBehind(entries[l]) THEN Append(entries[l], mark[l]) ELSE entries[l]]
  BY <1>1 DEF Call
<1>11. HeadersInStep'
  <2> SUFFICES ASSUME from # NULL, ~torn', NoneEmpty PROVE ListsFit'
    BY <1>1, <1>2 DEF HeadersInStep, NoneEmpty
  <2>1. ~torn /\ \A l \in Lists : l \notin Marked
    BY <1>1
  <2>2. \A l \in Lists : mark[l] = NULL
    BY <2>1, WithinFacts DEF Marked
  <2>3. entries' = entries
    BY <1>0, <1>10, <2>1
  <2>4. broken' = broken
    BY <1>1, <2>1 DEF Call, TypeOK
  <2>5. ListsFit
    BY <2>1 DEF Parts, HeadersInStep
  <2>6. \A l \in Lists : Begins(l)' = Begins(l)
    BY <1>1, <1>2 DEF Begins
  <2>7. Named' = Named /\ \A i : EndOf(i)' = EndOf(i)
    BY <1>1, <2>3 DEF Named, EndOf, Role
  <2> QED BY <1>1, <1>2, <2>2, <2>3, <2>4, <2>5, <2>6, <2>7 DEF ListsFit
<1>12. TypeOK'
  <2>1. entries' \in [Lists -> Seq(Nat)]
    <3>1. \A l \in Lists : Append(entries[l], mark[l]) \in Seq(Nat)
      BY <1>0, WithinFacts, AppendProperties
    <3> QED BY <1>0, <1>10, <3>1
  <2>2. broken' \in BOOLEAN /\ torn' \in BOOLEAN
    BY <1>1 DEF Call
  <2> QED BY <1>1, <1>3, <1>8, <2>1, <2>2 DEF TypeOK
<1> QED BY <1>1, <1>5, <1>6, <1>9, <1>11, <1>12, PartsNext DEF Parts

\* What a byte of the request line or of a header does, by its role.
LEMMA HeadFacts ==
  ASSUME TypeOK, Parts, HeadByte
  PROVE  /\ cs \in InHead /\ cs' \in InHead /\ cs' \in After(cs) /\ Role(pos + 1) = cs' /\ Role(pos) = cs
         /\ pos + 1 \in 1..Len(stream) /\ Byte \in Bytes /\ Byte.role = cs' /\ ~eating /\ chunkSize = 0
         /\ pos' = pos + 1 /\ left' = left - 1 /\ left > 0 /\ left <= Len(stream) - pos
         /\ phase = "parsing" /\ ~broken /\ pos > 0 /\ from # NULL /\ Role(from) = "path"
         /\ mark' = [e \in Elements |->
              IF cs' \notin Within[e] THEN NULL
              ELSE IF cs \notin Within[e] THEN pos + 1 ELSE mark[e]]
         /\ \A e \in Elements : mark[e] # NULL <=> cs \in Within[e]
         /\ Call({e \in Marked : cs' \notin Within[e]})
         /\ index' = IF cs' = "crlf" THEN index + 1 ELSE index
         /\ UNCHANGED <<stream, phase, chunkSize, eating, chunked, from, body, completed, torn>>
         /\ \A p : Role(p)' = Role(p)
<1>1. /\ cs \in InHead /\ Take(InHead) /\ cs' = Kind(Byte.role) /\ Call({e \in Marked : cs' \notin Within[e]})
      /\ mark' = [e \in Elements |->
           IF cs' \notin Within[e] THEN NULL
           ELSE IF cs \notin Within[e] THEN pos + 1 ELSE mark[e]]
      /\ index' = IF cs' = "crlf" THEN index + 1 ELSE index
      /\ UNCHANGED <<stream, phase, chunkSize, eating, chunked, from, body, completed, torn>>
  BY DEF HeadByte
<1>2. /\ Sees(InHead) /\ pos' = pos + 1 /\ left' = left - 1 /\ phase = "parsing" /\ ~broken /\ left > 0
  BY <1>1 DEF Take, Sees, Parsing
<1>3. /\ Byte.role \in InHead \cap After(cs) /\ Kind(Byte.role) = Byte.role
      /\ pos + 1 \in 1..Len(stream) /\ Byte \in Bytes /\ ~eating /\ chunkSize = 0
      /\ pos \in 1..Len(stream) /\ Role(pos) = cs /\ from # NULL /\ Role(from) = "path"
      /\ left <= Len(stream) - pos
  BY <1>1, <1>2, SeesRole
<1>4. Byte.role = cs' /\ Role(pos + 1) = cs' /\ \A p : Role(p)' = Role(p)
  BY <1>1, <1>3 DEF Byte, Role
<1>5. pos > 0 /\ \A e \in Elements : mark[e] # NULL <=> cs \in Within[e]
  BY <1>3 DEF Parts, MarksFit
<1> QED BY <1>1, <1>2, <1>3, <1>4, <1>5

\* Its marks.
LEMMA HeadMarks ==
  ASSUME TypeOK, Parts, HeadByte
  PROVE  MarksFit'
<1>0. pos \in Nat /\ from \in Nat /\ from <= pos /\ mark \in [Elements -> Nat]
  BY TypeFacts
<1> SUFFICES ASSUME NEW e \in Elements
             PROVE  /\ mark'[e] # NULL <=> pos' > 0 /\ Role(pos)' \in Within[e]
                    /\ Pending(e)' => /\ mark'[e] \in from'..(pos' + 1)
                                      /\ \A p \in mark'[e]..pos' : Role(p)' \in Within[e]
  BY DEF MarksFit, Pending, Role
<1> PICK role : role = cs'
  OBVIOUS
<1>1. /\ Role(pos + 1) = role /\ pos' = pos + 1 /\ from' = from /\ phase = "parsing"
      /\ mark'[e] = IF role \notin Within[e] THEN NULL
                    ELSE IF cs \notin Within[e] THEN pos + 1 ELSE mark[e]
      /\ mark[e] # NULL <=> cs \in Within[e]
      /\ \A p : Role(p)' = Role(p)
  BY HeadFacts
<1>2. Role(pos)' = role
  BY <1>1, HeadFacts DEF Role
<1>3. pos + 1 > 0 /\ pos + 1 # NULL
  BY <1>0 DEF NULL
<1>4. CASE role \notin Within[e]
  BY <1>1, <1>2, <1>4 DEF Pending
<1>5. CASE role \in Within[e] /\ cs \notin Within[e]
  <2>1. pos + 1 \in from..((pos + 1) + 1) /\ \A p \in (pos + 1)..(pos + 1) : p = pos + 1
    BY <1>0
  <2> QED BY <1>1, <1>2, <1>3, <1>5, <2>1
<1>6. CASE role \in Within[e] /\ cs \in Within[e]
  <2>1. mark'[e] = mark[e] /\ mark[e] # NULL
    BY <1>1, <1>6
  <2>2. mark[e] \in from..(pos + 1) /\ \A p \in mark[e]..pos : Role(p) \in Within[e]
    BY <1>1, <2>1 DEF Parts, MarksFit, Pending
  <2>3. mark[e] \in from..((pos + 1) + 1) /\ \A p \in mark[e]..(pos + 1) : p \in mark[e]..pos \/ p = pos + 1
    BY <1>0, <2>2
  <2> QED BY <1>1, <1>2, <1>3, <1>6, <2>1, <2>2, <2>3
<1> QED BY <1>4, <1>5, <1>6

\* Its text.
LEMMA HeadText ==
  ASSUME TypeOK, Parts, HeadByte
  PROVE  got' \in [Elements -> Seq(Nat)] /\ TextIsGiven'
<1>0. /\ pos \in Nat /\ from \in Nat /\ from <= pos /\ mark \in [Elements -> Nat]
      /\ got \in [Elements -> Seq(Nat)]
  BY TypeFacts
<1> PICK role : role = cs'
  OBVIOUS
<1>1. /\ Role(pos + 1) = role /\ pos' = pos + 1 /\ from' = from /\ from # NULL /\ phase = "parsing"
      /\ phase' = "parsing"
      /\ \A e \in Elements : mark'[e] = IF role \notin Within[e] THEN NULL
                               ELSE IF cs \notin Within[e] THEN pos + 1 ELSE mark[e]
      /\ \A e \in Elements : mark[e] # NULL <=> cs \in Within[e]
      /\ \A p : Role(p)' = Role(p)
      /\ Call({e \in Marked : role \notin Within[e]})
  BY HeadFacts
<1>2. got' = [e \in Elements |-> IF e \in {d \in Marked : role \notin Within[d]}
                                   THEN got[e] \o Text(mark[e], pos) ELSE got[e]]
  BY <1>1 DEF Call
<1>3. \A e \in Elements :
        got'[e] = IF mark[e] # NULL /\ role \notin Within[e] THEN got[e] \o Text(mark[e], pos) ELSE got[e]
  BY <1>2 DEF Marked
<1>4. ASSUME NEW e \in Elements
      PROVE  /\ got'[e] \in Seq(Nat)
             /\ Enumerates(got'[e], {p \in from..(Given(e)') : Role(p) \in Within[e]})
  <2>0. \A p \in from..(pos + 1) : p \in from..pos \/ p = pos + 1
    BY <1>0
  <2>1. \A p \in from..pos : p \in from..(pos + 1)
    BY <1>0
  <2>2. pos + 1 # NULL /\ (pos + 1) - 1 = pos
    BY <1>0 DEF NULL
  <2>3. Enumerates(got[e], {p \in from..Given(e) : Role(p) \in Within[e]}) /\ got[e] \in Seq(Nat)
    BY <1>0, <1>1 DEF Parts, TextIsGiven
  <2>4. CASE role \notin Within[e]
    <3>1. Given(e)' = pos + 1
      BY <1>1, <2>4 DEF Given, Pending
    <3>2. {p \in from..(pos + 1) : Role(p) \in Within[e]} = {p \in from..pos : Role(p) \in Within[e]}
      BY <1>1, <2>0, <2>1, <2>4
    <3>3. CASE mark[e] # NULL
      BY <1>1, <1>3, <2>4, <3>1, <3>2, <3>3, CallText DEF Parts
    <3>4. CASE mark[e] = NULL
      <4>1. Given(e) = pos
        BY <3>4 DEF Given, Pending
      <4> QED BY <1>3, <2>3, <3>1, <3>2, <3>4, <4>1
    <3> QED BY <3>3, <3>4
  <2>5. CASE role \in Within[e] /\ cs \notin Within[e]
    <3>1. Given(e)' = pos
      BY <1>1, <2>2, <2>5 DEF Given, Pending
    <3>2. Given(e) = pos
      BY <1>1, <2>5 DEF Given, Pending
    <3> QED BY <1>3, <2>3, <2>5, <3>1, <3>2
  <2>6. CASE role \in Within[e] /\ cs \in Within[e]
    <3>1. Given(e)' = mark[e] - 1 /\ Given(e) = mark[e] - 1
      BY <1>1, <2>6 DEF Given, Pending
    <3> QED BY <1>3, <2>3, <2>6, <3>1
  <2> QED BY <2>4, <2>5, <2>6
<1>5. got' \in [Elements -> Seq(Nat)]
  <2>1. got' = [e \in Elements |-> got'[e]]
    BY <1>2
  <2> QED BY <1>4, <2>1
<1>6. TextIsGiven'
  <2> SUFFICES ASSUME NEW e \in Elements
               PROVE  Enumerates(got'[e], {p \in from..(Given(e)') : Role(p) \in Within[e]})
    BY <1>1 DEF TextIsGiven
  <2> QED BY <1>4
<1> QED BY <1>5, <1>6

\* Its lists: a name is told with the colon behind it, a value with the end of its
\* line, when the other list is as long as it is to be.
LEMMA HeadLists ==
  ASSUME TypeOK, Parts, HeadByte
  PROVE  entries' \in [Lists -> Seq(Nat)] /\ broken' \in BOOLEAN /\ HeadersInStep'
<1>0. /\ pos \in Nat /\ from \in Nat /\ from <= pos /\ mark \in [Elements -> Nat] /\ index \in Nat
      /\ entries \in [Lists -> Seq(Nat)]
  BY TypeFacts
<1> PICK role : role = cs'
  OBVIOUS
<1>1. /\ Role(pos + 1) = role /\ Role(pos) = cs /\ pos' = pos + 1 /\ from' = from /\ from # NULL
      /\ phase = "parsing" /\ phase' = "parsing" /\ stream' = stream /\ torn' = torn /\ ~broken
      /\ cs \in InHead /\ role \in InHead /\ role \in After(cs)
      /\ \A e \in Elements : mark'[e] = IF role \notin Within[e] THEN NULL
                               ELSE IF cs \notin Within[e] THEN pos + 1 ELSE mark[e]
      /\ \A e \in Elements : mark[e] # NULL <=> cs \in Within[e]
      /\ \A p : Role(p)' = Role(p)
      /\ Call({e \in Marked : role \notin Within[e]})
      /\ index' = IF role = "crlf" THEN index + 1 ELSE index
  BY HeadFacts
<1>2. \A l \in Lists : /\ mark[l] # NULL <=> cs = l
                       /\ mark'[l] = IF role # l THEN NULL ELSE IF cs # l THEN pos + 1 ELSE mark[l]
                       /\ l \in {e \in Marked : role \notin Within[e]} <=> cs = l /\ role # l
  BY <1>1, WithinFacts DEF Marked
<1>3. /\ entries' = [l \in Lists |-> IF cs = l /\ role # l /\ ~IsBehind(entries[l])
                                       THEN Append(entries[l], mark[l]) ELSE entries[l]]
      /\ broken' = \E l \in Lists : cs = l /\ role # l /\ entries[l] = <<>> /\ IsBehind(<<>>)
  <2> PICK S : S = {e \in Marked : role \notin Within[e]}
    OBVIOUS
  <2>1. /\ entries' = [l \in Lists |->
             IF l \in S /\ ~IsBehind(entries[l]) THEN Append(entries[l], mark[l]) ELSE entries[l]]
        /\ broken' = (broken \/ \E l \in S \cap Lists : entries[l] = <<>> /\ IsBehind(<<>>))
    BY <1>1 DEF Call
  <2>2. \A l \in Lists : l \in S <=> cs = l /\ role # l
    BY <1>2
  <2>3. entries' = [l \in Lists |-> IF cs = l /\ role # l /\ ~IsBehind(entries[l])
                                      THEN Append(entries[l], mark[l]) ELSE entries[l]]
    BY <2>1, <2>2
  <2>4. broken' = \E l \in Lists : cs = l /\ role # l /\ entries[l] = <<>> /\ IsBehind(<<>>)
    BY <1>1, <2>1, <2>2
  <2> QED BY <2>3, <2>4
<1>4. entries' \in [Lists -> Seq(Nat)] /\ broken' \in BOOLEAN
  <2>1. \A l \in Lists : mark[l] \in Nat /\ entries[l] \in Seq(Nat)
    BY <1>0, WithinFacts
  <2>2. \A l \in Lists : Append(entries[l], mark[l]) \in Seq(Nat)
    BY <2>1, AppendProperties
  <2> QED BY <1>3, <2>1, <2>2
<1>5. ASSUME ~torn, NoneEmpty' PROVE ListsFit'
  <2>0. /\ \A p \in from..(pos + 1) : p \in from..pos \/ p = pos + 1
        /\ \A p \in from..pos : p \in from..(pos + 1) /\ p # pos + 1
        /\ pos + 1 \in from..(pos + 1) /\ (pos + 1) - 1 = pos /\ pos + 1 # NULL
        /\ NULL \notin from..(pos + 1)
    BY <1>0, <1>1 DEF NULL
  <2>1. NoneEmpty /\ (role = "crlf" => cs = "value")
    <3>1. \A p \in from..(pos + 1) : Role(p) = "crlf" => Role(p - 1) = "value"
      BY <1>1, <1>5 DEF NoneEmpty
    <3>2. role = "crlf" => cs = "value"
      BY <1>1, <2>0, <3>1
    <3> QED BY <2>0, <3>1, <3>2 DEF NoneEmpty
  <2>2. ListsFit
    BY <1>1, <1>5, <2>1 DEF Parts, HeadersInStep
  \* The headers go one way.
  <2>3. \/ cs = "name" /\ role = ":"
        \/ cs = "value" /\ role = "crlf"
        \/ cs = "name" /\ role = "name"
        \/ cs \in {":", "value"} /\ role = "value"
        \/ cs \notin {"name", ":", "value"} /\ role \notin {":", "value", "crlf"}
    BY <1>1, <2>1 DEF InHead, After
  <2>4. /\ Named = IF cs \in {":", "value"} THEN index + 1 ELSE index
        /\ Named' = IF role \in {":", "value"} THEN index' + 1 ELSE index'
    BY <1>1 DEF Named, Role
  <2>5. /\ Len(entries["value"]) = index /\ Len(entries["name"]) = Named
        /\ entries["value"] \in Seq(Nat) /\ entries["name"] \in Seq(Nat)
        /\ "name" \in Lists /\ "value" \in Lists
        /\ mark["name"] \in Nat /\ mark["value"] \in Nat
    BY <1>0, <2>2, WithinFacts DEF ListsFit, Lists
  <2>6. \A l \in Lists : cs = l => ~IsBehind(entries[l])
    <3>1. cs = "name" => ~IsBehind(entries["name"])
      BY <1>0, <2>4, <2>5 DEF IsBehind
    <3>2. cs = "value" => ~IsBehind(entries["value"])
      BY <1>0, <2>5 DEF IsBehind
    <3> QED BY <3>1, <3>2 DEF Lists
  <2>7. \A l \in Lists : entries'[l] = IF cs = l /\ role # l THEN Append(entries[l], mark[l]) ELSE entries[l]
    BY <1>3, <2>6
  <2>8. ~broken'
    BY <1>3, <2>6
  \* Where names and values begin.
  <2>9. \A l \in Lists : Begins(l)' = IF role = l /\ cs # l THEN Begins(l) \cup {pos + 1} ELSE Begins(l)
    <3> SUFFICES ASSUME NEW l \in Lists
                 PROVE  Begins(l)' = IF role = l /\ cs # l THEN Begins(l) \cup {pos + 1} ELSE Begins(l)
      OBVIOUS
    <3>1. Begins(l)' = {p \in from..(pos + 1) : Role(p) = l /\ Role(p - 1) # l}
      BY <1>1 DEF Begins
    <3> QED BY <1>1, <2>0, <3>1 DEF Begins
  <2>10. \A l \in Lists : Begins(l) \subseteq from..pos
    BY DEF Begins
  <2>11. ASSUME NEW l \in Lists
         PROVE  /\ mark'[l] # NULL => phase' = "parsing" /\ mark'[l] \in Begins(l)'
                /\ Enumerates(entries'[l], Begins(l)' \ {mark'[l]})
                /\ cs = l /\ role # l =>
                     /\ Len(entries'[l]) = Len(entries[l]) + 1 /\ entries'[l][Len(entries[l]) + 1] = mark[l]
                     /\ \A i \in 1..Len(entries[l]) : entries'[l][i] = entries[l][i]
    <3>1. /\ mark[l] # NULL => mark[l] \in Begins(l)
          /\ Enumerates(entries[l], Begins(l) \ {mark[l]})
          /\ mark[l] \in Nat /\ entries[l] \in Seq(Nat)
      BY <1>0, <2>2, WithinFacts DEF ListsFit
    <3>2. CASE cs = l /\ role = l
      BY <1>1, <1>2, <2>7, <2>9, <3>1, <3>2
    <3>3. CASE cs # l /\ role = l
      <4>1. mark[l] = NULL /\ mark'[l] = pos + 1 /\ entries'[l] = entries[l]
        BY <1>2, <2>7, <3>3
      <4>2. Begins(l)' \ {pos + 1} = Begins(l) \ {NULL}
        BY <2>0, <2>9, <2>10, <3>3
      <4> QED BY <1>1, <2>9, <3>1, <3>3, <4>1, <4>2
    <3>4. CASE cs # l /\ role # l
      BY <1>2, <2>7, <2>9, <3>1, <3>4
    <3>5. CASE cs = l /\ role # l
      <4>1. mark[l] # NULL /\ mark'[l] = NULL /\ entries'[l] = Append(entries[l], mark[l])
            /\ Begins(l)' = Begins(l)
        BY <1>2, <2>7, <2>9, <3>5
      <4>2. mark[l] \in from..(pos + 1) /\ \A p \in mark[l]..pos : Role(p) = l
        BY <1>1, <4>1, WithinFacts DEF Parts, MarksFit, Pending
      <4>3. \A p \in Begins(l) \ {mark[l]} : p < mark[l]
        <5> SUFFICES ASSUME NEW p \in Begins(l), p > mark[l] PROVE FALSE
          BY <1>0, <2>10, <3>1
        <5>1. p \in from..pos /\ Role(p - 1) # l
          BY DEF Begins
        <5>2. p - 1 \in mark[l]..pos
          BY <1>0, <3>1, <5>1
        <5> QED BY <4>2, <5>1, <5>2
      <4>4. /\ Enumerates(Append(entries[l], mark[l]), (Begins(l) \ {mark[l]}) \cup {mark[l]})
            /\ Len(Append(entries[l], mark[l])) = Len(entries[l]) + 1
            /\ Append(entries[l], mark[l])[Len(entries[l]) + 1] = mark[l]
            /\ \A i \in 1..Len(entries[l]) : Append(entries[l], mark[l])[i] = entries[l][i]
        BY <3>1, <4>3, EnumAppend
      <4>5. (Begins(l) \ {mark[l]}) \cup {mark[l]} = Begins(l) \ {NULL}
        BY <2>0, <2>10, <3>1, <4>1
      <4> QED BY <4>1, <4>4, <4>5
    <3> QED BY <3>2, <3>3, <3>4, <3>5
  \* Names and values are paired by their places in the lists.
  <2>12. \A l \in Lists : ~(cs = l /\ role # l) => entries'[l] = entries[l]
    BY <2>7
  <2>13. \A i \in 1..Named : \A p \in entries["name"][i]..EndOf(i) : Role(p) \in {"name", ":", "value"}
    BY <2>2 DEF ListsFit
  <2>14. \A i : /\ EndOf(i) = IF i > index THEN pos ELSE entries["value"][i]
                /\ EndOf(i)' = IF i > index' THEN pos + 1 ELSE entries'["value"][i]
    BY <1>1 DEF EndOf
  <2> PICK m \in Nat : m = index + 1
    BY <1>0
  <2>15. /\ m > index /\ \A i \in 1..index : ~(i > index) /\ ~(i > m) /\ i # m
         /\ \A i \in 1..m : i \in 1..index \/ i = m
         /\ \A i \in 1..index : i \in 1..m
         /\ m \in 1..m /\ ~(m > m)
    BY <1>0
  <2>16. /\ Len(entries'["value"]) = index' /\ Len(entries'["name"]) = Named'
         /\ \A i \in 1..(Named') : \A p \in entries'["name"][i]..(EndOf(i)') : Role(p) \in {"name", ":", "value"}
    <3>1. CASE cs = "name" /\ role = ":"
      <4>1. Named = index /\ Named' = m /\ index' = index
        BY <1>1, <2>4, <3>1
      <4>2. /\ entries'["value"] = entries["value"]
            /\ Len(entries'["name"]) = m /\ entries'["name"][m] = mark["name"]
            /\ \A i \in 1..index : entries'["name"][i] = entries["name"][i]
        BY <2>5, <2>11, <2>12, <3>1, <4>1
      <4>3. \A i \in 1..index : EndOf(i)' = EndOf(i)
        BY <2>14, <2>15, <4>1, <4>2
      <4>4. \A p \in mark["name"]..(pos + 1) : p \in mark["name"]..pos \/ p = pos + 1
        BY <1>0, <2>5
      <4>5. \A p \in mark["name"]..pos : Role(p) = "name"
        <5>1. mark["name"] # NULL
          BY <1>2, <2>5, <3>1
        <5> QED BY <1>1, <2>5, <5>1, WithinFacts DEF Parts, MarksFit, Pending
      <4>6. EndOf(m)' = pos + 1
        BY <2>14, <2>15, <4>1
      <4>7. \A p \in entries'["name"][m]..(EndOf(m)') : Role(p) \in {"name", ":", "value"}
        BY <1>1, <3>1, <4>2, <4>4, <4>5, <4>6
      <4> QED BY <2>5, <2>13, <2>15, <4>1, <4>2, <4>3, <4>7
    <3>2. CASE cs = "value" /\ role = "crlf"
      <4>1. Named = m /\ Named' = m /\ index' = m
        BY <1>1, <2>4, <3>2
      <4>2. /\ entries'["name"] = entries["name"]
            /\ Len(entries'["value"]) = m /\ entries'["value"][m] = mark["value"]
            /\ \A i \in 1..index : entries'["value"][i] = entries["value"][i]
        BY <2>5, <2>11, <2>12, <3>2, <4>1
      <4>3. \A i \in 1..index : EndOf(i)' = EndOf(i)
        BY <1>0, <2>14, <2>15, <4>1, <4>2
      <4>4. EndOf(m)' = mark["value"] /\ EndOf(m) = pos
        BY <2>14, <2>15, <4>1, <4>2
      <4>5. mark["value"] <= pos
        <5>1. mark["value"] \in from..pos
          BY <1>2, <2>2, <2>5, <2>10, <3>2 DEF ListsFit
        <5> QED BY <5>1
      <4>6. entries["name"][m] \in Nat
        BY <2>5, <4>1, ElementOfSeq
      <4>7. \A p \in entries["name"][m]..mark["value"] : p \in entries["name"][m]..pos
        BY <1>0, <2>5, <4>5, <4>6
      <4>8. \A p \in entries'["name"][m]..(EndOf(m)') : Role(p) \in {"name", ":", "value"}
        BY <2>13, <2>15, <4>1, <4>2, <4>4, <4>7
      <4> QED BY <2>5, <2>13, <2>15, <4>1, <4>2, <4>3, <4>8
    <3>3. CASE cs \in {":", "value"} /\ role = "value"
      <4>1. Named = m /\ Named' = m /\ index' = index
        BY <1>1, <2>4, <3>3
      <4>2. entries'["name"] = entries["name"] /\ entries'["value"] = entries["value"]
        BY <2>5, <2>12, <3>3
      <4>3. \A i \in 1..index : EndOf(i)' = EndOf(i)
        BY <2>14, <2>15, <4>1, <4>2
      <4>4. EndOf(m)' = pos + 1 /\ EndOf(m) = pos
        BY <2>14, <2>15, <4>1
      <4>5. entries["name"][m] \in Nat
        BY <2>5, <4>1, ElementOfSeq
      <4>6. \A p \in entries["name"][m]..(pos + 1) : p \in entries["name"][m]..pos \/ p = pos + 1
        BY <1>0, <4>5
      <4>7. \A p \in entries'["name"][m]..(EndOf(m)') : Role(p) \in {"name", ":", "value"}
        BY <1>1, <2>13, <2>15, <3>3, <4>1, <4>2, <4>4, <4>6
      <4> QED BY <2>5, <2>13, <2>15, <4>1, <4>2, <4>3, <4>7
    <3>4. CASE \/ cs = "name" /\ role = "name"
               \/ cs \notin {"name", ":", "value"} /\ role \notin {":", "value", "crlf"}
      <4>1. Named = index /\ Named' = index /\ index' = index
        BY <1>1, <2>4, <3>4
      <4>2. entries'["name"] = entries["name"] /\ entries'["value"] = entries["value"]
        BY <2>5, <2>12, <3>4
      <4>3. \A i \in 1..index : EndOf(i)' = EndOf(i)
        BY <2>14, <2>15, <4>1, <4>2
      <4> QED BY <2>5, <2>13, <4>1, <4>2, <4>3
    <3> QED BY <2>3, <3>1, <3>2, <3>3, <3>4
  <2> QED BY <1>1, <2>8, <2>11, <2>16 DEF ListsFit
<1>6. HeadersInStep'
  BY <1>1, <1>5 DEF HeadersInStep
<1> QED BY <1>4, <1>6

\* A byte of the request line or of a header.
LEMMA HeadByteStep ==
  ASSUME TypeOK, Parts, HeadByte
  PROVE  TypeOK' /\ Parts'
<1>0. /\ stream \in Streams /\ Len(stream) \in Nat /\ pos \in Nat /\ pos <= Len(stream)
      /\ from \in Nat /\ from <= pos /\ left \in Nat /\ index \in Nat /\ mark \in [Elements -> Nat]
  BY TypeFacts
<1> PICK role : role = cs'
  OBVIOUS
<1>1. /\ Role(pos + 1) = role /\ pos' = pos + 1 /\ from' = from /\ from # NULL /\ Role(from) = "path"
      /\ pos + 1 \in 1..Len(stream) /\ left' = left - 1 /\ left > 0 /\ left <= Len(stream) - pos
      /\ role \in InHead /\ Byte \in Bytes /\ Byte.role = role /\ ~eating /\ chunkSize = 0
      /\ phase = "parsing"
      /\ mark' = [e \in Elements |->
           IF role \notin Within[e] THEN NULL
           ELSE IF cs \notin Within[e] THEN pos + 1 ELSE mark[e]]
      /\ index' = IF role = "crlf" THEN index + 1 ELSE index
      /\ UNCHANGED <<stream, phase, chunkSize, eating, chunked, from, body, completed, torn>>
      /\ \A p : Role(p)' = Role(p)
  BY HeadFacts
<1>2. PICK b \in Bytes : b = Byte
  BY <1>1
<1>3. b.role = role /\ stream'[pos'] = b /\ stream[pos + 1] = b /\ b.n # Chunked
  BY <1>1, <1>2 DEF Byte, Bytes, InHead
<1>4. InStep'
  <2>1. cs' = StateAfter(b) /\ ~IsCounted(b) /\ ~IsOfChunks(b)
    BY <1>1, <1>3 DEF StateAfter, IsCounted, IsOfChunks, InHead
  <2>2. b.role \notin {"bad", "end", "body", "data"} /\ cs' # "error"
    BY <1>1, <1>3 DEF InHead
  <2>3. StateFits(stream[pos])'
    BY <1>1, <1>3, <2>1, <2>2, FitsNext
  <2>4. left' <= Len(stream') - pos' /\ pos' > 0 /\ from' > 0
    BY <1>0, <1>1 DEF NULL
  <2> QED BY <1>1, <2>2, <2>3, <2>4 DEF InStep
<1>5. Enumerates(body', BodyTo(pos')) /\ Enumerates(completed', EndsTo(pos'))
  <2>1. ~Ends(b) /\ role \notin {"body", "data"}
    BY <1>1, <1>3 DEF Ends, InHead
  <2>2. BodyTo(pos + 1) = BodyTo(pos) /\ EndsTo(pos + 1) = EndsTo(pos)
    BY <1>0, <1>1, <1>3, <2>1, OneByte
  <2> QED BY <1>1, <2>2 DEF Parts
<1>6. TypeOK'
  <2>1. mark' \in [Elements -> Nat]
    <3>1. pos + 1 \in Nat /\ NULL \in Nat
      BY <1>0 DEF NULL
    <3> QED BY <1>0, <1>1, <3>1
  <2>2. pos' \in 0..Len(stream') /\ left' \in Nat /\ from' \in 0..pos' /\ index' \in Nat
    BY <1>0, <1>1
  <2>3. cs' \in InHead
    BY <1>1
  <2> QED BY <1>1, <2>1, <2>2, <2>3, HeadText, HeadLists DEF TypeOK
<1> QED BY <1>1, <1>4, <1>5, <1>6, HeadMarks, HeadText, HeadLists, PartsNext

-----------------------------------------------------------------------------
(* The theorems.                                                           *)

\* Nothing is parsed to begin with.
LEMMA InitInv == Init => IInv
<1> SUFFICES ASSUME Init PROVE TypeOK /\ Parts
  BY PartsAreInv
<1>1. /\ stream \in Streams /\ Len(stream) \in Nat /\ pos = 0 /\ left = 0 /\ phase = "idle" /\ cs = "start"
      /\ mark = [e \in Elements |-> 0] /\ chunkSize = 0 /\ ~eating /\ eating = FALSE /\ chunked = FALSE
      /\ index = 0 /\ from = 0 /\ NULL = 0
      /\ got = [e \in Elements |-> <<>>] /\ entries = [l \in Lists |-> <<>>]
      /\ body = <<>> /\ completed = <<>> /\ torn = FALSE /\ broken = FALSE
  BY StreamFacts DEF Init, NoMarks, NULL
<1>2. TypeOK
  <2>1. pos \in 0..Len(stream) /\ from \in 0..pos
    BY <1>1
  <2> QED BY <1>1, <2>1, EnumEmpty DEF TypeOK
<1>3. InStep /\ TextIsGiven /\ HeadersInStep
  BY <1>1 DEF InStep, TextIsGiven, HeadersInStep
<1>4. MarksFit
  BY <1>1 DEF MarksFit, Pending
<1>5. BodyTo(pos) = {} /\ EndsTo(pos) = {}
  <2>1. \A q \in 1..0 : FALSE
    OBVIOUS
  <2> QED BY <1>1, <2>1 DEF BodyTo, EndsTo
<1> QED BY <1>1, <1>2, <1>3, <1>4, <1>5, EnumEmpty DEF Parts

\* Every step keeps the invariant.
LEMMA NextInv == IInv /\ [Next]_vars => IInv'
<1> SUFFICES ASSUME TypeOK, Parts, [Next]_vars PROVE TypeOK' /\ Parts'
  <2>1. IInv' <=> TypeOK' /\ Parts'
    BY PartsAreInv, PTL
  <2> QED BY <2>1, PartsAreInv
<1>1. ASSUME NEW m \in 1..Len(stream), Read(m) PROVE TypeOK' /\ Parts'
  <2>1. m \in Nat /\ m > 0
    BY TypeFacts
  <2> QED BY <1>1, <2>1, ReadStep
<1>2. CASE Start
  BY <1>2, StartStep
<1>3. CASE HeadByte
  BY <1>3, HeadByteStep
<1>4. CASE HeadersEnd
  BY <1>4, HeadersEndStep
<1>5. CASE ChunkFrame
  BY <1>5, FrameStep
<1>6. CASE ChunkData
  BY <1>6, ChunkDataStep
<1>7. CASE Fail
  BY <1>7, FailStep
<1>8. CASE EndOfBuffer
  BY <1>8, EndOfBufferStep
<1>9. CASE UNCHANGED vars
  <2> USE <1>9 DEF vars
  <2>1. TypeOK'
    BY DEF TypeOK
  <2>2. InStep'
    BY DEF Parts, InStep, StateFits, StateAfter, IsCounted, IsOfChunks, Role
  <2>3. MarksFit'
    BY DEF Parts, MarksFit, Pending, Role
  <2>4. TextIsGiven'
    BY DEF Parts, TextIsGiven, Given, Pending, Role
  <2>5. ListsFit => ListsFit'
    BY DEF ListsFit, Named, EndOf, Begins, Role
  <2>6. HeadersInStep'
    BY <2>5 DEF Parts, HeadersInStep, NoneEmpty, Role
  <2> QED BY <2>1, <2>2, <2>3, <2>4, <2>6, PartsNext DEF Parts
<1> QED BY <1>1, <1>2, <1>3, <1>4, <1>5, <1>6, <1>7, <1>8, <1>9 DEF Next

\* The parser is always where the last byte leaves it, and what JavaScript was told
\* is what is behind its marks.
THEOREM Inductive == Spec => []IInv
BY InitInv, NextInv, PTL DEF Spec

\* Bodies are told from all else, and only what is not HTTP stops the machine
\* (skip_body, skip_chunk_data, the grammar).
THEOREM ParserKeepsInStep == Spec => []KeepsInStep
<1>1. IInv => KeepsInStep
  BY DEF IInv
<1> QED BY <1>1, Inductive, PTL

\* END_REQUEST is called once for each request, where it ends.
THEOREM RequestsCompleted == Spec => []CompletedInTime
<1>1. IInv => CompletedInTime
  BY DEF IInv
<1> QED BY <1>1, Inductive, PTL

\* What on_headers_complete finds: nothing is marked, nor was anything when the
\* request has gone on from there.
LEMMA ToldFacts ==
  ASSUME TypeOK, Parts, Told
  PROVE  /\ from # NULL /\ pos > 0 /\ Role(pos) \notin InHead
         /\ \A e \in Elements : mark[e] = NULL
<1>1. from # NULL /\ cs \notin InHead \cup {"error"} /\ pos > 0
  BY TypeFacts DEF Told, NULL
<1>2. cs = StateAfter(stream[pos])
  BY <1>1 DEF Parts, InStep, StateFits
<1>3. Role(pos) \notin InHead
  <2> PICK b : b = stream[pos]
    OBVIOUS
  <2>1. b.role \in InHead => StateAfter(b) = b.role
    BY DEF StateAfter, InHead
  <2> QED BY <1>1, <1>2, <2>1 DEF Role
<1> QED BY <1>1, <1>3, NoneMarked DEF Parts

\* However the stream is cut, no byte of the text is lost, doubled or moved (the
\* marks, which libebb carries from one buffer to the next).
THEOREM TextKept == Spec => []TextIsKept
<1>1. IInv => TextIsKept
  <2> SUFFICES ASSUME TypeOK, Parts, Told, NEW e \in Elements
               PROVE  Enumerates(got[e], {p \in from..pos : Role(p) \in Within[e]})
    BY PartsAreInv DEF TextIsKept
  <2>1. from # NULL /\ mark[e] = NULL
    BY ToldFacts
  <2>2. Given(e) = pos
    BY <2>1 DEF Given, Pending
  <2> QED BY <2>1, <2>2 DEF Parts, TextIsGiven
<1> QED BY <1>1, Inductive, PTL

\* Without torn headers and empty values the lists of names and values are as the
\* client sent them, each value with its name (on_header_field, on_header_value).
THEOREM HeadersSent == Spec => []HeadersAsSent
<1>1. IInv => HeadersAsSent
  <2> SUFFICES ASSUME TypeOK, Parts, from # NULL, ~torn, NoneEmpty
               PROVE  /\ ~broken
                      /\ Told =>
                           /\ \A l \in Lists : Enumerates(entries[l], Begins(l))
                           /\ Len(entries["name"]) = Len(entries["value"])
                           /\ \A i \in DOMAIN entries["name"] :
                                \A p \in entries["name"][i]..entries["value"][i] :
                                  Role(p) \in {"name", ":", "value"}
    BY PartsAreInv DEF HeadersAsSent
  <2>1. ListsFit
    BY DEF Parts, HeadersInStep
  <2>2. ASSUME Told
        PROVE  /\ \A l \in Lists : Enumerates(entries[l], Begins(l))
               /\ Len(entries["name"]) = Len(entries["value"])
               /\ \A i \in DOMAIN entries["name"] :
                    \A p \in entries["name"][i]..entries["value"][i] : Role(p) \in {"name", ":", "value"}
    <3>1. Named = index /\ \A l \in Lists : mark[l] = NULL
      BY <2>2, ToldFacts, WithinFacts DEF Named, InHead
    <3>2. \A l \in Lists : Begins(l) \ {mark[l]} = Begins(l)
      <4>1. NULL \notin from..pos
        BY TypeFacts DEF NULL
      <4> QED BY <3>1, <4>1 DEF Begins
    <3>3. DOMAIN entries["name"] = 1..index /\ index \in Nat
      <4>1. entries["name"] \in Seq(Nat) /\ index \in Nat
        BY TypeFacts DEF Lists
      <4> QED BY <2>1, <3>1, <4>1, LenProperties DEF ListsFit
    <3>4. \A i \in 1..index : EndOf(i) = entries["value"][i]
      BY <3>3 DEF EndOf
    <3> QED BY <2>1, <3>1, <3>2, <3>3, <3>4 DEF ListsFit
  <2> QED BY <2>1, <2>2 DEF ListsFit
<1> QED BY <1>1, Inductive, PTL
=============================================================================
