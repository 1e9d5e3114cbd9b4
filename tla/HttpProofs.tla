----------------------------- MODULE HttpProofs -----------------------------
(***************************************************************************)
(* For any number of requests and chunks: responses leave in the order of  *)
(* the requests, a connection that drains has written them, its lists are  *)
(* in order, and its descriptor is closed once.                            *)
(***************************************************************************)
EXTENDS HttpConnection, SequenceTheorems, TLAPS

-----------------------------------------------------------------------------
(* Types.                                                                  *)

\* A queue of one buffer is empty without it.
LEMMA LastSent ==
  ASSUME NEW S, NEW q \in Seq(S), q # <<>>
  PROVE  Tail(q) \in Seq(S) /\ (Len(q) = 1 => Tail(q) = <<>>) /\ q[1] \in S /\ Head(q) = q[1]
<1>1. Tail(q) \in Seq(S) /\ Len(Tail(q)) = Len(q) - 1 /\ Len(q) \in Nat /\ Len(q) # 0
  BY HeadTailProperties
<1>2. \A t \in Seq(S) : Len(t) = 0 => t = <<>>
  OBVIOUS
<1>3. q[1] \in S /\ Head(q) = q[1]
  BY <1>1
<1> QED BY <1>1, <1>2, <1>3

\* A step of liboi preserves the types.
LEMMA LoopKeepsType == TypeOK /\ SocketStep => TypeOK'
<1> SUFFICES ASSUME TypeOK, SocketStep PROVE TypeOK'
  OBVIOUS
<1>0. /\ UNCHANGED <<parse, begun, keep, js, requests, finished, output, chunks, done, owed,
                     drainCloses, back, crashed>>
  BY DEF SocketStep
<1>w. wire' \in Seq(Chunks)
  <2>1. CASE phase = "write" /\ Len(out') < Len(out)
    <3>1. Send
      BY <2>1 DEF SocketStep, SocketSteps, IoEvent, TimeoutEvent, ReadNothing, ReadConnects, ReadData,
                  ReadEof, ReadError, WriteNothing, SendError, Decide, Closing, TypeOK, SocketTypeOK
    <3>2. out # <<>> /\ out \in Seq(Chunks) /\ wire \in Seq(Chunks)
      BY <3>1 DEF Send, TypeOK, SocketTypeOK
    <3>3. out[1] \in Chunks
      BY <3>2, LastSent
    <3> QED BY <2>1, <3>2, <3>3, AppendProperties DEF SocketStep
  <2> QED BY <2>1 DEF SocketStep, TypeOK
<1> USE DEF TypeOK, SocketTypeOK, Phases, Hooks, action, watcher, local
<1>1. CASE IoEvent
  <2>1. fed' \in BOOLEAN /\ haveR' \in BOOLEAN /\ haveW' \in BOOLEAN
    BY <1>1, Zenon DEF IoEvent
  <2> QED BY <1>0, <1>w, <1>1, <2>1 DEF IoEvent
<1>2. CASE TimeoutEvent
  BY <1>0, <1>w, <1>2 DEF TimeoutEvent
<1>3. CASE ReadNothing
  <2>1. haveR' \in BOOLEAN
    BY <1>3, Zenon DEF ReadNothing
  <2> QED BY <1>0, <1>w, <1>3, <2>1 DEF ReadNothing
<1>4. CASE ReadConnects
  BY <1>0, <1>w, <1>4 DEF ReadConnects
<1>5. CASE ReadData
  BY <1>0, <1>w, <1>5 DEF ReadData
<1>6. CASE ReadEof
  <2>1. readW' \in BOOLEAN /\ fed' \in BOOLEAN /\ timeW' \in BOOLEAN /\ readAct' \in BOOLEAN
    BY <1>6, Zenon DEF ReadEof
  <2> QED BY <1>0, <1>w, <1>6, <2>1 DEF ReadEof
<1>7. CASE ReadError
  BY <1>0, <1>w, <1>7 DEF ReadError
<1>8. CASE WriteNothing
  <2>1. haveW' \in BOOLEAN /\ writeW' \in BOOLEAN
    BY <1>8, Zenon DEF WriteNothing
  <2> QED BY <1>0, <1>w, <1>8, <2>1 DEF WriteNothing
<1>9. CASE Send
  <2>1. Tail(out) \in Seq(Chunks)
    BY <1>9, LastSent DEF Send
  <2>2. writeW' \in BOOLEAN /\ timeW' \in BOOLEAN
    BY <1>9, Zenon DEF Send
  <2> QED BY <1>0, <1>w, <1>9, <2>1, <2>2 DEF Send
<1>10. CASE SendError
  BY <1>0, <1>w, <1>10 DEF SendError
<1>11. CASE Decide
  BY <1>0, <1>w, <1>11 DEF Decide
<1>12. CASE Closing
  <2>1. <<>> \in Seq(Chunks)
    OBVIOUS
  <2>2. /\ readW' \in BOOLEAN /\ writeW' \in BOOLEAN /\ timeW' \in BOOLEAN
        /\ fed' \in BOOLEAN /\ attached' \in BOOLEAN
    BY <1>12, Zenon DEF Closing
  <2> QED BY <1>0, <1>w, <1>12, <2>1, <2>2 DEF Closing
<1> QED BY <1>1, <1>2, <1>3, <1>4, <1>5, <1>6, <1>7, <1>8, <1>9, <1>10, <1>11, <1>12
       DEF SocketStep, SocketSteps

\* Closing a descriptor keeps the types.
LEMMA CloseKeepsType == SocketTypeOK(Chunks) /\ FullClose => SocketTypeOK(Chunks)'
<1> SUFFICES ASSUME SocketTypeOK(Chunks), FullClose PROVE SocketTypeOK(Chunks)'
  OBVIOUS
<1>1. stray' \in BOOLEAN /\ readAct' \in BOOLEAN /\ writeAct' \in BOOLEAN /\ fed' \in BOOLEAN
  BY Zenon DEF FullClose, CloseFd, FeedRead, SocketTypeOK
<1>2. fd' \in {"none", "open", "closed"}
  BY DEF FullClose, CloseFd, SocketTypeOK
<1> QED BY <1>1, <1>2 DEF FullClose, SocketTypeOK, local

\* What is at the front is the first on the list.
LEMMA FrontIsFirst ==
  ASSUME NEW S, requests \in Seq(S)
  PROVE  /\ \A r \in Front : requests # <<>> /\ r = requests[1] /\ r \in S
         /\ requests # <<>> => Front = {requests[1]}
<1>1. Len(requests) \in Nat /\ DOMAIN requests = 1..Len(requests) /\ (requests # <<>> => Len(requests) > 0)
  OBVIOUS
<1>2. \A i \in 1..Len(requests) : requests[i] \in S
  OBVIOUS
<1> QED BY <1>1, <1>2 DEF Front

\* So does a step of http.cc.
LEMMA HttpKeepsType ==
  ASSUME TypeOK, \/ Parser \/ Flush \/ Hook \/ Reset
                 \/ \E r \in Ids : RespondData(r)
                 \/ \E r \in Ids : RespondNull(r)
  PROVE  TypeOK'
<1> USE DEF TypeOK, socketVars, httpVars
<1>s. UNCHANGED <<fd, stray, attached, connected, action, out, watcher, local, reset>>
        => SocketTypeOK(Chunks)'
  BY DEF SocketTypeOK, action, watcher, local
<1>c. FullClose => SocketTypeOK(Chunks)'
  BY CloseKeepsType
<1> USE DEF Phases, Hooks, AfterHook
<1>1. CASE Begin
  <2>1. begun + 1 \in Ids /\ begun' \in 0..MaxRequests
    BY <1>1, MaxRequestsIsNat DEF Begin, Ids
  <2>2. requests' \in Seq(Ids)
    BY <1>1, <2>1, AppendProperties DEF Begin, Newest
  <2> QED BY <1>s, <1>1, <2>1, <2>2 DEF Begin
<1>2. CASE \E k \in BOOLEAN : HeadersComplete(k)
  BY <1>s, <1>2 DEF HeadersComplete
<1>3. CASE \E p \in {"tail", "start"} : Body(p)
  BY <1>s, <1>3 DEF Body
<1>4. CASE ParseDone \/ JSReturns
  BY <1>s, <1>4 DEF ParseDone, JSReturns
<1>5. CASE ParseError
  BY <1>c, <1>5 DEF ParseError
<1>6. CASE \E r \in Ids : RespondData(r)
  <2> PICK r \in Ids : RespondData(r)
    BY <1>6
  <2>1. chunks[r] + 1 \in 1..MaxChunks /\ chunks[r] + 1 \in 0..MaxChunks
    BY MaxChunksIsNat DEF RespondData
  <2>2. <<r, chunks[r] + 1>> \in Chunks
    BY <2>1 DEF Chunks
  <2>3. output' \in [Ids -> Seq(Chunks)]
    BY <2>2, AppendProperties DEF RespondData
  <2>4. chunks' \in [Ids -> 0..MaxChunks] /\ phase' = "flush" /\ back' \in {"idle", "js"}
    BY <2>1 DEF RespondData, InJS
  <2> QED BY <1>s, <2>3, <2>4 DEF RespondData
<1>7. CASE \E r \in Ids : RespondNull(r)
  <2> PICK r \in Ids : RespondNull(r)
    BY <1>7
  <2>1. done' \in [Ids -> BOOLEAN] /\ owed' \in [Ids -> 0..MaxChunks]
    BY DEF RespondNull
  <2>2. phase' = "flush" /\ back' \in {"idle", "js"}
    BY DEF RespondNull, InJS
  <2> QED BY <1>s, <2>1, <2>2 DEF RespondNull
<1>8. CASE FlushChunk
  <2> PICK r \in Front : /\ output[r] # <<>>
                         /\ WriteBuf(Head(output[r]))
                         /\ output' = [output EXCEPT ![r] = Tail(@)]
    BY <1>8 DEF FlushChunk
  <2>1. r \in Ids
    BY FrontIsFirst
  <2>2. output' \in [Ids -> Seq(Chunks)] /\ Head(output[r]) \in Chunks
    BY <2>1, HeadTailProperties
  <2>3. SocketTypeOK(Chunks)'
    <3>1. out' \in Seq(Chunks)
      <4>1. out \in Seq(Chunks)
        BY DEF SocketTypeOK
      <4>2. Append(out, Head(output[r])) \in Seq(Chunks)
        BY <2>2, <4>1, AppendProperties
      <4> QED BY ONLY <4>1, <4>2, WriteBuf(Head(output[r])) DEF WriteBuf
    <3>2. writeW' \in BOOLEAN
      BY Zenon DEF WriteBuf, WatchForWrite, SocketTypeOK
    <3> QED BY <3>1, <3>2 DEF WriteBuf, SocketTypeOK, action, local
  <2> QED BY <1>8, <2>2, <2>3 DEF FlushChunk
<1>9. CASE FlushDone
  <2> PICK r \in Front : drainCloses' = (drainCloses \/ ~keep[r]) /\ KeepFinished(r)
    BY <1>9 DEF FlushDone
  <2>1. r \in Ids /\ requests # <<>>
    BY FrontIsFirst
  <2>2. requests' \in Seq(Ids) /\ finished' \in Seq(Ids)
    BY <1>9, <2>1, HeadTailProperties, AppendProperties DEF FlushDone, KeepFinished
  <2>3. drainCloses' \in BOOLEAN
    BY Zenon
  <2> QED BY <1>s, <1>9, <2>2, <2>3 DEF FlushDone
<1>10. CASE FlushReturns
  BY <1>s, <1>10 DEF FlushReturns
<1>11. CASE OnConnect \/ OnEof \/ OnTimeout \/ OnDrain
  BY <1>s, <1>c, <1>11 DEF OnConnect, OnEof, OnTimeout, OnDrain
<1>12. CASE OnClose
  <2>1. js' \in [Ids -> {"none", "live", "dead"}]
    BY <1>12 DEF OnClose
  <2>2. crashed' \in BOOLEAN
    BY <1>12, Zenon DEF OnClose
  <2> QED BY <1>s, <1>12, <2>1, <2>2 DEF OnClose
<1>13. CASE Reset
  <2>1. reset' \in BOOLEAN
    BY <1>13, Zenon DEF Reset, PeerResets
  <2> QED BY <1>13, <2>1 DEF Reset, PeerResets, SocketTypeOK, action, watcher, local
<1> QED BY <1>1, <1>2, <1>3, <1>4, <1>5, <1>6, <1>7, <1>8, <1>9, <1>10, <1>11, <1>12, <1>13
       DEF Parser, Flush, Hook

\* And so every step.
LEMMA TypeStep == TypeOK /\ Next => TypeOK'
BY LoopKeepsType, HttpKeepsType DEF Next

-----------------------------------------------------------------------------
(* Where the descriptor stands.                                            *)

Control ==
  /\ ClosedOnce /\ QueueIsWatched /\ ClosedIsQuiet /\ ReleasedAfterClose
  /\ DrainedIsEmpty /\ AttachedTillClose

\* A step of liboi keeps the descriptor, the watchers and the actions in accord.
LEMMA LoopKeepsControl == TypeOK /\ Control /\ SocketStep => Control'
<1> SUFFICES ASSUME TypeOK, Control, SocketStep PROVE Control'
  OBVIOUS
<1>0. UNCHANGED back /\ out \in Seq(Chunks) /\ fd \in {"none", "open", "closed"}
  BY DEF SocketStep, TypeOK, SocketTypeOK
<1> USE <1>0 DEF Control, ClosedOnce, QueueIsWatched, ClosedIsQuiet, InHooks, Outside, ReleasedAfterClose,
      DrainedIsEmpty, AttachedTillClose, action, watcher, local
<1>1. CASE IoEvent
  BY <1>1 DEF IoEvent
<1>2. CASE TimeoutEvent
  BY <1>2 DEF TimeoutEvent
<1>3. CASE ReadNothing
  BY <1>3 DEF ReadNothing
<1>4. CASE ReadConnects
  BY <1>4 DEF ReadConnects
<1>5. CASE ReadData
  BY <1>5 DEF ReadData
<1>6. CASE ReadEof
  BY <1>6 DEF ReadEof
<1>7. CASE ReadError
  BY <1>7 DEF ReadError
<1>8. CASE WriteNothing
  BY <1>8 DEF WriteNothing
<1>9. CASE Send
  <2>1. Len(out) = 1 => Tail(out) = <<>>
    BY <1>9, LastSent DEF Send
  <2> QED BY <1>9, <2>1 DEF Send, SentLast
<1>10. CASE SendError
  BY <1>10 DEF SendError
<1>11. CASE Decide
  BY <1>11 DEF Decide, BothEnded
<1>12. CASE Closing
  BY <1>12 DEF Closing
<1> QED BY <1>1, <1>2, <1>3, <1>4, <1>5, <1>6, <1>7, <1>8, <1>9, <1>10, <1>11, <1>12
       DEF SocketStep, SocketSteps

\* So does a step of http.cc.
LEMMA HttpKeepsControl ==
  ASSUME Control, back \in {"idle", "js"},
                  \/ Parser \/ Flush \/ Hook \/ Reset
                  \/ \E r \in Ids : RespondData(r)
                  \/ \E r \in Ids : RespondNull(r)
  PROVE  Control'
<1> USE DEF Control, ClosedOnce, QueueIsWatched, ClosedIsQuiet, InHooks, Outside, ReleasedAfterClose,
      DrainedIsEmpty, AttachedTillClose, action, watcher, local, socketVars, httpVars, AfterHook
<1>1. CASE Begin \/ ParseDone \/ JSReturns
  BY <1>1 DEF Begin, ParseDone, JSReturns
<1>2. CASE \E k \in BOOLEAN : HeadersComplete(k)
  BY <1>2 DEF HeadersComplete
<1>3. CASE \E p \in {"tail", "start"} : Body(p)
  BY <1>3 DEF Body
<1>4. CASE ParseError
  BY <1>4 DEF ParseError, FullClose, CloseFd, FeedRead
<1>5. CASE \E r \in Ids : RespondData(r)
  BY <1>5 DEF RespondData, InJS
<1>6. CASE \E r \in Ids : RespondNull(r)
  BY <1>6 DEF RespondNull, InJS
<1>7. CASE FlushChunk
  BY <1>7 DEF FlushChunk, WriteBuf, WatchForWrite
<1>8. CASE FlushDone \/ FlushReturns
  <2>1. CASE FlushDone
    BY <2>1 DEF FlushDone
  <2>2. CASE FlushReturns
    BY <2>2 DEF FlushReturns
  <2> QED BY <1>8, <2>1, <2>2
<1>9. CASE OnConnect
  BY <1>9 DEF OnConnect
<1>10. CASE OnEof \/ OnTimeout
  BY <1>10 DEF OnEof, OnTimeout, FullClose, CloseFd, FeedRead
<1>11. CASE OnDrain
  BY <1>11 DEF OnDrain, FullClose, CloseFd, FeedRead
<1>12. CASE OnClose
  BY <1>12 DEF OnClose
<1>13. CASE Reset
  BY <1>13 DEF Reset, PeerResets
<1> QED BY <1>1, <1>2, <1>3, <1>4, <1>5, <1>6, <1>7, <1>8, <1>9, <1>10, <1>11, <1>12, <1>13
       DEF Parser, Flush, Hook

\* And so every step.
LEMMA ControlStep == TypeOK /\ Control /\ Next => Control'
BY LoopKeepsControl, HttpKeepsControl DEF Next, TypeOK

-----------------------------------------------------------------------------
(* The lists.                                                              *)

\* Two lists that hold 1, 2, ..., n in order, the one after the other.
LEMMA InOrderMeans ==
  ASSUME NEW f \in Seq(Nat), NEW q \in Seq(Nat), NEW n \in Nat
  PROVE  f \o q = [i \in 1..n |-> i] <=>
           /\ Len(f) + Len(q) = n
           /\ \A i \in 1..Len(f) : f[i] = i
           /\ \A i \in 1..Len(q) : q[i] = Len(f) + i
<1> DEFINE id == [i \in 1..n |-> i]
<1>1. /\ f \o q \in Seq(Nat) /\ Len(f \o q) = Len(f) + Len(q)
      /\ \A i \in 1..(Len(f) + Len(q)) : (f \o q)[i] = IF i <= Len(f) THEN f[i] ELSE q[i - Len(f)]
  BY ConcatProperties
<1>2. id \in Seq(Nat) /\ Len(id) = n /\ \A i \in 1..n : id[i] = i
  OBVIOUS
<1>3. Len(f) \in Nat /\ Len(q) \in Nat
  OBVIOUS
<1>4. ASSUME f \o q = id
      PROVE  /\ Len(f) + Len(q) = n
             /\ \A i \in 1..Len(f) : f[i] = i
             /\ \A i \in 1..Len(q) : q[i] = Len(f) + i
  <2>1. Len(f) + Len(q) = n
    BY <1>1, <1>2, <1>4
  <2>2. \A i \in 1..Len(f) : i \in 1..n /\ f[i] = (f \o q)[i]
    BY <1>1, <1>3, <2>1
  <2>3. \A i \in 1..Len(q) : Len(f) + i \in 1..n /\ q[i] = (f \o q)[Len(f) + i]
    BY <1>1, <1>3, <2>1
  <2> QED BY <1>2, <1>4, <2>1, <2>2, <2>3
<1>5. ASSUME Len(f) + Len(q) = n,
             \A i \in 1..Len(f) : f[i] = i,
             \A i \in 1..Len(q) : q[i] = Len(f) + i
      PROVE  f \o q = id
  <2>1. \A i \in 1..n : (f \o q)[i] = id[i]
    BY <1>1, <1>2, <1>3, <1>5
  <2> HIDE DEF id
  <2> QED BY <1>1, <1>2, <1>5, <2>1, SeqEqual
<1> QED BY <1>4, <1>5

\* What the invariant says of the lists, number by number.
Listed ==
  /\ Len(finished) + Len(requests) = begun
  /\ \A i \in 1..Len(finished) : finished[i] = i
  /\ \A i \in 1..Len(requests) : requests[i] = Len(finished) + i

NoneIsLeft == phase = "gone" /\ ~crashed => \A r \in Ids : js[r] # "live"

\* ListsAreInOrder in the two parts that are proved apart.
LEMMA ListedMeans == TypeOK => (ListsAreInOrder <=> Listed /\ NoneIsLeft)
<1> SUFFICES ASSUME TypeOK PROVE ListsAreInOrder <=> Listed /\ NoneIsLeft
  OBVIOUS
<1>1. finished \in Seq(Nat) /\ requests \in Seq(Nat) /\ begun \in Nat
  <2>1. Ids \subseteq Nat
    BY MaxRequestsIsNat DEF Ids
  <2>2. finished \in Seq(Ids) /\ requests \in Seq(Ids) /\ begun \in Nat
    BY MaxRequestsIsNat DEF TypeOK
  <2> QED BY <2>1, <2>2, SeqMonotonic
<1> QED BY <1>1, InOrderMeans DEF ListsAreInOrder, Listed, NoneIsLeft

Lists == ListsAreInOrder /\ ObjectsWereBegun

\* Every step keeps the two lists.
LEMMA ListsStep == TypeOK /\ TypeOK' /\ Lists /\ Next => Lists'
<1> SUFFICES ASSUME TypeOK, TypeOK', Lists, Next PROVE (Listed /\ NoneIsLeft /\ ObjectsWereBegun)'
  <2>1. TypeOK' => (ListsAreInOrder' <=> Listed' /\ NoneIsLeft')
    BY ListedMeans, PTL
  <2> QED BY <2>1 DEF Lists
<1>0. /\ Listed /\ NoneIsLeft /\ ObjectsWereBegun
      /\ finished \in Seq(Ids) /\ requests \in Seq(Ids) /\ begun \in 0..MaxRequests
      /\ js \in [Ids -> {"none", "live", "dead"}]
      /\ Len(finished) \in Nat /\ Len(requests) \in Nat
  BY ListedMeans DEF Lists, TypeOK
<1> USE MaxRequestsIsNat DEF Ids
<1>same. CASE UNCHANGED <<finished, requests, begun, js, crashed>> /\ (phase' = "gone" => phase = "gone")
  BY <1>0, <1>same DEF Listed, NoneIsLeft, ObjectsWereBegun
<1>1. CASE Begin
  <2>1. begun + 1 \in Ids /\ phase' # "gone"
    BY <1>0, <1>1 DEF Begin, socketVars
  <2>2. /\ Len(requests') = Len(requests) + 1
        /\ \A i \in 1..Len(requests) : requests'[i] = requests[i]
        /\ requests'[Len(requests) + 1] = begun + 1
    BY <1>0, <1>1, <2>1, AppendProperties DEF Begin, Newest
  <2>3. Listed'
    <3>1. UNCHANGED finished /\ begun' = begun + 1
      BY <1>1 DEF Begin
    <3>2. begun = Len(finished) + Len(requests) /\ \A i \in 1..Len(requests) : requests[i] = Len(finished) + i
      BY <1>0 DEF Listed
    <3>3. \A i \in 1..Len(requests') : i \in 1..Len(requests) \/ i = Len(requests) + 1
      BY <1>0, <2>2
    <3>4. ASSUME NEW i \in 1..Len(requests') PROVE requests'[i] = Len(finished) + i
      <4>1. CASE i \in 1..Len(requests)
        BY <2>2, <3>2, <4>1
      <4>2. CASE i = Len(requests) + 1
        <5>1. requests'[i] = begun + 1 /\ begun = Len(finished) + Len(requests)
          BY <2>2, <3>2, <4>2
        <5> QED BY <1>0, <4>2, <5>1
      <4> QED BY <3>3, <4>1, <4>2
    <3> QED BY <1>0, <2>2, <3>1, <3>2, <3>4 DEF Listed
  <2> QED BY <1>0, <1>1, <2>1, <2>3 DEF Begin, NoneIsLeft, ObjectsWereBegun
<1>2. CASE \E k \in BOOLEAN : HeadersComplete(k)
  BY <1>0, <1>2 DEF HeadersComplete, Listed, NoneIsLeft, ObjectsWereBegun
<1>3. CASE FlushDone
  <2> PICK r \in Front : KeepFinished(r)
    BY <1>3 DEF FlushDone
  <2>1. requests # <<>> /\ r = requests[1] /\ r \in Ids
    BY <1>0, FrontIsFirst
  <2>2. /\ Len(requests') = Len(requests) - 1 /\ Len(requests) > 0
        /\ \A i \in 1..Len(requests') : requests'[i] = requests[i + 1]
    BY <1>0, <1>3, <2>1, HeadTailProperties DEF FlushDone
  <2>3. /\ Len(finished') = Len(finished) + 1
        /\ \A i \in 1..Len(finished) : finished'[i] = finished[i]
        /\ finished'[Len(finished) + 1] = r
    BY <1>0, <2>1, AppendProperties DEF KeepFinished
  <2>4. Listed'
    <3>1. r = Len(finished) + 1
      BY <1>0, <2>1, <2>2 DEF Listed
    <3>2. UNCHANGED begun /\ begun = Len(finished) + Len(requests)
      BY <1>0, <1>3 DEF FlushDone, Listed
    <3>3. \A i \in 1..Len(finished') : i \in 1..Len(finished) \/ i = Len(finished) + 1
      BY <1>0, <2>3
    <3>4. \A i \in 1..Len(finished') : finished'[i] = i
      BY <1>0, <2>3, <3>1, <3>3 DEF Listed
    <3>5. \A i \in 1..Len(requests') : i + 1 \in 1..Len(requests)
      BY <1>0, <2>2
    <3>6. \A i \in 1..Len(requests') : requests'[i] = Len(finished) + (i + 1)
      BY <1>0, <2>2, <3>5 DEF Listed
    <3> QED BY <1>0, <2>2, <2>3, <3>2, <3>4, <3>6 DEF Listed
  <2> QED BY <1>0, <1>3, <2>4 DEF FlushDone, socketVars, NoneIsLeft, ObjectsWereBegun
<1>4. CASE OnClose
  <2>1. \A r \in Ids : js[r] # "none" => r \in ToList(requests) \cup ToList(finished)
    <3> SUFFICES ASSUME NEW r \in Ids, r <= begun PROVE r \in ToList(requests) \cup ToList(finished)
      BY <1>0 DEF ObjectsWereBegun
    <3>1. CASE r <= Len(finished)
      <4>1. r \in DOMAIN finished /\ finished[r] = r
        BY <1>0, <3>1 DEF Listed
      <4> QED BY <4>1, Zenon DEF ToList
    <3>2. CASE r > Len(finished)
      <4>1. r - Len(finished) \in DOMAIN requests /\ requests[r - Len(finished)] = r
        <5>1. r - Len(finished) \in 1..Len(requests)
          BY <1>0, <3>2 DEF Listed
        <5>2. requests[r - Len(finished)] = Len(finished) + (r - Len(finished))
          BY <1>0, <5>1 DEF Listed
        <5> QED BY <1>0, <5>1, <5>2
      <4> QED BY <4>1, Zenon DEF ToList
    <3> QED BY <1>0, <3>1, <3>2
  <2>2. ~crashed' => \A r \in Ids : js'[r] # "live"
    BY <1>0, <1>4, <2>1 DEF OnClose
  <2>3. \A r \in Ids : js'[r] # "none" => js[r] # "none"
    <3>1. CASE \E r \in ToList(requests) \cup ToList(finished) : js[r] = "none"
      BY <1>0, <1>4, <3>1 DEF OnClose
    <3>2. CASE ~\E r \in ToList(requests) \cup ToList(finished) : js[r] = "none"
      BY <1>0, <1>4, <3>2 DEF OnClose
    <3> QED BY <3>1, <3>2
  <2> QED BY <1>0, <1>4, <2>2, <2>3 DEF OnClose, Listed, NoneIsLeft, ObjectsWereBegun
<1>5. CASE SocketStep
  <2>1. phase' # "gone"
    BY <1>5 DEF SocketStep, SocketSteps, IoEvent, TimeoutEvent, ReadNothing, ReadConnects, ReadData,
                ReadEof, ReadError, WriteNothing, Send, SendError, Decide, Closing
  <2> QED BY <1>same, <1>5, <2>1 DEF SocketStep
<1>6. CASE \E r \in Ids : RespondData(r) \/ RespondNull(r)
  BY <1>same, <1>6 DEF RespondData, RespondNull
<1>7. CASE FlushChunk \/ FlushReturns
  BY <1>same, <1>7 DEF FlushChunk, FlushReturns, httpVars, TypeOK
<1>8. CASE ParseDone \/ ParseError \/ JSReturns \/ \E p \in {"tail", "start"} : Body(p)
  BY <1>same, <1>8 DEF ParseDone, ParseError, JSReturns, Body, httpVars, AfterHook
<1>9. CASE OnConnect \/ OnEof \/ OnTimeout \/ OnDrain
  BY <1>same, <1>9 DEF OnConnect, OnEof, OnTimeout, OnDrain, httpVars, AfterHook
<1>10. CASE Reset
  BY <1>same, <1>10 DEF Reset, PeerResets, httpVars
<1> QED BY <1>1, <1>2, <1>3, <1>4, <1>5, <1>6, <1>7, <1>8, <1>9, <1>10 DEF Next, Parser, Flush, Hook
-----------------------------------------------------------------------------
(* The order of the responses.                                             *)

Order == OutputIsTheRest /\ TakeTurns /\ StreamIsSent /\ ResponsesInOrder

\* The types that the order is about.
LEMMA StreamTypes ==
  TypeOK => /\ Stream \in Seq(Chunks) /\ Len(Stream) \in Nat
            /\ \A i \in 1..Len(Stream) : Stream[i] \in Chunks
            /\ Turn \in Nat
            /\ \A r \in Ids : Sent(r) \in Int /\ Len(output[r]) \in Nat /\ chunks[r] \in Nat
<1> SUFFICES ASSUME TypeOK
             PROVE  /\ Stream \in Seq(Chunks) /\ Len(Stream) \in Nat
                    /\ \A i \in 1..Len(Stream) : Stream[i] \in Chunks
                    /\ Turn \in Nat
                    /\ \A r \in Ids : Sent(r) \in Int /\ Len(output[r]) \in Nat /\ chunks[r] \in Nat
  OBVIOUS
<1>1. wire \in Seq(Chunks) /\ out \in Seq(Chunks) /\ finished \in Seq(Ids)
  BY DEF TypeOK, SocketTypeOK
<1>2. Stream \in Seq(Chunks)
  BY <1>1, ConcatProperties DEF Stream
<1>3. \A r \in Ids : output[r] \in Seq(Chunks) /\ chunks[r] \in Nat
  BY MaxChunksIsNat DEF TypeOK
<1> QED BY <1>1, <1>2, <1>3 DEF Turn, Sent

\* The numbers of a chunk.
LEMMA ChunkIs ==
  \A c \in Chunks : c = <<c[1], c[2]>> /\ c[1] \in Ids /\ c[1] \in Nat /\ c[2] \in 1..MaxChunks /\ c[2] \in Nat
BY MaxRequestsIsNat, MaxChunksIsNat DEF Chunks, Ids

\* The chunk at i of the stream s is where ResponsesInOrder wants it, o being owed.
InPlace(o, s, i) ==
  IF s[i][2] > 1
    THEN i > 1 /\ s[i - 1] = <<s[i][1], s[i][2] - 1>>
    ELSE /\ \A j \in 1..(i - 1) : s[j][1] < s[i][1]
         /\ \A q \in 1..(s[i][1] - 1), c \in 1..MaxChunks :
              c <= o[q] => \E j \in 1..(i - 1) : s[j] = <<q, c>>

AllInPlace == \A i \in 1..Len(Stream) : InPlace(owed, Stream, i)

\* ResponsesInOrder, place by place of what was written.
LEMMA OrderIsInPlace == TypeOK => (ResponsesInOrder <=> AllInPlace)
<1> SUFFICES ASSUME TypeOK PROVE ResponsesInOrder <=> AllInPlace
  OBVIOUS
<1>1. DOMAIN Stream = 1..Len(Stream)
  BY StreamTypes
<1> QED BY <1>1, Zenon DEF ResponsesInOrder, AllInPlace, InPlace

\* A chunk's place depends on the chunks up to it.
LEMMA PlaceIsPrefix ==
  ASSUME NEW o, NEW s, NEW t, NEW i \in Nat \ {0}, \A j \in 1..i : t[j] = s[j], InPlace(o, s, i)
  PROVE  InPlace(o, t, i)
<1>1. t[i] = s[i] /\ \A j \in 1..(i - 1) : t[j] = s[j]
  OBVIOUS
<1>2. CASE s[i][2] > 1
  <2>1. i > 1 /\ i - 1 \in 1..i /\ s[i - 1] = <<s[i][1], s[i][2] - 1>>
    BY <1>2 DEF InPlace
  <2> QED BY <1>1, <1>2, <2>1 DEF InPlace
<1>3. CASE ~(s[i][2] > 1)
  BY <1>1, <1>3, Zenon DEF InPlace
<1> QED BY <1>2, <1>3

\* A step that leaves the stream alone, and what it is compared with.
LEMMA SameStream ==
  ASSUME Order, Stream' = Stream, UNCHANGED <<output, chunks, done, owed, finished>>,
         attached' /\ writeAct' => attached /\ writeAct
  PROVE  Order'
<1>1. Turn' = Turn /\ \A r \in Ids : Sent(r)' = Sent(r)
  BY DEF Turn, Sent
<1>2. OutputIsTheRest' /\ TakeTurns'
  BY <1>1 DEF Order, OutputIsTheRest, TakeTurns, Sent
<1>3. StreamIsSent'
  BY <1>1 DEF Order, StreamIsSent, Turn, Sent
<1>4. ResponsesInOrder'
  BY DEF Order, ResponsesInOrder
<1> QED BY <1>2, <1>3, <1>4 DEF Order

\* send () moves the first buffer from one end of the stream to the other.
LEMMA SendKeepsStream ==
  ASSUME NEW S, NEW w \in Seq(S), NEW q \in Seq(S), q # <<>>
  PROVE  Append(w, q[1]) \o Tail(q) = w \o q
<1>1. q[1] \in S /\ Tail(q) \in Seq(S) /\ <<q[1]>> \in Seq(S)
  BY LastSent
<1>2. Append(w, q[1]) = w \o <<q[1]>>
  BY <1>1, AppendIsConcat
<1>3. q = <<q[1]>> \o Tail(q)
  <2>1. /\ Len(q) = 1 + Len(Tail(q)) /\ Len(q) \in Nat /\ Len(Tail(q)) \in Nat
        /\ \A i \in 1..Len(Tail(q)) : Tail(q)[i] = q[i + 1]
    BY HeadTailProperties
  <2>2. /\ <<q[1]>> \o Tail(q) \in Seq(S) /\ Len(<<q[1]>> \o Tail(q)) = 1 + Len(Tail(q))
        /\ \A i \in 1..(1 + Len(Tail(q))) :
             (<<q[1]>> \o Tail(q))[i] = IF i <= 1 THEN q[1] ELSE Tail(q)[i - 1]
    BY <1>1, ConcatProperties
  <2>3. ASSUME NEW i \in 1..Len(q) PROVE q[i] = (<<q[1]>> \o Tail(q))[i]
    <3>1. CASE i = 1
      BY <2>1, <2>2, <3>1
    <3>2. CASE i # 1
      BY <2>1, <2>2, <3>2
    <3> QED BY <3>1, <3>2
  <2> QED BY <2>1, <2>2, <2>3, SeqEqual
<1>4. (w \o <<q[1]>>) \o Tail(q) = w \o (<<q[1]>> \o Tail(q))
  BY <1>1, ConcatAssociative
<1> QED BY <1>2, <1>3, <1>4

\* liboi sends what it was given, in the order in which it was.
LEMMA LoopKeepsOrder ==
  ASSUME TypeOK, TypeOK', Order, SocketStep
  PROVE  Order'
<1>0. /\ UNCHANGED <<output, chunks, done, owed, finished>>
      /\ wire \in Seq(Chunks) /\ out \in Seq(Chunks)
  BY DEF SocketStep, TypeOK, SocketTypeOK
<1>1. CASE Send
  <2>1. out # <<>> /\ out' = Tail(out) /\ UNCHANGED <<attached, writeAct>> /\ phase = "write"
    BY <1>1 DEF Send, action
  <2>2. Len(out') < Len(out)
    BY <1>0, <2>1, HeadTailProperties
  <2>3. wire' = Append(wire, out[1])
    BY <2>1, <2>2 DEF SocketStep
  <2>4. Stream' = Stream
    BY <1>0, <2>1, <2>3, SendKeepsStream DEF Stream
  <2> QED BY <1>0, <2>1, <2>4, SameStream
<1>2. CASE Closing
  <2>1. out' = <<>> /\ wire' = wire /\ ~attached' /\ phase = "close"
    BY <1>2 DEF Closing, SocketStep
  <2>2. Stream' = wire
    BY <1>0, <2>1, ConcatEmptySeq DEF Stream
  <2>3. /\ Len(wire) <= Len(Stream) /\ Len(wire) \in Nat /\ Len(Stream) \in Nat
        /\ \A i \in 1..Len(wire) : wire[i] = Stream[i]
    BY <1>0, ConcatProperties DEF Stream
  <2>4. Turn' = Turn /\ \A r \in Ids : Sent(r)' = Sent(r)
    BY <1>0 DEF Turn, Sent
  <2>5. OutputIsTheRest' /\ TakeTurns'
    BY <1>0, <2>4 DEF Order, OutputIsTheRest, TakeTurns, Sent
  <2>6. StreamIsSent'
    BY <1>0, <2>1, <2>2, <2>3, <2>4 DEF Order, StreamIsSent, Sent
  <2>7. ResponsesInOrder'
    <3>1. \A i \in 1..Len(Stream) : InPlace(owed, Stream, i)
      BY OrderIsInPlace DEF Order, AllInPlace
    <3>2. ASSUME NEW i \in 1..Len(wire) PROVE InPlace(owed, wire, i)
      <4>1. i \in 1..Len(Stream) /\ i \in Nat \ {0} /\ \A j \in 1..i : wire[j] = Stream[j]
        BY <2>3
      <4> QED BY <3>1, <4>1, PlaceIsPrefix
    <3>3. AllInPlace'
      BY <1>0, <2>2, <3>2 DEF AllInPlace, InPlace
    <3> QED BY <3>3, OrderIsInPlace, PTL
  <2> QED BY <2>5, <2>6, <2>7 DEF Order
<1>3. CASE ~Send /\ ~Closing
  <2>1. UNCHANGED <<out, attached>> /\ (writeAct' => writeAct)
    BY <1>3 DEF SocketStep, SocketSteps, IoEvent, TimeoutEvent, ReadNothing, ReadConnects, ReadData,
                ReadEof, ReadError, WriteNothing, SendError, Decide, action, TypeOK, SocketTypeOK
  <2>2. UNCHANGED wire
    BY <1>0, <2>1 DEF SocketStep
  <2> QED BY <1>0, <2>1, <2>2, SameStream DEF Stream
<1> QED BY <1>1, <1>2, <1>3

\* respond (data) adds to what is waiting; nothing more is sent by it.
LEMMA RespondDataKeepsOrder ==
  ASSUME TypeOK, Order, NEW r \in Ids, RespondData(r)
  PROVE  Order'
<1> DEFINE n == Len(output[r])
<1>0. /\ UNCHANGED <<fd, attached, writeAct, out, wire, done, owed, finished>>
      /\ chunks' = [chunks EXCEPT ![r] = @ + 1]
      /\ output' = [output EXCEPT ![r] = Append(@, <<r, chunks[r] + 1>>)]
      /\ chunks[r] < MaxChunks
  BY DEF RespondData, action
<1>1. /\ chunks \in [Ids -> 0..MaxChunks] /\ output \in [Ids -> Seq(Chunks)]
      /\ output[r] \in Seq(Chunks) /\ n \in Nat /\ chunks[r] \in Nat /\ MaxChunks \in Nat
      /\ chunks[r] + 1 \in 1..MaxChunks
  BY <1>0, StreamTypes, MaxChunksIsNat DEF TypeOK
<1>2. <<r, chunks[r] + 1>> \in Chunks
  BY <1>1 DEF Chunks
<1>3. /\ Len(output'[r]) = n + 1
      /\ \A i \in 1..n : output'[r][i] = output[r][i]
      /\ output'[r][n + 1] = <<r, chunks[r] + 1>>
  BY <1>0, <1>1, <1>2, AppendProperties
<1>4. chunks'[r] = chunks[r] + 1 /\ \A q \in Ids : q # r => chunks'[q] = chunks[q] /\ output'[q] = output[q]
  BY <1>0, <1>1
<1>5. Turn' = Turn /\ Stream' = Stream /\ \A q \in Ids : Sent(q)' = Sent(q)
  <2>1. Sent(r)' = Sent(r)
    BY <1>1, <1>3, <1>4 DEF Sent
  <2>2. \A q \in Ids : q # r => Sent(q)' = Sent(q)
    BY <1>4 DEF Sent
  <2> QED BY <1>0, <2>1, <2>2 DEF Turn, Stream
<1>6. OutputIsTheRest'
  <2> SUFFICES ASSUME NEW q \in Ids
               PROVE  /\ owed'[q] <= chunks'[q] /\ Len(output'[q]) <= chunks'[q]
                      /\ \A i \in 1..Len(output'[q]) : output'[q][i] = <<q, Sent(q)' + i>>
    BY DEF OutputIsTheRest
  <2>0. /\ owed[q] <= chunks[q] /\ Len(output[q]) <= chunks[q] /\ owed[q] \in Nat
        /\ \A i \in 1..Len(output[q]) : output[q][i] = <<q, Sent(q) + i>>
    BY MaxChunksIsNat DEF Order, OutputIsTheRest, TypeOK
  <2>1. CASE q = r
    <3>1. ASSUME NEW i \in 1..(n + 1) PROVE output'[r][i] = <<r, Sent(r) + i>>
      <4>1. CASE i \in 1..n
        BY <1>3, <2>0, <2>1, <4>1
      <4>2. CASE i = n + 1
        <5>1. Sent(r) + i = chunks[r] + 1
          BY <1>1, <4>2 DEF Sent
        <5> QED BY <1>3, <4>2, <5>1
      <4> QED BY <1>1, <4>1, <4>2
    <3> QED BY <1>0, <1>1, <1>3, <1>4, <1>5, <2>0, <2>1, <3>1
  <2>2. CASE q # r
    BY <1>0, <1>4, <1>5, <2>0, <2>2
  <2> QED BY <2>1, <2>2
<1>7. TakeTurns'
  BY <1>0, <1>5 DEF Order, TakeTurns
<1>8. StreamIsSent'
  <2>1. \A i \in 1..Len(Stream) : Stream[i][1] \in Ids
    BY StreamTypes, ChunkIs
  <2> QED BY <1>0, <1>5, <2>1 DEF Order, StreamIsSent
<1>9. ResponsesInOrder'
  BY <1>0, <1>5 DEF Order, ResponsesInOrder
<1> QED BY <1>6, <1>7, <1>8, <1>9 DEF Order

\* respond (null) fixes what is owed for a request; for those that had their
\* turn it is fixed already.
LEMMA RespondNullKeepsOrder ==
  ASSUME TypeOK, TypeOK', Order, NEW r \in Ids, RespondNull(r)
  PROVE  Order'
<1>0. /\ UNCHANGED <<attached, writeAct, out, wire, output, chunks, finished>>
      /\ done' = [done EXCEPT ![r] = TRUE]
      /\ owed' = [owed EXCEPT ![r] = IF done[r] THEN @ ELSE chunks[r]]
  BY DEF RespondNull, action
<1>1. Turn' = Turn /\ Stream' = Stream /\ \A q \in Ids : Sent(q)' = Sent(q)
  BY <1>0 DEF Turn, Stream, Sent
<1>2. \A q \in Ids : (done[q] => done'[q] /\ owed'[q] = owed[q]) /\ (owed'[q] = owed[q] \/ owed'[q] = chunks[q])
  BY <1>0 DEF TypeOK
<1>3. OutputIsTheRest'
  <2>1. \A q \in Ids : owed'[q] <= chunks[q]
    <3>1. \A q \in Ids : owed[q] <= chunks[q] /\ chunks[q] \in Nat
      BY MaxChunksIsNat DEF Order, OutputIsTheRest, TypeOK
    <3> QED BY <1>2, <3>1
  <2> QED BY <1>0, <1>1, <2>1 DEF Order, OutputIsTheRest
<1>4. TakeTurns'
  BY <1>1, <1>2 DEF Order, TakeTurns
<1>5. StreamIsSent'
  <2>1. \A i \in 1..Len(Stream) : Stream[i][1] \in Ids
    BY StreamTypes, ChunkIs
  <2> QED BY <1>0, <1>1, <2>1 DEF Order, StreamIsSent
<1>6. AllInPlace'
  <2>1. ASSUME NEW i \in 1..Len(Stream) PROVE InPlace(owed', Stream, i)
    <3>1. InPlace(owed, Stream, i)
      BY OrderIsInPlace DEF Order, AllInPlace
    <3>2. Stream[i][1] \in Ids /\ Stream[i][1] <= Turn /\ Turn \in Nat
      BY StreamTypes, ChunkIs DEF Order, StreamIsSent
    <3>3. \A q \in 1..(Stream[i][1] - 1) : owed'[q] = owed[q]
      <4> SUFFICES ASSUME NEW q \in 1..(Stream[i][1] - 1) PROVE owed'[q] = owed[q]
        OBVIOUS
      <4>1. q \in Ids /\ q < Turn
        BY <3>2, MaxRequestsIsNat DEF Ids
      <4> QED BY <1>2, <4>1 DEF Order, TakeTurns
    <3> QED BY <3>1, <3>3, Zenon DEF InPlace
  <2> QED BY <1>1, <2>1 DEF AllInPlace, InPlace
<1> QED BY <1>3, <1>4, <1>5, <1>6, OrderIsInPlace, PTL DEF Order

\* The request at the front is the one whose turn it is.
LEMMA FrontHasTurn ==
  ASSUME TypeOK, ListsAreInOrder, NEW r \in Front
  PROVE  r \in Ids /\ r = Turn /\ requests # <<>>
<1>1. r \in Ids /\ requests # <<>> /\ r = requests[1]
  BY FrontIsFirst DEF TypeOK
<1>2. Len(requests) > 0 /\ Len(requests) \in Nat /\ Len(finished) \in Nat
  BY <1>1, EmptySeq, LenProperties DEF TypeOK
<1>3. requests[1] = Len(finished) + 1
  BY <1>2, ListedMeans DEF Listed
<1> QED BY <1>1, <1>3 DEF Turn

\* Connection::Write hands on the next chunk of the front request: its place is
\* behind all that the requests before it are owed.
LEMMA FlushChunkKeepsOrder ==
  ASSUME TypeOK, TypeOK', ListsAreInOrder, AttachedTillClose, Order, FlushChunk
  PROVE  Order'
<1> PICK r \in Front : /\ output[r] # <<>>
                       /\ WriteBuf(Head(output[r]))
                       /\ output' = [output EXCEPT ![r] = Tail(@)]
  BY DEF FlushChunk
<1> DEFINE b == <<r, Sent(r) + 1>>
           n == Len(output[r])
<1>r. r \in Ids /\ r = Turn /\ r \in Nat
  BY FrontHasTurn, MaxRequestsIsNat DEF Ids
<1>0. /\ UNCHANGED <<attached, writeAct, wire, chunks, done, owed, finished>>
      /\ phase = "flush" /\ attached
  BY DEF FlushChunk, WriteBuf, action, AttachedTillClose
<1>1. /\ chunks \in [Ids -> 0..MaxChunks] /\ output \in [Ids -> Seq(Chunks)]
      /\ output[r] \in Seq(Chunks) /\ n \in Nat /\ n > 0 /\ chunks[r] \in Nat
      /\ Sent(r) \in Nat /\ chunks[r] <= MaxChunks
      /\ wire \in Seq(Chunks) /\ out \in Seq(Chunks)
  <2>1. output[r] \in Seq(Chunks) /\ n \in Nat /\ n > 0
    BY <1>r, EmptySeq DEF TypeOK
  <2>2. chunks[r] \in Nat /\ n <= chunks[r]
    BY <1>r, MaxChunksIsNat DEF TypeOK, Order, OutputIsTheRest
  <2>3. Sent(r) \in Nat
    BY <2>1, <2>2 DEF Sent
  <2>4. /\ chunks \in [Ids -> 0..MaxChunks] /\ output \in [Ids -> Seq(Chunks)]
        /\ wire \in Seq(Chunks) /\ out \in Seq(Chunks)
    BY DEF TypeOK, SocketTypeOK
  <2>5. chunks[r] <= MaxChunks
    BY <1>r, <2>4, MaxChunksIsNat
  <2> QED BY <2>1, <2>2, <2>3, <2>4, <2>5
<1>t. /\ Stream \in Seq(Chunks) /\ Len(Stream) \in Nat /\ Turn \in Nat
      /\ \A i \in 1..Len(Stream) : Stream[i] \in Chunks
      /\ \A q \in Ids : Sent(q) \in Int
  BY StreamTypes
<1>2. /\ Head(output[r]) = b /\ b \in Chunks
      /\ Sent(r) + 1 \in 1..MaxChunks
  <2>1. output[r][1] = b
    BY <1>r, <1>1 DEF Order, OutputIsTheRest
  <2>2. Sent(r) + 1 <= chunks[r]
    BY <1>1 DEF Sent
  <2>3. output[r] # <<>> /\ Head(output[r]) = output[r][1]
    BY <1>1, LastSent
  <2>4. output[r][1] \in Chunks
    BY <1>1, LastSent
  <2>5. Sent(r) + 1 \in 1..MaxChunks
    BY <1>1, <2>2, MaxChunksIsNat
  <2> QED BY <2>1, <2>3, <2>4, <2>5
<1>3. /\ Len(output'[r]) = n - 1
      /\ \A i \in 1..(n - 1) : output'[r][i] = output[r][i + 1]
      /\ \A q \in Ids : q # r => output'[q] = output[q]
  BY <1>r, <1>1, HeadTailProperties
<1>4. Turn' = Turn /\ Sent(r)' = Sent(r) + 1 /\ \A q \in Ids : q # r => Sent(q)' = Sent(q)
  BY <1>0, <1>1, <1>3 DEF Turn, Sent
<1>5. OutputIsTheRest'
  <2> SUFFICES ASSUME NEW q \in Ids
               PROVE  /\ owed[q] <= chunks[q] /\ Len(output'[q]) <= chunks[q]
                      /\ \A i \in 1..Len(output'[q]) : output'[q][i] = <<q, Sent(q)' + i>>
    BY <1>0 DEF OutputIsTheRest
  <2>0. /\ owed[q] <= chunks[q] /\ Len(output[q]) <= chunks[q]
        /\ \A i \in 1..Len(output[q]) : output[q][i] = <<q, Sent(q) + i>>
    BY DEF Order, OutputIsTheRest
  <2>1. CASE q = r
    <3>1. ASSUME NEW i \in 1..(n - 1) PROVE output'[r][i] = <<r, Sent(r)' + i>>
      <4>1. i + 1 \in 1..n /\ Sent(r) + (i + 1) = (Sent(r) + 1) + i
        <5>1. n \in Nat /\ i \in 1..(n - 1) /\ Sent(r) \in Nat
          BY <1>1
        <5> HIDE DEF n
        <5> QED BY <5>1
      <4>2. output[r][i + 1] = <<r, Sent(r) + (i + 1)>>
        BY <2>0, <2>1, <4>1
      <4> QED BY <1>3, <1>4, <4>1, <4>2
    <3> QED BY <1>1, <1>3, <2>0, <2>1, <3>1
  <2>2. CASE q # r
    BY <1>3, <1>4, <2>0, <2>2
  <2> QED BY <2>1, <2>2
<1>6. TakeTurns'
  <2>1. \A q \in Ids : (q < Turn \/ q > Turn) => q # r
    BY <1>r
  <2> QED BY <1>0, <1>4, <2>1 DEF Order, TakeTurns
<1> DEFINE New(q) == chunks'[q] - Len(output'[q])
<1>n. \A q \in Ids : Sent(q)' = New(q)
  BY DEF Sent
<1>7. \A q \in Ids : New(q) \in Int /\ Sent(q) <= New(q)
  BY <1>t, <1>4, <1>n
<1>8. CASE ~writeAct
  <2>1. Stream' = Stream
    BY <1>0, <1>8 DEF WriteBuf, Stream
  <2>2. StreamIsSent'
    <3>1. \A i \in 1..Len(Stream) : /\ Stream[i][1] \in Ids /\ Stream[i][1] <= Turn
                                  /\ Stream[i][2] <= Sent(Stream[i][1])
                                  /\ Stream[i][2] \in Nat
      BY StreamTypes, ChunkIs DEF Order, StreamIsSent
    <3>2. ASSUME NEW i \in 1..Len(Stream) PROVE Stream[i][2] <= New(Stream[i][1])
      <4> DEFINE q == Stream[i][1]
      <4>1. q \in Ids /\ Stream[i][2] \in Nat /\ Stream[i][2] <= Sent(q)
        BY <3>1
      <4>2. Sent(q) \in Int /\ New(q) \in Int /\ Sent(q) <= New(q)
        BY <1>t, <1>7, <4>1
      <4> QED BY <4>1, <4>2
    <3> QED BY <1>0, <1>4, <1>8, <2>1, <3>1, <3>2 DEF StreamIsSent, Sent
  <2>3. ResponsesInOrder'
    BY <1>0, <2>1 DEF Order, ResponsesInOrder
  <2> QED BY <1>5, <1>6, <2>2, <2>3 DEF Order
<1>9. CASE writeAct
  <2> DEFINE L == Len(Stream)
  <2>1. Stream' = Append(Stream, b)
    <3>1. out' = Append(out, b)
      BY <1>2, <1>9 DEF WriteBuf
    <3>2. <<b>> \in Seq(Chunks) /\ out \o <<b>> = Append(out, b) /\ Stream \in Seq(Chunks)
          /\ Append(Stream, b) = Stream \o <<b>>
      <4>1. \A u \in Seq(Chunks) : Append(u, b) = u \o <<b>>
        BY <1>2, AppendIsConcat
      <4>2. <<b>> \in Seq(Chunks)
        BY <1>2
      <4> QED BY <1>1, <1>t, <4>1, <4>2
    <3>3. wire \o (out \o <<b>>) = (wire \o out) \o <<b>>
      BY <1>1, <3>2, ConcatAssociative
    <3> QED BY <1>0, <3>1, <3>2, <3>3 DEF Stream
  <2>2. /\ L \in Nat /\ Len(Stream') = L + 1 /\ Stream'[L + 1] = b
        /\ \A i \in 1..L : Stream'[i] = Stream[i]
    BY <1>2, <2>1, AppendProperties, StreamTypes
  <2>3. \A i \in 1..L : /\ Stream[i] = <<Stream[i][1], Stream[i][2]>>
                        /\ Stream[i][1] \in Ids /\ Stream[i][1] \in Nat /\ Stream[i][1] <= Turn
                        /\ Stream[i][2] <= Sent(Stream[i][1])
                        /\ Stream[i][2] \in Nat \ {0}
    BY StreamTypes, ChunkIs, MaxChunksIsNat DEF Order, StreamIsSent
  <2>4. StreamIsSent'
    <3>1. ASSUME NEW i \in 1..(L + 1) PROVE Stream'[i][1] <= Turn /\ Stream'[i][2] <= New(Stream'[i][1])
      <4>1. CASE i \in 1..L
        <5> DEFINE q == Stream[i][1]
        <5>1. /\ q \in Ids /\ q <= Turn /\ Stream[i][2] \in Nat /\ Stream[i][2] <= Sent(q)
              /\ Stream'[i] = Stream[i]
          BY <2>2, <2>3, <4>1
        <5>2. Sent(q) \in Int /\ New(q) \in Int /\ Sent(q) <= New(q)
          BY <1>t, <1>7, <5>1
        <5> QED BY <5>1, <5>2
      <4>2. CASE i = L + 1
        <5>1. Stream'[i] = b /\ b[1] = r /\ b[2] = Sent(r) + 1
          BY <2>2, <4>2
        <5>2. New(r) = Sent(r) + 1 /\ Sent(r) \in Int /\ Turn \in Nat /\ r = Turn
          BY <1>r, <1>t, <1>4, <1>n
        <5> HIDE DEF b, New
        <5> QED BY <5>1, <5>2
      <4> QED BY <2>2, <4>1, <4>2
    <3>2. ASSUME NEW q \in Ids, NEW c \in 1..MaxChunks, c <= New(q)
          PROVE  \E j \in 1..(L + 1) : Stream'[j] = <<q, c>>
      <4>1. CASE q = r /\ c = Sent(r) + 1
        BY <2>2, <4>1
      <4>2. CASE ~(q = r /\ c = Sent(r) + 1)
        <5>1. c <= Sent(q)
          BY <1>1, <1>4, <1>n, <3>2, <4>2
        <5>2. PICK j \in 1..L : Stream[j] = <<q, c>>
          BY <1>0, <1>9, <5>1 DEF Order, StreamIsSent
        <5> QED BY <2>2, <5>2
      <4> QED BY <4>1, <4>2
    <3>3. ASSUME NEW q \in Ids, q = Turn PROVE Stream'[L + 1] = <<q, New(q)>>
      BY <1>r, <1>4, <1>n, <2>2, <3>3
    <3>4. L + 1 > 0 /\ Len(Stream') = L + 1
      BY <2>2
    <3>5. Turn' = Turn
      BY <1>4
    <3> HIDE DEF L, b
    <3> QED BY <3>1, <3>2, <3>3, <3>4, <3>5 DEF StreamIsSent, Sent
  <2>5. InPlace(owed, Stream', L + 1)
    <3>1. CASE Sent(r) > 0
      <4>1. L > 0 /\ Stream[L] = <<r, Sent(r)>>
        BY <1>r, <1>0, <1>9, <3>1 DEF Order, StreamIsSent
      <4>2. (L + 1) - 1 = L /\ b[2] > 1 /\ b[2] - 1 = Sent(r) /\ b[1] = r /\ Stream'[L] = Stream[L]
        <5>1. (L + 1) - 1 = L /\ L \in 1..L
          BY <2>2, <4>1
        <5>2. b[2] = Sent(r) + 1 /\ b[1] = r
          OBVIOUS
        <5>3. Sent(r) \in Nat /\ Sent(r) + 1 > 1 /\ (Sent(r) + 1) - 1 = Sent(r)
          BY <1>1, <3>1
        <5> HIDE DEF L, b
        <5> QED BY <2>2, <5>1, <5>2, <5>3
      <4> QED BY <2>2, <4>1, <4>2 DEF InPlace
    <3>2. CASE ~(Sent(r) > 0)
      <4>1. b[1] = r /\ b[2] = 1 /\ (L + 1) - 1 = L
        BY <1>1, <2>2, <3>2
      <4>2. \A j \in 1..L : Stream'[j][1] < r
        <5> SUFFICES ASSUME NEW j \in 1..L, ~(Stream[j][1] < r) PROVE FALSE
          BY <2>2
        <5>1. Stream[j][1] = r
          BY <1>r, <2>3
        <5> QED BY <1>1, <2>3, <3>2, <5>1
      <4>3. ASSUME NEW q \in 1..(r - 1), NEW c \in 1..MaxChunks, c <= owed[q]
            PROVE  \E j \in 1..L : Stream'[j] = <<q, c>>
        <5>1. q \in Ids /\ q < Turn
          BY <1>r, MaxRequestsIsNat DEF Ids
        <5>2. owed[q] <= Sent(q) /\ owed[q] \in Nat /\ Sent(q) \in Int
          <6>1. owed[q] \in Nat
            BY <5>1, MaxChunksIsNat DEF TypeOK
          <6> QED BY <1>t, <5>1, <6>1 DEF Order, TakeTurns
        <5>3. c <= Sent(q)
          BY <4>3, <5>2
        <5>4. PICK j \in 1..L : Stream[j] = <<q, c>>
          BY <1>0, <1>9, <5>1, <5>3 DEF Order, StreamIsSent
        <5> QED BY <2>2, <5>4
      <4>4. Stream'[L + 1] = b /\ ~(b[2] > 1)
        BY <2>2, <4>1
      <4> HIDE DEF L, b
      <4> QED BY <4>1, <4>2, <4>3, <4>4 DEF InPlace
    <3> QED BY <3>1, <3>2
  <2>6. AllInPlace'
    <3>1. ASSUME NEW i \in 1..(L + 1) PROVE InPlace(owed, Stream', i)
      <4>1. CASE i \in 1..L
        <5>1. InPlace(owed, Stream, i)
          BY <4>1, OrderIsInPlace DEF Order, AllInPlace
        <5>2. i \in Nat \ {0} /\ \A j \in 1..i : Stream'[j] = Stream[j]
          BY <2>2, <4>1
        <5> QED BY <5>1, <5>2, PlaceIsPrefix
      <4>2. CASE i = L + 1
        BY <2>5, <4>2
      <4> QED BY <2>2, <4>1, <4>2
    <3> QED BY <1>0, <2>2, <3>1 DEF AllInPlace, InPlace
  <2> QED BY <1>5, <1>6, <2>4, <2>6, OrderIsInPlace, PTL DEF Order
<1> QED BY <1>8, <1>9

\* The front request is done: it has sent what it owes, the next has sent nothing.
LEMMA FlushDoneKeepsOrder ==
  ASSUME TypeOK, ListsAreInOrder, Order, FlushDone
  PROVE  Order'
<1> PICK r \in Front : output[r] = <<>> /\ IsDone(r) /\ KeepFinished(r)
  BY DEF FlushDone
<1>r. r \in Ids /\ r = Turn
  BY FrontHasTurn
<1>0. /\ UNCHANGED <<attached, writeAct, out, wire, output, chunks, done, owed>>
  BY DEF FlushDone, socketVars, action
<1>1. Stream' = Stream /\ \A q \in Ids : Sent(q)' = Sent(q)
  BY <1>0 DEF Stream, Sent
<1>2. Turn' = Turn + 1 /\ Turn \in Nat
  <2>1. finished \in Seq(Ids) /\ finished' = Append(finished, r)
    BY DEF TypeOK, KeepFinished
  <2>2. Len(finished') = Len(finished) + 1 /\ Len(finished) \in Nat
    BY <1>r, <2>1, AppendProperties, LenProperties
  <2> QED BY <2>2 DEF Turn
<1>3. done[r] /\ owed[r] <= Sent(r)
  <2>1. Len(output[r]) = 0 /\ chunks[r] \in Nat
    BY <1>r, StreamTypes, EmptySeq
  <2>2. owed[r] <= chunks[r] /\ Sent(r) = chunks[r]
    BY <1>r, <2>1 DEF Order, OutputIsTheRest, Sent
  <2> QED BY <2>2 DEF IsDone
<1>4. OutputIsTheRest' /\ ResponsesInOrder'
  BY <1>0, <1>1 DEF Order, OutputIsTheRest, ResponsesInOrder
<1>5. \A q \in Ids : q \in Nat /\ (q < Turn + 1 => q < Turn \/ q = r) /\ (q > Turn + 1 => q > Turn)
  BY <1>r, <1>2, MaxRequestsIsNat DEF Ids
<1>6. TakeTurns'
  BY <1>0, <1>1, <1>2, <1>3, <1>5 DEF Order, TakeTurns
<1>7. StreamIsSent'
  <2>1. \A i \in 1..Len(Stream) : /\ Stream[i][1] \in Nat /\ Stream[i][1] <= Turn + 1
                                /\ Stream[i][2] <= Sent(Stream[i][1])
    <3> SUFFICES ASSUME NEW i \in 1..Len(Stream)
                 PROVE  /\ Stream[i][1] \in Nat /\ Stream[i][1] <= Turn + 1
                        /\ Stream[i][2] <= Sent(Stream[i][1])
      OBVIOUS
    <3>1. Stream[i][1] \in Nat
      BY StreamTypes, ChunkIs
    <3>2. Stream[i][1] <= Turn /\ Stream[i][2] <= Sent(Stream[i][1])
      BY DEF Order, StreamIsSent
    <3> QED BY <1>2, <3>1, <3>2
  <2>2. ASSUME NEW q \in Ids, q = Turn + 1 PROVE ~(Sent(q) > 0)
    <3>1. q > Turn
      BY <1>2, <2>2
    <3> QED BY <3>1 DEF Order, TakeTurns
  <2>3. attached /\ writeAct =>
          \A q \in Ids, c \in 1..MaxChunks : c <= Sent(q) => \E j \in 1..Len(Stream) : Stream[j] = <<q, c>>
    BY DEF Order, StreamIsSent
  <2> QED BY <1>0, <1>1, <1>2, <2>1, <2>2, <2>3 DEF StreamIsSent, Sent
<1> QED BY <1>4, <1>6, <1>7 DEF Order

\* Every step keeps the stream in the order of the requests.
LEMMA OrderStep ==
  TypeOK /\ TypeOK' /\ ListsAreInOrder /\ AttachedTillClose /\ Order /\ Next => Order'
<1> SUFFICES ASSUME TypeOK, TypeOK', ListsAreInOrder, AttachedTillClose, Order, Next PROVE Order'
  OBVIOUS
<1>1. CASE SocketStep
  BY <1>1, LoopKeepsOrder
<1>2. CASE \E r \in Ids : RespondData(r)
  BY <1>2, RespondDataKeepsOrder
<1>3. CASE \E r \in Ids : RespondNull(r)
  BY <1>3, RespondNullKeepsOrder
<1>4. CASE FlushChunk
  BY <1>4, FlushChunkKeepsOrder
<1>5. CASE FlushDone
  BY <1>5, FlushDoneKeepsOrder
<1>6. CASE Parser
  <2>1. /\ UNCHANGED <<out, wire, output, chunks, done, owed, finished>>
        /\ attached' /\ writeAct' => attached /\ writeAct
    BY <1>6 DEF Parser, Begin, HeadersComplete, Body, ParseDone, ParseError, JSReturns, FullClose,
                socketVars, httpVars, action
  <2> QED BY <2>1, SameStream DEF Stream
<1>7. CASE FlushReturns \/ Hook \/ Reset
  <2>1. /\ UNCHANGED <<out, wire, output, chunks, done, owed, finished>>
        /\ attached' /\ writeAct' => attached /\ writeAct
    BY <1>7 DEF FlushReturns, Hook, OnConnect, OnEof, OnTimeout, OnDrain, OnClose, Reset, PeerResets,
                FullClose, socketVars, httpVars, action
  <2> QED BY <2>1, SameStream DEF Stream
<1> QED BY <1>1, <1>2, <1>3, <1>4, <1>5, <1>6, <1>7 DEF Next, Flush

-----------------------------------------------------------------------------
(* The theorems.                                                           *)

\* The invariant holds when a connection is made.
LEMMA InitInv == Init => IInv
<1> SUFFICES ASSUME Init PROVE IInv
  OBVIOUS
<1> USE DEF Init, action, watcher, local
<1>1. TypeOK
  <2>1. <<>> \in Seq(Ids) /\ <<>> \in Seq(Chunks)
    OBVIOUS
  <2>2. 0 \in 0..MaxRequests /\ 0 \in 0..MaxChunks
    BY MaxRequestsIsNat, MaxChunksIsNat
  <2> QED BY <2>1, <2>2 DEF TypeOK, SocketTypeOK, Phases, Hooks
<1>2. ClosedOnce /\ QueueIsWatched /\ ClosedIsQuiet /\ ReleasedAfterClose /\ DrainedIsEmpty
      /\ AttachedTillClose
  BY DEF ClosedOnce, QueueIsWatched, ClosedIsQuiet, InHooks, Outside, ReleasedAfterClose, DrainedIsEmpty,
         AttachedTillClose
<1>3. Len(finished) = 0 /\ Len(requests) = 0 /\ begun = 0 /\ phase = "idle" /\ \A r \in Ids : js[r] = "none"
  OBVIOUS
<1>4. ListsAreInOrder /\ ObjectsWereBegun
  BY <1>1, <1>3, ListedMeans DEF Listed, NoneIsLeft, ObjectsWereBegun
<1>5. Stream = <<>> /\ Len(Stream) = 0 /\ Turn = 1 /\ \A r \in Ids : Len(output[r]) = 0 /\ Sent(r) = 0
  BY ConcatEmptySeq, EmptySeq DEF Stream, Turn, Sent
<1>6. OutputIsTheRest /\ TakeTurns /\ StreamIsSent
  BY <1>5, MaxRequestsIsNat DEF OutputIsTheRest, TakeTurns, StreamIsSent, Ids
<1>7. ResponsesInOrder
  BY <1>1, <1>5, OrderIsInPlace DEF AllInPlace
<1> QED BY <1>1, <1>2, <1>4, <1>6, <1>7 DEF IInv

\* A stuttering step preserves it.
LEMMA StutterInv == IInv /\ UNCHANGED vars => IInv'
<1> SUFFICES ASSUME IInv, UNCHANGED vars PROVE IInv'
  OBVIOUS
<1>1. UNCHANGED <<fd, stray, attached, connected, readAct, writeAct, out, readW, writeW, timeW, fed,
                  haveR, haveW, reset, phase>>
      /\ UNCHANGED <<parse, begun, keep, js, requests, finished, output, chunks, done, owed,
                     drainCloses, wire, back, crashed>>
  BY DEF vars, socketVars, httpVars, action, watcher, local
<1>2. TypeOK'
  BY <1>1 DEF IInv, TypeOK, SocketTypeOK
<1>3. Control'
  BY <1>1 DEF IInv, Control, ClosedOnce, QueueIsWatched, ClosedIsQuiet, InHooks, Outside,
              ReleasedAfterClose, DrainedIsEmpty, AttachedTillClose
<1>4. ListsAreInOrder' /\ ObjectsWereBegun'
  BY <1>1 DEF IInv, ListsAreInOrder, ObjectsWereBegun
<1>5. Order'
  <2>1. Order /\ Stream' = Stream
    BY <1>1 DEF IInv, Order, Stream
  <2> QED BY <1>1, <2>1, SameStream
<1> QED BY <1>2, <1>3, <1>4, <1>5 DEF IInv, Control, Order

\* Every step preserves it.
LEMMA NextInv == IInv /\ Next => IInv'
<1> SUFFICES ASSUME IInv, Next PROVE IInv'
  OBVIOUS
<1>1. TypeOK /\ Control /\ Lists /\ Order
  BY DEF IInv, Control, Lists, Order
<1>2. TypeOK'
  BY <1>1, TypeStep
<1>3. Control'
  BY <1>1, ControlStep
<1>4. Lists'
  BY <1>1, <1>2, ListsStep
<1>5. Order'
  BY <1>1, <1>2, OrderStep DEF Lists, Control
<1> QED BY <1>2, <1>3, <1>4, <1>5 DEF IInv, Control, Lists, Order

\* The inductive invariant, for any number of requests and chunks.
THEOREM Inductive == Spec => []IInv
<1>1. Init => IInv
  BY InitInv
<1>2. IInv /\ [Next]_vars => IInv'
  BY NextInv, StutterInv
<1> QED BY <1>1, <1>2, PTL DEF Spec

\* Responses leave in the order of the requests, whatever the order of respond.
THEOREM OrderOfResponses == Spec => []ResponsesInOrder
<1>1. IInv => ResponsesInOrder
  BY DEF IInv
<1> QED BY <1>1, Inductive, PTL

\* The lists hold every request in order, and none outlives the connection.
THEOREM OrderOfLists == Spec => []ListsAreInOrder
<1>1. IInv => ListsAreInOrder
  BY DEF IInv
<1> QED BY <1>1, Inductive, PTL

\* The descriptor of a connection is closed once.
THEOREM CloseOnce == Spec => []ClosedOnce
<1>1. IInv => ClosedOnce
  BY DEF IInv
<1> QED BY <1>1, Inductive, PTL

\* A connection that on_drain closes has put on the wire all that its finished
\* requests owe.
THEOREM DrainAfterWriting == Spec => []DrainedMeansWritten
<1>1. IInv => DrainedMeansWritten
  <2> SUFFICES ASSUME IInv, phase = "on_drain",
                      NEW r \in ToList(finished), NEW c \in 1..owed[r]
               PROVE  <<r, c>> \in ToList(wire)
    BY DEF DrainedMeansWritten
  <2>1. /\ TypeOK /\ Listed /\ TakeTurns /\ StreamIsSent
        /\ attached /\ writeAct /\ out = <<>>
    BY ListedMeans DEF IInv, AttachedTillClose, DrainedIsEmpty
  <2>2. Stream = wire /\ wire \in Seq(Chunks)
    BY <2>1, ConcatEmptySeq DEF Stream, TypeOK
  <2>3. r \in Ids /\ r < Turn
    <3>1. PICK i \in DOMAIN finished : r = finished[i]
      BY DEF ToList
    <3>2. finished \in Seq(Ids) /\ i \in 1..Len(finished) /\ Len(finished) \in Nat
      BY <2>1, <3>1, LenProperties DEF TypeOK
    <3>3. r = i /\ r \in Ids
      BY <2>1, <3>1, <3>2, ElementOfSeq DEF Listed
    <3> QED BY <3>2, <3>3 DEF Turn
  <2>4. owed[r] \in 0..MaxChunks /\ owed[r] <= Sent(r) /\ Sent(r) \in Int
    BY <2>1, <2>3, StreamTypes DEF TakeTurns, TypeOK
  <2>5. c \in 1..MaxChunks /\ c <= Sent(r)
    BY <2>4, MaxChunksIsNat
  <2>6. PICK j \in 1..Len(wire) : wire[j] = <<r, c>>
    BY <2>1, <2>2, <2>3, <2>5 DEF StreamIsSent
  <2>7. j \in DOMAIN wire
    BY <2>2, <2>6
  <2> QED BY <2>6, <2>7, Zenon DEF ToList
<1> QED BY <1>1, Inductive, PTL
=============================================================================
