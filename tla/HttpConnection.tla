--------------------------- MODULE HttpConnection ---------------------------
(***************************************************************************)
(* A connection of the HTTP server (http.cc): the requests that the parser *)
(* of libebb finds in the bytes it is given, the JavaScript objects made   *)
(* for them, the responses JavaScript gives in any order, and the writing  *)
(* of the responses in the order of the requests.  Below it is OiSocket.   *)
(***************************************************************************)
EXTENDS OiSocket

CONSTANTS
  MaxRequests,   \* bound: requests the client sends on the connection
  MaxChunks,     \* bound: calls of respond (data) for one request
  MaxTotal       \* bound: calls of respond (data) in all

ASSUME MaxRequestsIsNat == MaxRequests \in Nat
ASSUME MaxChunksIsNat == MaxChunks \in Nat
ASSUME MaxTotalIsNat == MaxTotal \in Nat

Ids == 1..MaxRequests
Chunks == Ids \X (1..MaxChunks)

VARIABLES
  parse,      \* the parser: "start", "headers", "body", "tail" or "failed"
  begun,      \* number of requests it began, the current one being the last
  keep,       \* ebb_request_should_keep_alive
  js,         \* a request's js_object: "none", "live", or "dead" without pointer
  requests,   \* Connection's lists
  finished,
  output,     \* chunks of a request not handed to liboi yet
  chunks,     \* number of calls of respond (data)
  done,
  owed,       \* history: chunks at the first respond (null)
  drainCloses,  \* socket.on_drain is oi_socket_close
  wire,       \* history: chunks send () took, in order
  back,       \* where Connection::Write returns to
  crashed     \* an empty handle was used

httpVars == <<parse, begun, keep, js, requests, finished, output, chunks, done, owed,
              drainCloses, wire, back, crashed>>
vars == <<socketVars, httpVars>>

\* on_connection made a Connection and liboi has attached it.
Init ==
  /\ fd = "open"
  /\ stray = FALSE /\ attached = TRUE /\ connected = FALSE
  /\ readAct = TRUE /\ writeAct = TRUE
  /\ out = <<>>
  /\ readW = TRUE /\ writeW = TRUE /\ timeW = TRUE /\ fed = TRUE
  /\ haveR = FALSE /\ haveW = FALSE
  /\ reset = FALSE
  /\ phase = "idle"
  /\ parse = "start" /\ begun = 0
  /\ keep = [r \in Ids |-> TRUE]
  /\ js = [r \in Ids |-> "none"]
  /\ requests = <<>> /\ finished = <<>>
  /\ output = [r \in Ids |-> <<>>]
  /\ chunks = [r \in Ids |-> 0]
  /\ done = [r \in Ids |-> FALSE]
  /\ owed = [r \in Ids |-> 0]
  /\ drainCloses = FALSE
  /\ wire = <<>>
  /\ back = "idle"
  /\ crashed = FALSE

-----------------------------------------------------------------------------
(* on_read: the parser runs over one buffer and calls back.                *)

\* Variant: requests are numbered from 0.
NewestFromZero == begun

\* The HttpRequest that on_request makes.
Newest == begun + 1

\* start_req: on_request makes an HttpRequest.
Begin ==
  /\ phase = "on_read" /\ parse = "start"
  /\ begun < MaxRequests
  /\ begun' = begun + 1
  /\ requests' = Append(requests, Newest)
  /\ parse' = "headers"
  /\ UNCHANGED <<socketVars, keep, js, finished, output, chunks, done, owed, drainCloses,
                 wire, back, crashed>>

\* on_headers_complete makes the JavaScript object and calls onrequest.
HeadersComplete(k) ==
  /\ phase = "on_read" /\ parse = "headers"
  /\ js' = [js EXCEPT ![begun] = "live"]
  /\ keep' = [keep EXCEPT ![begun] = k]
  /\ parse' = "body"
  /\ phase' = "js"
  /\ UNCHANGED <<fd, stray, attached, connected, action, out, watcher, local, reset, begun,
                 requests, finished, output, chunks, done, owed, drainCloses, wire, back,
                 crashed>>

\* on_body, on_request_complete: onbody is called, if JavaScript set one.
Body(p) ==
  /\ phase = "on_read"
  /\ \/ parse = "body" /\ p \in {"tail", "start"}
     \/ parse = "tail" /\ p = "start"
  /\ parse' = p
  /\ phase' \in {"js", "on_read"}
  /\ UNCHANGED <<fd, stray, attached, connected, action, out, watcher, local, reset, begun,
                 keep, js, requests, finished, output, chunks, done, owed, drainCloses, wire,
                 back, crashed>>

\* The buffer is used up.
ParseDone ==
  /\ phase = "on_read"
  /\ phase' = AfterHook["on_read"]
  /\ UNCHANGED <<fd, stray, attached, connected, action, out, watcher, local, reset, httpVars>>

\* Parse finds the parser in its error state.
ParseError ==
  /\ phase = "on_read"
  /\ parse' = "failed"
  /\ FullClose
  /\ phase' = AfterHook["on_read"]
  /\ UNCHANGED <<begun, keep, js, requests, finished, output, chunks, done, owed,
                 drainCloses, wire, back, crashed>>

\* The callback returns to the parser.
JSReturns ==
  /\ phase = "js"
  /\ phase' = "on_read"
  /\ UNCHANGED <<fd, stray, attached, connected, action, out, watcher, local, reset, httpVars>>

-----------------------------------------------------------------------------
(* respond: called in onrequest and onbody, or in any other callback.      *)

InJS == phase \in {"js", "idle"} /\ ~crashed

\* respond (data): the chunk is queued, then Connection::Write.
RespondData(r) ==
  /\ InJS
  /\ js[r] = "live"
  /\ chunks[r] < MaxChunks
  /\ Cardinality({c \in Chunks : c[2] <= chunks[c[1]]}) < MaxTotal
  /\ chunks' = [chunks EXCEPT ![r] = @ + 1]
  /\ output' = [output EXCEPT ![r] = Append(@, <<r, chunks[r] + 1>>)]
  /\ back' = phase
  /\ phase' = "flush"
  /\ UNCHANGED <<fd, stray, attached, connected, action, out, watcher, local, reset, parse,
                 begun, keep, js, requests, finished, done, owed, drainCloses, wire, crashed>>

\* respond (null).
RespondNull(r) ==
  /\ InJS
  /\ js[r] = "live"
  /\ done' = [done EXCEPT ![r] = TRUE]
  /\ owed' = [owed EXCEPT ![r] = IF done[r] THEN @ ELSE chunks[r]]
  /\ back' = phase
  /\ phase' = "flush"
  /\ UNCHANGED <<fd, stray, attached, connected, action, out, watcher, local, reset, parse,
                 begun, keep, js, requests, finished, output, chunks, drainCloses, wire,
                 crashed>>

\* requests.front (), if there is one.
Front == {requests[i] : i \in DOMAIN requests \cap {1}}

\* Connection::Write hands the front request's chunks to liboi, one by one.
FlushChunk ==
  /\ phase = "flush"
  /\ \E r \in Front :
       /\ output[r] # <<>>
       /\ WriteBuf(Head(output[r]))
       /\ output' = [output EXCEPT ![r] = Tail(@)]
  /\ UNCHANGED <<phase, parse, begun, keep, js, requests, finished, chunks, done, owed,
                 drainCloses, wire, back, crashed>>

\* Variants: the last response need not be done; the request is forgotten.
IsDoneOrFollowed(r) == done[r] \/ Len(requests) > 1
Forget(r) == UNCHANGED finished

IsDone(r) == done[r]
KeepFinished(r) == finished' = Append(finished, r)

\* The front request is done: the next one's turn.
FlushDone ==
  /\ phase = "flush"
  /\ \E r \in Front :
       /\ output[r] = <<>> /\ IsDone(r)
       /\ drainCloses' = (drainCloses \/ ~keep[r])
       /\ KeepFinished(r)
  /\ requests' = Tail(requests)
  /\ UNCHANGED <<socketVars, parse, begun, keep, js, output, chunks, done, owed, wire, back,
                 crashed>>

\* Nothing more can be written now.
FlushReturns ==
  /\ phase = "flush"
  /\ \A r \in Front : output[r] = <<>> /\ ~done[r]
  /\ phase' = back
  /\ UNCHANGED <<fd, stray, attached, connected, action, out, watcher, local, reset, httpVars>>

-----------------------------------------------------------------------------
(* The other hooks of the socket.                                          *)

\* No on_connect; on_read with count 0 closes; no on_timeout of http.cc's own.
OnConnect ==
  /\ phase = "on_connect"
  /\ phase' = AfterHook["on_connect"]
  /\ UNCHANGED <<fd, stray, attached, connected, action, out, watcher, local, reset, httpVars>>

OnEof ==
  /\ phase = "on_eof"
  /\ FullClose
  /\ phase' = AfterHook["on_eof"]
  /\ UNCHANGED httpVars

OnTimeout ==
  /\ phase = "on_timeout"
  /\ FullClose
  /\ phase' = "idle"
  /\ UNCHANGED httpVars

OnDrain ==
  /\ phase = "on_drain"
  /\ IF drainCloses THEN FullClose
     ELSE UNCHANGED <<fd, stray, attached, connected, action, out, watcher, local, reset>>
  /\ phase' = AfterHook["on_drain"]
  /\ UNCHANGED httpVars

ToList(s) == {s[i] : i \in DOMAIN s}

\* on_close: delete connection, which deletes its requests and takes the pointer
\* out of their objects.  A request without an object has an empty handle.
OnClose ==
  /\ phase = "on_close"
  /\ LET mine == ToList(requests) \cup ToList(finished)
     IN  IF \E r \in mine : js[r] = "none"
           THEN crashed' = TRUE /\ UNCHANGED js
           ELSE /\ js' = [r \in Ids |-> IF r \in mine THEN "dead" ELSE js[r]]
                /\ UNCHANGED crashed
  /\ phase' = "gone"
  /\ UNCHANGED <<fd, stray, attached, connected, action, out, watcher, local, reset, parse,
                 begun, keep, requests, finished, output, chunks, done, owed, drainCloses,
                 wire, back>>

\* A step of the socket; what send () takes goes on the wire.
SocketStep ==
  /\ SocketSteps
  /\ wire' = IF phase = "write" /\ Len(out') < Len(out) THEN Append(wire, out[1]) ELSE wire
  /\ UNCHANGED <<parse, begun, keep, js, requests, finished, output, chunks, done, owed,
                 drainCloses, back, crashed>>

Reset == PeerResets /\ UNCHANGED httpVars

Parser ==
  \/ Begin \/ (\E k \in BOOLEAN : HeadersComplete(k))
  \/ (\E p \in {"tail", "start"} : Body(p)) \/ ParseDone \/ ParseError \/ JSReturns

Flush == FlushChunk \/ FlushDone \/ FlushReturns

Hook == OnConnect \/ OnEof \/ OnTimeout \/ OnDrain \/ OnClose

Next ==
  \/ Parser \/ Flush \/ Hook \/ SocketStep \/ Reset
  \/ \E r \in Ids : RespondData(r)
  \/ \E r \in Ids : RespondNull(r)

Spec == Init /\ [][Next]_vars

\* What the loop does without waiting for the peer to send or to be silent.
OwnStep == SocketStep /\ (phase = "idle" => fed \/ (fd = "open" /\ writeW))

\* One thread runs the loop, the parser and JavaScript.  A callback returns and
\* the loop goes on (strong: JavaScript may call respond again and again, in
\* turn with them), a buffer has an end, and the peer takes what is sent to it,
\* now and then, or the connection is reset.
FairSpec ==
  /\ Spec
  /\ WF_vars(Parser) /\ SF_vars(ParseDone) /\ SF_vars(JSReturns)
  /\ WF_vars(Flush) /\ WF_vars(Hook)
  /\ SF_vars(OwnStep) /\ SF_vars(SocketStep /\ Send)

-----------------------------------------------------------------------------
TypeOK ==
  /\ SocketTypeOK(Chunks)
  /\ phase \in Phases \cup {"js", "flush"}
  /\ parse \in {"start", "headers", "body", "tail", "failed"}
  /\ begun \in 0..MaxRequests
  /\ keep \in [Ids -> BOOLEAN] /\ done \in [Ids -> BOOLEAN]
  /\ js \in [Ids -> {"none", "live", "dead"}]
  /\ requests \in Seq(Ids) /\ finished \in Seq(Ids)
  /\ output \in [Ids -> Seq(Chunks)]
  /\ chunks \in [Ids -> 0..MaxChunks] /\ owed \in [Ids -> 0..MaxChunks]
  /\ wire \in Seq(Chunks)
  /\ back \in {"idle", "js"}
  /\ drainCloses \in BOOLEAN /\ crashed \in BOOLEAN

\* What the client gets: chunks sent, then those queued in liboi.
Stream == wire \o out

\* Responses leave in the order of the requests, whatever the order in which
\* JavaScript gives them: a chunk follows the one before it of its request, and
\* the first of a request all that the requests before it are owed.
ResponsesInOrder ==
  \A i \in DOMAIN Stream :
    LET r == Stream[i][1]
        k == Stream[i][2]
    IN  IF k > 1
          THEN i > 1 /\ Stream[i - 1] = <<r, k - 1>>
          ELSE /\ \A j \in 1..(i - 1) : Stream[j][1] < r
               /\ \A q \in 1..(r - 1), c \in 1..MaxChunks :
                    c <= owed[q] => \E j \in 1..(i - 1) : Stream[j] = <<q, c>>

\* A connection that is not kept alive is closed by on_drain only when every
\* response that was finished has been sent in full.
DrainedMeansWritten ==
  phase = "on_drain" /\ drainCloses =>
    \A r \in ToList(finished) : \A c \in 1..owed[r] : <<r, c>> \in ToList(wire)

\* Every request the parser began is on one of the two lists, in order, so that
\* deleting the connection leaves no JavaScript object with its pointer.
ListsAreInOrder ==
  /\ finished \o requests = [i \in 1..begun |-> i]
  /\ phase = "gone" /\ ~crashed => \A r \in Ids : js[r] # "live"

\* However the connection ends, its descriptor is closed no more than once, and
\* at least once unless the peer reset the connection.
ClosedOnce ==
  /\ ~stray
  /\ phase = "gone" => fd = "closed" \/ reset

\* The phases in which the connection's own hooks, or JavaScript within them, run.
InHooks ==
  \/ phase \in {"on_read", "js", "on_eof", "on_drain", "on_timeout"}
  \/ phase = "flush" /\ back = "js"

\* Elsewhere in the loop, or in JavaScript that the loop called for another reason.
Outside == phase = "idle" \/ (phase = "flush" /\ back = "idle")

\* A descriptor is closed once: its actions go with it, no hook runs after it,
\* and before the loop looks at the timer it takes the event that close fed.
ClosedIsQuiet ==
  /\ fd # "none"
  /\ fd = "closed" => ~readAct /\ ~writeAct
  /\ InHooks => fd = "open"
  /\ attached /\ ~readAct /\ ~writeAct /\ Outside => fed
  /\ timeW => attached

\* The connection is released only when it was closed or reset.
ReleasedAfterClose ==
  /\ ~writeAct => fd = "closed" \/ reset
  /\ phase \in {"close", "on_close"} => fd = "closed" \/ reset

DrainedIsEmpty == phase = "on_drain" => out = <<>>

ObjectsWereBegun == \A r \in Ids : js[r] # "none" => r <= begun

\* Only a connection in liboi's hands is attached.
AttachedTillClose ==
  /\ attached \/ phase \in {"on_close", "gone"}
  /\ phase = "on_drain" => attached /\ writeAct

\* Of request r's chunks those up to Sent (r) were given to liboi.
Sent(r) == chunks[r] - Len(output[r])

OutputIsTheRest ==
  \A r \in Ids :
    /\ owed[r] <= chunks[r] /\ Len(output[r]) <= chunks[r]
    /\ \A i \in 1..Len(output[r]) : output[r][i] = <<r, Sent(r) + i>>

\* The request whose response may be written.
Turn == Len(finished) + 1

TakeTurns ==
  \A r \in Ids :
    /\ r < Turn => done[r] /\ owed[r] <= Sent(r)
    /\ r > Turn => Sent(r) = 0

\* What was given to liboi, and nothing else, is in the stream, unless the
\* connection is closing; and the last of it is the last of the turn's.
StreamIsSent ==
  /\ \A i \in 1..Len(Stream) : Stream[i][1] <= Turn /\ Stream[i][2] <= Sent(Stream[i][1])
  /\ attached /\ writeAct =>
       /\ \A r \in Ids, c \in 1..MaxChunks :
            c <= Sent(r) => \E j \in 1..Len(Stream) : Stream[j] = <<r, c>>
       /\ \A r \in Ids : r = Turn /\ Sent(r) > 0 =>
            Len(Stream) > 0 /\ Stream[Len(Stream)] = <<r, Sent(r)>>

\* The inductive invariant.
IInv ==
  /\ TypeOK /\ ListsAreInOrder /\ ClosedOnce /\ QueueIsWatched
  /\ ClosedIsQuiet /\ ReleasedAfterClose /\ DrainedIsEmpty /\ ObjectsWereBegun
  /\ AttachedTillClose /\ OutputIsTheRest /\ TakeTurns /\ StreamIsSent /\ ResponsesInOrder

\* Every response that was finished in its turn gets sent in full, or the
\* connection ends: Connection::Write and on_io_event leave nothing behind.
ResponseLeaves ==
  []<>(phase = "gone"
         \/ \A r \in ToList(finished) : \A c \in 1..owed[r] : <<r, c>> \in ToList(wire))

\* Closing the descriptor, wherever it is done, is reported to on_close, which
\* frees the connection: no closed connection stays in the process.
CloseIsReported == []<>(fd = "closed" => phase = "gone")

\* http.cc 451-453: "at some point the connection closes and we're going to
\* delete the request": the connection's destructor gets through its requests.
\* It does not when one of them has no JavaScript object yet.
ConnectionDeletesItsRequests == ~crashed
=============================================================================
