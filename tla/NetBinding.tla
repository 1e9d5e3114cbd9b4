----------------------------- MODULE NetBinding -----------------------------
(***************************************************************************)
(* net.cc: a Socket that JavaScript makes and connects, or one that a      *)
(* Server accepts; and the server of http.cc as far as its connections,    *)
(* which HttpConnection takes up.  Below are OiSocket and OiServer.        *)
(*                                                                         *)
(* Handles are weak from the start: the collector deletes a Socket or a    *)
(* Server that JavaScript no longer refers to, whatever it is doing.  The  *)
(* name lookup of connectTCP is a request of the thread pool.  Where freed *)
(* memory or an empty pointer is used, phase is "corrupt": the end.        *)
(***************************************************************************)
EXTENDS OiSocket, OiServer

CONSTANT MaxWrites   \* bound: calls of write (data)

ASSUME MaxWritesIsNat == MaxWrites \in Nat

VARIABLES
  obj,       \* the Socket: "none", "live", "closed" (by OnClose) or "collected"
  srv,       \* the server: "none", "net", "http" or "collected"
  lookup,    \* the request of connectTCP: "none", "queued", "found" or "failed"
  estab,     \* the connection is established
  written    \* number of calls of write (data)

kept == <<fd, stray, attached, connected, action, out, watcher, local, reset>>
vars == <<socketVars, serverVars, obj, srv, lookup, estab, written>>

Init ==
  /\ SocketInit /\ ServerInit
  /\ obj = "none" /\ srv = "none"
  /\ lookup = "none" /\ estab = FALSE
  /\ written = 0

\* The loop, or other JavaScript, is not in this connection.
Elsewhere == phase \in {"idle", "gone", "served"}
InHook == phase \in (Hooks \ {"on_drain"}) \cup {"accepting", "on_fail"}
InJS == Elsewhere \/ InHook

\* connect () was called and has no outcome.
Connecting == fd = "open" /\ ~estab /\ ~reset

Corrupted == phase' = "corrupt" /\ UNCHANGED kept

-----------------------------------------------------------------------------
(* Servers.                                                                *)

NewServer ==
  /\ phase = "idle" /\ obj = "none" /\ srv = "none"
  /\ srv' = "net"
  /\ UNCHANGED <<socketVars, serverVars, obj, lookup, estab, written>>

\* newHTTPHttpServer listens at once; where it cannot, it says nothing.
NewHttpServer ==
  /\ phase = "idle" /\ obj = "none" /\ srv = "none"
  /\ srv' = "http"
  /\ Listen \/ UNCHANGED serverVars
  /\ UNCHANGED <<socketVars, obj, lookup, estab, written>>

ListenTCP ==
  /\ InJS /\ srv = "net"
  /\ Listen
  /\ UNCHANGED <<socketVars, obj, srv, lookup, estab, written>>

CloseServer ==
  /\ InJS /\ srv = "net"
  /\ ServerClose
  /\ UNCHANGED <<socketVars, obj, srv, lookup, estab, written>>

ClientArrives == Arrive /\ UNCHANGED <<socketVars, obj, srv, lookup, estab, written>>

\* Server::OnConnection makes a Socket and calls onConnection with it.
OnConnection ==
  /\ phase = "idle" /\ srv = "net"
  /\ Accept
  /\ obj' = "live" /\ estab' = TRUE
  /\ phase' = "accepting"
  /\ UNCHANGED <<kept, srv, lookup, written>>

\* on_connection of http.cc.
HttpOnConnection ==
  /\ phase = "idle" /\ srv = "http"
  /\ Accept
  /\ Attach
  /\ estab' = TRUE
  /\ phase' = "served"
  /\ UNCHANGED <<obj, srv, lookup, written>>

\* No callback is set: on_connection closes the descriptor.
Reject ==
  /\ Elsewhere
  /\ Accept
  /\ UNCHANGED <<socketVars, obj, srv, lookup, estab, written>>

\* ~Server and ~HttpServer.  OnConnection goes on with what is left.
CollectServer ==
  /\ srv \in {"net", "http"}
  /\ srv' = "collected"
  /\ ServerClose
  /\ \/ Elsewhere /\ UNCHANGED socketVars
     \/ phase = "accepting" /\ Corrupted
  /\ UNCHANGED <<obj, lookup, estab, written>>

-----------------------------------------------------------------------------
(* Sockets.                                                                *)

NewSocket ==
  /\ phase = "idle" /\ obj = "none" /\ srv = "none"
  /\ obj' = "live"
  /\ UNCHANGED <<socketVars, serverVars, srv, lookup, estab, written>>

\* Accepted sockets have no connectTCP.  An assertion asks for one at a time.
ConnectTCP ==
  /\ InJS /\ obj = "live" /\ srv = "none"
  /\ lookup = "none" /\ fd = "none"
  /\ lookup' = "queued"
  /\ UNCHANGED <<socketVars, serverVars, obj, srv, estab, written>>

\* In the pool.
Resolve ==
  /\ lookup = "queued" /\ phase # "corrupt"
  /\ lookup' \in {"found", "failed"}
  /\ UNCHANGED <<socketVars, serverVars, obj, srv, estab, written>>

\* Variant: nobody is told.
ConnectFailsSilent == UNCHANGED <<socketVars, estab>>

\* onConnect is called with an error.
ConnectFails == phase' = "on_fail" /\ UNCHANGED <<kept, estab>>

\* oi_socket_connect, which may fail, and oi_socket_attach.
AfterResolve ==
  /\ phase = "idle" /\ lookup \in {"found", "failed"}
  /\ lookup' = "none"
  /\ \/ lookup = "found" /\ Attach /\ estab' \in BOOLEAN /\ UNCHANGED phase
     \/ ConnectFails
  /\ UNCHANGED <<serverVars, obj, srv, written>>

\* The buffer that Write makes of its argument.
Fresh == written + 1

\* After an error the write action is still there, but the loop is not.
Write ==
  /\ InJS /\ obj = "live"
  /\ written < MaxWrites
  /\ written' = written + 1
  /\ IF writeAct /\ ~attached THEN Corrupted ELSE WriteBuf(Fresh) /\ UNCHANGED phase
  /\ UNCHANGED <<serverVars, obj, srv, lookup, estab>>

\* write (null), and close ().
End ==
  /\ InJS /\ obj = "live"
  /\ WriteEof \/ FullClose
  /\ UNCHANGED <<phase, serverVars, obj, srv, lookup, estab, written>>

\* Variant: no detach.
DestroyAttached == FullClose

\* ~Socket.  What is queued is not released.
Destroy ==
  /\ CloseFd
  /\ readAct' = FALSE /\ writeAct' = FALSE
  /\ readW' = FALSE /\ writeW' = FALSE /\ timeW' = FALSE /\ fed' = FALSE
  /\ attached' = FALSE
  /\ UNCHANGED <<connected, out, local, reset>>

\* The JavaScript that a hook called, if any, returns.
HookReturns ==
  /\ InHook
  /\ phase' = CASE phase \in DOMAIN AfterHook -> AfterHook[phase]
                [] phase = "on_close" -> "gone"
                [] OTHER -> "idle"
  /\ obj' = IF phase = "on_close" THEN "closed" ELSE obj
  /\ CASE phase = "on_close" -> Destroy
       [] phase = "on_timeout" -> FullClose
       [] phase = "accepting" -> Attach
       [] OTHER -> UNCHANGED kept
  /\ UNCHANGED <<serverVars, srv, lookup, estab, written>>

\* net.cc sets no on_drain.
OnDrain ==
  /\ phase = "on_drain"
  /\ phase' = AfterHook["on_drain"]
  /\ UNCHANGED <<kept, serverVars, obj, srv, lookup, estab, written>>

\* The weak callback.  A request in flight, and a hook that has not called yet,
\* go on with the memory; onConnection's argument is safe.
Collect ==
  /\ obj = "live"
  /\ obj' = "collected"
  /\ \/ phase = "idle" /\ lookup = "none" /\ Destroy /\ phase' = "gone"
     \/ phase = "idle" /\ lookup # "none" /\ Corrupted
     \/ InHook /\ phase # "accepting" /\ Corrupted
  /\ UNCHANGED <<serverVars, srv, lookup, estab, written>>

\* A method that ~Socket left on the handle finds no pointer.
StaleCall ==
  /\ obj = "closed" /\ InJS
  /\ Corrupted
  /\ UNCHANGED <<serverVars, obj, srv, lookup, estab, written>>

-----------------------------------------------------------------------------
\* Before it is established the descriptor is neither readable nor writable.
SocketStep ==
  /\ SocketSteps
  /\ Connecting =>
       /\ phase' \notin {"on_read", "on_eof"}
       /\ phase = "write" => out' = out
       /\ phase = "idle" /\ phase' = "read" => fed
  /\ UNCHANGED <<serverVars, obj, srv, lookup, estab, written>>

Establish ==
  /\ Connecting
  /\ estab' = TRUE
  /\ UNCHANGED <<socketVars, serverVars, obj, srv, lookup, written>>

Reset ==
  /\ obj = "live" /\ phase # "corrupt"
  /\ PeerResets
  /\ UNCHANGED <<serverVars, obj, srv, lookup, estab, written>>

JSServer == NewServer \/ NewHttpServer \/ ListenTCP \/ CloseServer
JSSocket == NewSocket \/ ConnectTCP \/ Write \/ End \/ StaleCall
TakeClient == OnConnection \/ HttpOnConnection \/ Reject
Hook == HookReturns \/ OnDrain
Network == ClientArrives \/ Establish \/ Reset

Next ==
  \/ JSServer \/ JSSocket \/ CollectServer \/ Collect
  \/ TakeClient \/ Resolve \/ AfterResolve
  \/ Hook \/ SocketStep \/ Network

Spec == Init /\ [][Next]_vars

\* What the loop does without waiting for the peer.
OwnStep == SocketStep /\ (phase = "idle" => fed \/ (fd = "open" /\ writeW /\ ~Connecting))

\* The loop, the pool and the callbacks go on, time passes, a connection is
\* established or refused.
FairSpec ==
  /\ Spec
  /\ WF_vars(Resolve) /\ WF_vars(AfterResolve)
  /\ WF_vars(Hook) /\ WF_vars(OwnStep)
  /\ WF_vars(SocketStep /\ TimeoutEvent)
  /\ WF_vars(Connecting /\ Network)

-----------------------------------------------------------------------------
TypeOK ==
  /\ SocketTypeOK(1..MaxWrites)
  /\ phase \in Phases \cup {"accepting", "on_fail", "served", "corrupt"}
  /\ obj \in {"none", "live", "closed", "collected"}
  /\ srv \in {"none", "net", "http", "collected"}
  /\ lookup \in {"none", "queued", "found", "failed"}
  /\ client \in {"none", "waiting", "taken"}
  /\ estab \in BOOLEAN /\ listening \in BOOLEAN /\ acceptW \in BOOLEAN
  /\ written \in 0..MaxWrites

Over == phase \in {"gone", "corrupt"}

\* However a Socket or a server ends - closed, timed out, reset, or collected in
\* the middle of anything - libev keeps no watcher in the freed memory, and the
\* process keeps no descriptor of it.
NothingLeft ==
  /\ phase = "gone" => ~attached /\ ~readW /\ ~writeW /\ ~timeW /\ ~fed /\ fd # "open"
  /\ srv = "collected" => ~acceptW /\ sfd # "open"

\* Memory is corrupted only where one of four things happened: an object was
\* collected, a closed one was called, or the peer reset the connection.  A program
\* that keeps its sockets, and leaves those that are closed alone, is safe.
KeptSocketIsSafe ==
  [][phase' = "corrupt" =>
       obj' = "collected" \/ srv' = "collected" \/ obj = "closed" \/ reset]_vars

\* Data that write () accepted leaves the queue unsent only when the program, or
\* the timeout, has ended the connection, or the peer has reset it: the peer's
\* end of file does not discard it.
OnlyCloseDropsData ==
  [][phase # "write" /\ Len(out') < Len(out) => ~writeAct \/ reset]_vars

\* Who has gone was released by his destructor.
GoneIsReleased == phase = "gone" => obj \in {"closed", "collected"}

\* A server's watcher and descriptor are those of a server that listens.
ListensOrNot ==
  /\ acceptW \/ sfd = "open" => listening
  /\ srv = "collected" => ~listening

\* The write action outlives the place in the loop only after an error.
LeftWithoutActions ==
  /\ writeAct => attached \/ reset
  /\ phase = "close" => reset \/ BothEnded

\* net.cc writes nothing in on_drain.
DrainedIsEmpty == phase = "on_drain" => out = <<>>

CorruptedByOne ==
  phase = "corrupt" => obj \in {"collected", "closed"} \/ srv = "collected" \/ reset

\* The inductive invariant.
IInv ==
  /\ TypeOK /\ NothingLeft /\ QueueIsWatched
  /\ GoneIsReleased /\ ListensOrNot /\ LeftWithoutActions /\ DrainedIsEmpty /\ CorruptedByOne

\* A call of connectTCP is answered: onConnect is called, or the socket is gone.
ConnectIsAnswered == (lookup # "none") ~> (phase \in {"on_connect", "on_fail"} \/ Over)

\* A connection whose two ends are closed, in whatever order and by whomever, is
\* released: at once or, after write (null) outside its own hooks, by the timeout.
EndedIsReleased == (attached /\ ~readAct /\ ~writeAct) ~> Over

\* oi.pod, oi_socket_connect: "When the connection is made C<socket.on_connect>
\* will be called."  on_connect takes the first event, which attach feeds.
ConnectMeansConnected == phase = "on_connect" => estab
=============================================================================
