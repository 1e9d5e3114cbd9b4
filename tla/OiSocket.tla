------------------------------ MODULE OiSocket ------------------------------
(***************************************************************************)
(* One connection of liboi (oi_socket.c, without GnuTLS): its descriptor,  *)
(* its queue of buffers to write, its watchers, and on_io_event, the loop  *)
(* that runs the read and the write action until neither has more to do.   *)
(*                                                                         *)
(* The main thread is in one place, "phase".  A phase named for a callback *)
(* (on_read, on_drain, ...) is the user's: http.cc and net.cc, modelled in *)
(* HttpConnection and NetBinding, continue from there to AfterHook.  In    *)
(* the phase "idle" the loop is elsewhere, and so may be any JavaScript.   *)
(***************************************************************************)
EXTENDS Integers, Sequences, FiniteSets

VARIABLES
  fd,         \* the descriptor: "none" (-1), "open" or "closed"
  stray,      \* close () was called on a number that was closed before
  attached,   \* socket->loop is set
  connected,
  readAct,    \* read_action is set, to socket_recv
  writeAct,   \* write_action is set, to socket_send
  out,        \* out_stream, the next buffer first
  readW, writeW, timeW,    \* the three watchers are active
  fed,        \* an event of the read watcher was fed
  haveR, haveW,            \* on_io_event's have_read_event, have_write_event
  reset,      \* the peer reset the connection
  phase

action == <<readAct, writeAct>>
watcher == <<readW, writeW, timeW, fed>>
local == <<haveR, haveW>>
socketVars == <<fd, stray, attached, connected, action, out, watcher, local, reset, phase>>

Hooks == {"on_connect", "on_read", "on_eof", "on_drain", "on_timeout", "on_close"}
Phases == Hooks \cup {"idle", "read", "write", "decide", "close", "gone"}

AfterHook == [on_connect |-> "write", on_read |-> "write", on_eof |-> "write",
              on_drain |-> "decide"]

\* oi_socket_init, and nothing assigned yet.
SocketInit ==
  /\ fd = "none"
  /\ stray = FALSE /\ attached = FALSE /\ connected = FALSE
  /\ readAct = FALSE /\ writeAct = FALSE
  /\ out = <<>>
  /\ readW = FALSE /\ writeW = FALSE /\ timeW = FALSE /\ fed = FALSE
  /\ haveR = FALSE /\ haveW = FALSE
  /\ reset = FALSE
  /\ phase = "idle"

-----------------------------------------------------------------------------
(* What a user calls.  These say nothing of phase.                         *)

\* Variant: the descriptor stays open.
KeepFd == UNCHANGED <<fd, stray>>

\* close (socket->fd), which stays the number it is.
CloseFd ==
  /\ fd' = IF fd = "open" THEN "closed" ELSE fd
  /\ stray' = (stray \/ fd = "closed")

\* Variant: it is left to the descriptor to wake the loop.
FeedNothing == UNCHANGED fed

FeedRead == fed' = (fed \/ attached)

\* full_close, which is all of oi_socket_close.
FullClose ==
  /\ CloseFd
  /\ readAct' = FALSE /\ writeAct' = FALSE
  /\ FeedRead
  /\ UNCHANGED <<attached, connected, out, readW, writeW, timeW, local, reset>>

\* half_close; shutdown () fails on a connection that was reset.
HalfClose ==
  /\ IF reset THEN UNCHANGED writeAct ELSE writeAct' = FALSE
  /\ UNCHANGED <<fd, stray, attached, connected, readAct, out, watcher, local, reset>>

WriteEof == IF writeAct THEN HalfClose ELSE FullClose

\* Variant: the write watcher is not started.
DoNotWatch == UNCHANGED writeW

WatchForWrite == writeW' = TRUE

\* oi_socket_write: without a write action the buffer is dropped.
WriteBuf(b) ==
  /\ IF writeAct
       THEN out' = Append(out, b) /\ WatchForWrite
       ELSE UNCHANGED <<out, writeW>>
  /\ UNCHANGED <<fd, stray, attached, connected, action, readW, timeW, fed, local, reset>>

\* assign_file_descriptor and oi_socket_attach, always called together.
Attach ==
  /\ fd' = "open"
  /\ attached' = TRUE
  /\ readAct' = TRUE /\ writeAct' = TRUE
  /\ readW' = TRUE /\ writeW' = TRUE /\ timeW' = TRUE /\ fed' = TRUE
  /\ UNCHANGED <<stray, connected, out, local, reset>>

-----------------------------------------------------------------------------
(* The loop's steps.                                                       *)

\* The peer, or the network, resets the connection.
PeerResets ==
  /\ fd = "open" /\ ~reset
  /\ reset' = TRUE
  /\ UNCHANGED <<fd, stray, attached, connected, action, out, watcher, local, phase>>

\* A fed event, or one that the descriptor raises for a watcher.
IoEvent ==
  /\ phase = "idle"
  /\ fed \/ (fd = "open" /\ (readW \/ writeW))
  /\ fed' = FALSE
  /\ haveR' = TRUE /\ haveW' = TRUE
  /\ phase' = "read"
  /\ UNCHANGED <<fd, stray, attached, connected, action, out, readW, writeW, timeW, reset>>

\* The inactivity timer; on_timeout's own full_close follows the user's callback.
\* A fed event is taken before the loop looks at its timers again.
TimeoutEvent ==
  /\ phase = "idle" /\ timeW /\ ~fed
  /\ phase' = "on_timeout"
  /\ UNCHANGED <<fd, stray, attached, connected, action, out, watcher, local, reset>>

\* No read action, or recv () has nothing.
ReadNothing ==
  /\ phase = "read"
  /\ readAct => connected /\ ~reset
  /\ haveR' = FALSE
  /\ phase' = "write"
  /\ UNCHANGED <<fd, stray, attached, connected, action, out, watcher, haveW, reset>>

\* socket_recv takes the first event for the connection's.
ReadConnects ==
  /\ phase = "read" /\ readAct /\ ~connected
  /\ connected' = TRUE
  /\ phase' = "on_connect"
  /\ UNCHANGED <<fd, stray, attached, action, out, watcher, local, reset>>

\* recv () has data, for on_read.
ReadData ==
  /\ phase = "read" /\ readAct /\ connected /\ ~reset
  /\ timeW' = TRUE
  /\ phase' = "on_read"
  /\ UNCHANGED <<fd, stray, attached, connected, action, out, readW, writeW, fed, local, reset>>

\* recv () returns 0, for on_read with count 0.
ReadEof ==
  /\ phase = "read" /\ readAct /\ connected /\ ~reset
  /\ readW' = FALSE /\ fed' = FALSE /\ timeW' = TRUE
  /\ readAct' = FALSE
  /\ phase' = "on_eof"
  /\ UNCHANGED <<fd, stray, attached, connected, writeAct, out, writeW, local, reset>>

\* recv () fails.
ReadError ==
  /\ phase = "read" /\ readAct /\ connected /\ reset
  /\ phase' = "close"
  /\ UNCHANGED <<fd, stray, attached, connected, action, out, watcher, local, reset>>

\* No write action, nothing to write, or send () takes nothing.
WriteNothing ==
  /\ phase = "write"
  /\ writeAct /\ out # <<>> => ~reset
  /\ haveW' = FALSE
  /\ writeW' = (writeW /\ ~(writeAct /\ out = <<>>))
  /\ phase' = "decide"
  /\ UNCHANGED <<fd, stray, attached, connected, action, out, readW, timeW, fed, haveR, reset>>

\* Variant: on_drain is called for every buffer.
SentAny == TRUE

SentLast == Len(out) = 1

\* send () takes the rest of the first buffer; a part of it changes nothing here.
Send ==
  /\ phase = "write" /\ writeAct /\ out # <<>> /\ ~reset
  /\ out' = Tail(out)
  /\ timeW' = TRUE
  /\ IF SentLast
       THEN writeW' = FALSE /\ phase' = "on_drain"
       ELSE phase' = "decide" /\ UNCHANGED writeW
  /\ UNCHANGED <<fd, stray, attached, connected, action, readW, fed, local, reset>>

\* send () fails; only some error codes take the write action away.
SendError ==
  /\ phase = "write" /\ writeAct /\ out # <<>> /\ reset
  /\ writeAct' \in BOOLEAN
  /\ phase' = "close"
  /\ UNCHANGED <<fd, stray, attached, connected, readAct, out, watcher, local, reset>>

\* Variant: one end that is closed closes the connection.
EitherEnded == ~readAct \/ ~writeAct

BothEnded == ~readAct /\ ~writeAct

\* The end of an iteration of on_io_event's loop.
Decide ==
  /\ phase = "decide"
  /\ haveR' = (haveR /\ readW)
  /\ haveW' = (haveW /\ writeW)
  /\ phase' = IF haveR' \/ haveW' THEN "read"
              ELSE IF BothEnded THEN "close" ELSE "idle"
  /\ UNCHANGED <<fd, stray, attached, connected, action, out, watcher, reset>>

\* The label close: everything is stopped and released, but the descriptor.
Closing ==
  /\ phase = "close"
  /\ out' = <<>>
  /\ readW' = FALSE /\ writeW' = FALSE /\ timeW' = FALSE /\ fed' = FALSE
  /\ attached' = FALSE
  /\ phase' = "on_close"
  /\ UNCHANGED <<fd, stray, connected, action, local, reset>>

\* What the loop does with no user taking part.
SocketSteps ==
  \/ IoEvent \/ TimeoutEvent
  \/ ReadNothing \/ ReadConnects \/ ReadData \/ ReadEof \/ ReadError
  \/ WriteNothing \/ Send \/ SendError
  \/ Decide \/ Closing

-----------------------------------------------------------------------------
SocketTypeOK(Bufs) ==
  /\ fd \in {"none", "open", "closed"}
  /\ out \in Seq(Bufs)
  /\ stray \in BOOLEAN /\ attached \in BOOLEAN /\ connected \in BOOLEAN
  /\ readAct \in BOOLEAN /\ writeAct \in BOOLEAN
  /\ readW \in BOOLEAN /\ writeW \in BOOLEAN /\ timeW \in BOOLEAN /\ fed \in BOOLEAN
  /\ haveR \in BOOLEAN /\ haveW \in BOOLEAN /\ reset \in BOOLEAN

\* Buffers wait only where a watcher or the loop at hand will write them.
QueueIsWatched ==
  out # <<>> /\ writeAct => writeW \/ phase = "on_drain"
=============================================================================
