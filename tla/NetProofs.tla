------------------------------ MODULE NetProofs ------------------------------
(***************************************************************************)
(* For any number of writes: a Socket or Server that has gone leaves       *)
(* nothing behind, queued data is watched, a program that keeps its        *)
(* sockets is safe, and only an end of the connection drops data.          *)
(***************************************************************************)
EXTENDS NetBinding, TLAPS

Bufs == 1..MaxWrites

\* Everything a socket holds but its queue and its place.
Flags == <<fd, stray, attached, connected, action, watcher, local, reset>>

-----------------------------------------------------------------------------
(* The queue.                                                              *)

\* A queue of one buffer is empty without it.
LEMMA LastSent ==
  ASSUME NEW S, NEW q \in Seq(S), q # <<>>
  PROVE  Tail(q) \in Seq(S) /\ (Len(q) = 1 => Tail(q) = <<>>)
<1>1. Tail(q) \in Seq(S) /\ Len(Tail(q)) = Len(q) - 1
  OBVIOUS
<1>2. \A t \in Seq(S) : Len(t) = 0 => t = <<>>
  OBVIOUS
<1> QED BY <1>1, <1>2

\* A queue that a buffer is added to gets longer, and no shorter.
LEMMA Longer ==
  ASSUME NEW S, NEW q \in Seq(S), NEW b \in S
  PROVE  Append(q, b) \in Seq(S) /\ Len(Append(q, b)) = Len(q) + 1 /\ Len(q) \in Nat
OBVIOUS

-----------------------------------------------------------------------------
(* The loop's steps.                                                       *)

\* The variables of net.cc that a step of the loop leaves alone.
NetVars == <<serverVars, obj, srv, lookup, estab, written>>

\* A step of liboi preserves the types.
LEMMA LoopKeepsType == TypeOK /\ SocketSteps /\ UNCHANGED NetVars => TypeOK'
<1> SUFFICES ASSUME TypeOK, SocketSteps, UNCHANGED NetVars PROVE TypeOK'
  OBVIOUS
<1>0. /\ UNCHANGED <<obj, srv, lookup, estab, written, listening, sfd, acceptW, client>>
  BY DEF NetVars, serverVars
<1> USE DEF TypeOK, SocketTypeOK, Phases, Hooks, action, watcher, local
<1>1. CASE IoEvent
  <2>1. fed' \in BOOLEAN /\ haveR' \in BOOLEAN /\ haveW' \in BOOLEAN
    BY <1>1, Zenon DEF IoEvent
  <2> QED BY <1>0, <1>1, <2>1 DEF IoEvent
<1>2. CASE TimeoutEvent
  BY <1>0, <1>2 DEF TimeoutEvent
<1>3. CASE ReadNothing
  <2>1. haveR' \in BOOLEAN
    BY <1>3, Zenon DEF ReadNothing
  <2> QED BY <1>0, <1>3, <2>1 DEF ReadNothing
<1>4. CASE ReadConnects
  BY <1>0, <1>4 DEF ReadConnects
<1>5. CASE ReadData
  BY <1>0, <1>5 DEF ReadData
<1>6. CASE ReadEof
  <2>1. readW' \in BOOLEAN /\ fed' \in BOOLEAN /\ timeW' \in BOOLEAN /\ readAct' \in BOOLEAN
    BY <1>6, Zenon DEF ReadEof
  <2> QED BY <1>0, <1>6, <2>1 DEF ReadEof
<1>7. CASE ReadError
  BY <1>0, <1>7 DEF ReadError
<1>8. CASE WriteNothing
  <2>1. haveW' \in BOOLEAN /\ writeW' \in BOOLEAN
    BY <1>8, Zenon DEF WriteNothing
  <2> QED BY <1>0, <1>8, <2>1 DEF WriteNothing
<1>9. CASE Send
  <2>1. Tail(out) \in Seq(1..MaxWrites)
    BY <1>9, LastSent DEF Send
  <2>2. writeW' \in BOOLEAN /\ timeW' \in BOOLEAN
    BY <1>9, Zenon DEF Send
  <2> QED BY <1>0, <1>9, <2>1, <2>2 DEF Send
<1>10. CASE SendError
  BY <1>0, <1>10 DEF SendError
<1>11. CASE Decide
  BY <1>0, <1>11 DEF Decide
<1>12. CASE Closing
  <2>1. <<>> \in Seq(1..MaxWrites)
    OBVIOUS
  <2>2. /\ readW' \in BOOLEAN /\ writeW' \in BOOLEAN /\ timeW' \in BOOLEAN
        /\ fed' \in BOOLEAN /\ attached' \in BOOLEAN
    BY <1>12, Zenon DEF Closing
  <2> QED BY <1>0, <1>12, <2>1, <2>2 DEF Closing
<1> QED BY <1>1, <1>2, <1>3, <1>4, <1>5, <1>6, <1>7, <1>8, <1>9, <1>10, <1>11, <1>12 DEF SocketSteps

\* What the invariant says besides the types.
Parts ==
  /\ NothingLeft /\ QueueIsWatched /\ GoneIsReleased /\ ListensOrNot
  /\ LeftWithoutActions /\ DrainedIsEmpty /\ CorruptedByOne

\* A step of the loop on a socket preserves the invariant.
LEMMA LoopStep == IInv /\ SocketStep => IInv'
<1> SUFFICES ASSUME IInv, SocketStep PROVE IInv'
  OBVIOUS
<1>0. SocketSteps /\ UNCHANGED NetVars
  BY DEF SocketStep, NetVars
<1>t. TypeOK /\ TypeOK'
  BY <1>0, LoopKeepsType DEF IInv
<1> SUFFICES Parts'
  BY <1>t DEF IInv, Parts
<1>u. /\ UNCHANGED <<obj, srv, lookup, estab, written, listening, sfd, acceptW, client>>
      /\ Parts /\ out \in Seq(1..MaxWrites)
  BY <1>0, <1>t DEF NetVars, serverVars, IInv, Parts, TypeOK, SocketTypeOK
<1> USE <1>u DEF Parts, NothingLeft, QueueIsWatched, GoneIsReleased, ListensOrNot,
      LeftWithoutActions, BothEnded, DrainedIsEmpty, CorruptedByOne, action, watcher, local
<1>1. CASE IoEvent
  BY <1>1 DEF IoEvent
<1>2. CASE TimeoutEvent
  BY <1>2 DEF TimeoutEvent
<1>3. CASE ReadNothing
  BY <1>3 DEF ReadNothing
<1>4. CASE ReadConnects
  BY <1>4 DEF ReadConnects
<1>5. CASE ReadData
  BY <1>5 DEF ReadData
<1>6. CASE ReadEof
  BY <1>6 DEF ReadEof
<1>7. CASE ReadError
  BY <1>7 DEF ReadError
<1>8. CASE WriteNothing
  BY <1>8 DEF WriteNothing
<1>9. CASE Send
  <2>1. Len(out) = 1 => Tail(out) = <<>>
    BY <1>9, LastSent DEF Send
  <2> QED BY <1>9, <2>1 DEF Send, SentLast
<1>10. CASE SendError
  BY <1>10 DEF SendError
<1>11. CASE Decide
  BY <1>11 DEF Decide
<1>12. CASE Closing
  BY <1>12 DEF Closing
<1> QED BY <1>0, <1>1, <1>2, <1>3, <1>4, <1>5, <1>6, <1>7, <1>8, <1>9, <1>10, <1>11, <1>12 DEF SocketSteps

-----------------------------------------------------------------------------
(* Servers.                                                                *)

\* So does one of a server.
LEMMA ServerStep ==
  ASSUME IInv,
         \/ NewServer \/ NewHttpServer \/ ListenTCP \/ CloseServer \/ ClientArrives
         \/ OnConnection \/ HttpOnConnection \/ Reject \/ CollectServer
  PROVE  IInv'
<1>t. TypeOK /\ Parts
  BY DEF IInv, Parts
<1> SUFFICES TypeOK' /\ Parts'
  BY DEF IInv, Parts
<1> USE <1>t, MaxWritesIsNat DEF TypeOK, SocketTypeOK, Phases, Hooks, Parts, NothingLeft, QueueIsWatched,
      GoneIsReleased, ListensOrNot, LeftWithoutActions, BothEnded, DrainedIsEmpty, CorruptedByOne,
      socketVars, serverVars, action, watcher, local
<1>1. CASE NewServer
  <2> USE <1>1 DEF NewServer
  <2>1. TypeOK'
    OBVIOUS
  <2>2. Parts'
    OBVIOUS
  <2> QED BY <2>1, <2>2
<1>2. CASE NewHttpServer
  <2> USE <1>2 DEF NewHttpServer, Listen, serverVars
  <2>1. TypeOK'
    <3>1. listening' \in BOOLEAN /\ acceptW' \in BOOLEAN
      BY ONLY <1>t, <1>2, Zenon DEF NewHttpServer, Listen, serverVars, TypeOK, SocketTypeOK
    <3> QED BY <3>1
  <2>2. Parts'
    OBVIOUS
  <2> QED BY <2>1, <2>2
<1>3. CASE ListenTCP
  <2> USE <1>3 DEF ListenTCP, Listen
  <2>1. TypeOK'
    OBVIOUS
  <2>2. Parts'
    OBVIOUS
  <2> QED BY <2>1, <2>2
<1>4. CASE CloseServer
  <2> USE <1>4 DEF CloseServer, ServerClose
  <2>1. TypeOK'
    <3>1. listening' \in BOOLEAN /\ acceptW' \in BOOLEAN
      BY ONLY <1>t, <1>4, Zenon DEF CloseServer, ServerClose, TypeOK, SocketTypeOK
    <3> QED BY <3>1
  <2>2. Parts'
    OBVIOUS
  <2> QED BY <2>1, <2>2
<1>5. CASE ClientArrives
  <2> USE <1>5 DEF ClientArrives, Arrive
  <2>1. TypeOK'
    OBVIOUS
  <2>2. Parts'
    OBVIOUS
  <2> QED BY <2>1, <2>2
<1>6. CASE OnConnection
  <2> USE <1>6 DEF OnConnection, Accept, kept
  <2>1. TypeOK'
    OBVIOUS
  <2>2. Parts'
    OBVIOUS
  <2> QED BY <2>1, <2>2
<1>7. CASE HttpOnConnection
  <2> USE <1>7 DEF HttpOnConnection, Accept, Attach
  <2>1. TypeOK'
    OBVIOUS
  <2>2. Parts'
    OBVIOUS
  <2> QED BY <2>1, <2>2
<1>8. CASE Reject
  <2> USE <1>8 DEF Reject, Accept
  <2>1. TypeOK'
    OBVIOUS
  <2>2. Parts'
    OBVIOUS
  <2> QED BY <2>1, <2>2
<1>9. CASE CollectServer
  <2> USE <1>9 DEF CollectServer, ServerClose, Corrupted, kept, Elsewhere
  <2>1. TypeOK'
    OBVIOUS
  <2>2. Parts'
    OBVIOUS
  <2> QED BY <2>1, <2>2
<1> QED BY <1>1, <1>2, <1>3, <1>4, <1>5, <1>6, <1>7, <1>8, <1>9

-----------------------------------------------------------------------------
(* Sockets.                                                                *)

\* So does a call of a socket's method, its lookup, a hook's return, the collector
\* and the network.
LEMMA SocketCallStep ==
  ASSUME IInv,
         \/ NewSocket \/ ConnectTCP \/ Resolve \/ AfterResolve \/ Write \/ End \/ StaleCall
         \/ HookReturns \/ OnDrain \/ Collect \/ Establish \/ Reset
  PROVE  IInv'
<1>t. TypeOK /\ Parts
  BY DEF IInv, Parts
<1> SUFFICES TypeOK' /\ Parts'
  BY DEF IInv, Parts
<1> USE <1>t, MaxWritesIsNat DEF TypeOK, SocketTypeOK, Phases, Hooks, Parts, NothingLeft, QueueIsWatched,
      GoneIsReleased, ListensOrNot, LeftWithoutActions, BothEnded, DrainedIsEmpty, CorruptedByOne,
      socketVars, serverVars, action, watcher, local
<1>1. CASE NewSocket
  <2> USE <1>1 DEF NewSocket
  <2>1. TypeOK'
    OBVIOUS
  <2>2. Parts'
    OBVIOUS
  <2> QED BY <2>1, <2>2
<1>2. CASE ConnectTCP
  <2> USE <1>2 DEF ConnectTCP
  <2>1. TypeOK'
    OBVIOUS
  <2>2. Parts'
    OBVIOUS
  <2> QED BY <2>1, <2>2
<1>3. CASE Resolve
  <2> USE <1>3 DEF Resolve
  <2>1. TypeOK'
    OBVIOUS
  <2>2. Parts'
    OBVIOUS
  <2> QED BY <2>1, <2>2
<1>4. CASE AfterResolve
  <2> USE <1>4 DEF AfterResolve, Attach, ConnectFails, kept
  <2>1. TypeOK'
    <3>1. attached' \in BOOLEAN /\ readAct' \in BOOLEAN /\ writeAct' \in BOOLEAN /\ readW' \in BOOLEAN /\ writeW' \in BOOLEAN /\ timeW' \in BOOLEAN /\ fed' \in BOOLEAN /\ estab' \in BOOLEAN
      BY ONLY <1>t, <1>4, Zenon DEF AfterResolve, Attach, ConnectFails, kept, action, watcher, local, TypeOK, SocketTypeOK
    <3> QED BY <3>1
  <2>2. Parts'
    OBVIOUS
  <2> QED BY <2>1, <2>2
<1>5. CASE Write
  <2> USE <1>5 DEF Write, Corrupted, kept, WriteBuf, WatchForWrite, Fresh, InJS, InHook, Elsewhere, Hooks
  <2>1. TypeOK'
    <3>1. written' \in 1..MaxWrites /\ written' \in 0..MaxWrites
      OBVIOUS
    <3>2. out' \in Seq(1..MaxWrites) /\ writeW' \in BOOLEAN
      <4>1. CASE Corrupted
        BY <4>1
      <4>2. CASE WriteBuf(written + 1)
        <5>1. out \in Seq(1..MaxWrites) /\ written + 1 \in 1..MaxWrites
          BY <3>1
        <5>2. Append(out, written + 1) \in Seq(1..MaxWrites)
          BY <5>1, Longer
        <5> QED BY <4>2, <5>2
      <4> QED BY <4>1, <4>2
    <3> QED BY <3>1, <3>2
  <2>2. Parts'
    OBVIOUS
  <2> QED BY <2>1, <2>2
<1>6. CASE End
  <2> USE <1>6 DEF End, WriteEof, FullClose, HalfClose, CloseFd, FeedRead
  <2>1. TypeOK'
    <3>1. readAct' \in BOOLEAN /\ writeAct' \in BOOLEAN /\ fed' \in BOOLEAN /\ stray' \in BOOLEAN
      BY ONLY <1>t, <1>6, Zenon DEF End, WriteEof, FullClose, HalfClose, CloseFd, FeedRead, action, watcher, TypeOK, SocketTypeOK
    <3> QED BY <3>1
  <2>2. Parts'
    OBVIOUS
  <2> QED BY <2>1, <2>2
<1>7. CASE StaleCall
  <2> USE <1>7 DEF StaleCall, Corrupted, kept
  <2>1. TypeOK'
    OBVIOUS
  <2>2. Parts'
    OBVIOUS
  <2> QED BY <2>1, <2>2
<1>8. CASE HookReturns
  <2> USE <1>8 DEF HookReturns, kept, Destroy, CloseFd, FullClose, FeedRead, Attach, AfterHook, InHook, Hooks
  <2>1. TypeOK'
    <3>1. fd' \in {"none", "open", "closed"} /\ stray' \in BOOLEAN
      OBVIOUS
    <3>2. readAct' \in BOOLEAN /\ writeAct' \in BOOLEAN
      OBVIOUS
    <3>3. readW' \in BOOLEAN /\ writeW' \in BOOLEAN /\ timeW' \in BOOLEAN /\ fed' \in BOOLEAN
      OBVIOUS
    <3>4. attached' \in BOOLEAN
      OBVIOUS
    <3> QED BY <3>1, <3>2, <3>3, <3>4
  <2>2. Parts'
    OBVIOUS
  <2> QED BY <2>1, <2>2
<1>9. CASE OnDrain
  <2> USE <1>9 DEF OnDrain, AfterHook, kept
  <2>1. TypeOK'
    OBVIOUS
  <2>2. Parts'
    OBVIOUS
  <2> QED BY <2>1, <2>2
<1>10. CASE Collect
  <2> USE <1>10 DEF Collect, Destroy, CloseFd, Corrupted, kept
  <2>1. TypeOK'
    <3>1. attached' \in BOOLEAN /\ readAct' \in BOOLEAN /\ writeAct' \in BOOLEAN /\ readW' \in BOOLEAN /\ writeW' \in BOOLEAN /\ timeW' \in BOOLEAN /\ fed' \in BOOLEAN /\ stray' \in BOOLEAN
      BY ONLY <1>t, <1>10, Zenon DEF Collect, Destroy, CloseFd, Corrupted, kept, action, watcher, local, TypeOK, SocketTypeOK
    <3> QED BY <3>1
  <2>2. Parts'
    OBVIOUS
  <2> QED BY <2>1, <2>2
<1>11. CASE Establish
  <2> USE <1>11 DEF Establish, Connecting
  <2>1. TypeOK'
    OBVIOUS
  <2>2. Parts'
    OBVIOUS
  <2> QED BY <2>1, <2>2
<1>12. CASE Reset
  <2> USE <1>12 DEF Reset, PeerResets
  <2>1. TypeOK'
    OBVIOUS
  <2>2. Parts'
    OBVIOUS
  <2> QED BY <2>1, <2>2
<1> QED BY <1>1, <1>2, <1>3, <1>4, <1>5, <1>6, <1>7, <1>8, <1>9, <1>10, <1>11, <1>12

-----------------------------------------------------------------------------
(* The theorems.                                                           *)

\* The invariant holds before anything is made.
LEMMA InitInv == Init => IInv
<1> SUFFICES ASSUME Init PROVE IInv
  OBVIOUS
<1> USE MaxWritesIsNat DEF Init, SocketInit, ServerInit
<1>1. <<>> \in Seq(1..MaxWrites)
  OBVIOUS
<1>2. TypeOK
  <2>1. /\ stray \in BOOLEAN /\ attached \in BOOLEAN /\ connected \in BOOLEAN
        /\ readAct \in BOOLEAN /\ writeAct \in BOOLEAN
        /\ readW \in BOOLEAN /\ writeW \in BOOLEAN /\ timeW \in BOOLEAN /\ fed \in BOOLEAN
        /\ haveR \in BOOLEAN /\ haveW \in BOOLEAN /\ reset \in BOOLEAN
    BY Zenon
  <2>2. estab \in BOOLEAN /\ listening \in BOOLEAN /\ acceptW \in BOOLEAN
    BY Zenon
  <2> QED BY <1>1, <2>1, <2>2 DEF TypeOK, SocketTypeOK, Phases
<1>3. Parts
  BY DEF Parts, NothingLeft, QueueIsWatched, GoneIsReleased, ListensOrNot,
         LeftWithoutActions, DrainedIsEmpty, CorruptedByOne
<1> QED BY <1>2, <1>3 DEF IInv, Parts

\* Every step preserves it.
LEMMA NextInv == IInv /\ [Next]_vars => IInv'
<1> SUFFICES ASSUME IInv, [Next]_vars PROVE IInv'
  OBVIOUS
<1>1. CASE JSServer \/ CollectServer \/ TakeClient \/ ClientArrives
  BY <1>1, ServerStep DEF JSServer, TakeClient
<1>2. CASE JSSocket \/ Collect \/ Resolve \/ AfterResolve \/ Hook \/ Establish \/ Reset
  BY <1>2, SocketCallStep DEF JSSocket, Hook
<1>3. CASE SocketStep
  BY <1>3, LoopStep
<1>4. CASE UNCHANGED vars
  <2>1. UNCHANGED <<fd, stray, attached, connected, readAct, writeAct, out, readW, writeW,
                    timeW, fed, haveR, haveW, reset, phase, listening, sfd, acceptW, client,
                    obj, srv, lookup, estab, written>>
    BY <1>4 DEF vars, socketVars, serverVars, action, watcher, local
  <2> QED BY <2>1 DEF IInv, TypeOK, SocketTypeOK, NothingLeft, QueueIsWatched, GoneIsReleased,
                      ListensOrNot, LeftWithoutActions, BothEnded, DrainedIsEmpty, CorruptedByOne
<1> QED BY <1>1, <1>2, <1>3, <1>4 DEF Next, Network

\* The inductive invariant, for any number of writes.
THEOREM Inductive == Spec => []IInv
<1>1. Init => IInv
  BY InitInv
<1>2. IInv /\ [Next]_vars => IInv'
  BY NextInv
<1> QED BY <1>1, <1>2, PTL DEF Spec

\* A Socket or a Server that has gone leaves no watcher and no descriptor.
THEOREM NothingStays == Spec => []NothingLeft
<1>1. IInv => NothingLeft
  BY DEF IInv
<1> QED BY <1>1, Inductive, PTL

\* A step to corrupted memory has one of the four causes.
SafeStep ==
  phase' = "corrupt" =>
    obj' = "collected" \/ srv' = "collected" \/ obj = "closed" \/ reset

\* Only what is collected, or called when it is closed or gone, corrupts memory.
LEMMA StepIsSafe == IInv /\ Next => SafeStep
<1> SUFFICES ASSUME IInv, Next, phase' = "corrupt"
             PROVE  obj' = "collected" \/ srv' = "collected" \/ obj = "closed" \/ reset
  BY DEF SafeStep
<1>0. TypeOK /\ CorruptedByOne /\ LeftWithoutActions
  BY DEF IInv
<1>1. CASE UNCHANGED <<phase, obj, srv>>
  BY <1>0, <1>1 DEF CorruptedByOne
<1>2. CASE NewServer \/ NewHttpServer \/ NewSocket \/ OnConnection \/ HttpOnConnection
  BY <1>2 DEF NewServer, NewHttpServer, NewSocket, OnConnection, HttpOnConnection, socketVars
<1>3. CASE CollectServer \/ Collect \/ StaleCall
  BY <1>3 DEF CollectServer, Collect, StaleCall
<1>4. CASE AfterResolve
  BY <1>4 DEF AfterResolve, ConnectFails
<1>5. CASE Write
  <2>1. CASE writeAct /\ ~attached
    BY <1>0, <2>1 DEF LeftWithoutActions
  <2>2. CASE ~(writeAct /\ ~attached)
    BY <1>1, <1>5, <2>2 DEF Write
  <2> QED BY <2>1, <2>2
<1>6. CASE Hook
  BY <1>6 DEF Hook, HookReturns, OnDrain, InHook, Hooks, AfterHook
<1>7. CASE SocketStep
  BY <1>7 DEF SocketStep, SocketSteps, IoEvent, TimeoutEvent, ReadNothing, ReadConnects, ReadData,
              ReadEof, ReadError, WriteNothing, Send, SendError, Decide, Closing
<1>8. CASE \/ ListenTCP \/ CloseServer \/ Reject \/ ClientArrives
           \/ ConnectTCP \/ Resolve \/ End \/ Establish \/ Reset
  BY <1>1, <1>8 DEF ListenTCP, CloseServer, Reject, ClientArrives, ConnectTCP, Resolve, End,
                    Establish, Reset, PeerResets, socketVars
<1> QED BY <1>2, <1>3, <1>4, <1>5, <1>6, <1>7, <1>8
       DEF Next, JSServer, JSSocket, TakeClient, Hook, Network

\* A program that keeps its sockets, and leaves closed ones alone, corrupts no
\* memory unless the peer resets a connection.
THEOREM KeepersAreSafe == Spec => KeptSocketIsSafe
<1>1. IInv /\ [Next]_vars => [SafeStep]_vars
  BY StepIsSafe
<1>2. [][SafeStep]_vars => KeptSocketIsSafe
  BY PTL DEF SafeStep, KeptSocketIsSafe
<1> QED BY <1>1, <1>2, Inductive, PTL DEF Spec

\* The queue gets shorter behind a write action only.
DropStep ==
  phase # "write" /\ Len(out') < Len(out) => ~writeAct \/ reset

\* No step drops data but after an end of the connection.
LEMMA StepDropsNothing == IInv /\ Next => DropStep
<1> SUFFICES ASSUME IInv, Next, phase # "write", Len(out') < Len(out) PROVE ~writeAct \/ reset
  BY DEF DropStep
<1>0. /\ out \in Seq(1..MaxWrites) /\ Len(out) \in Nat
      /\ LeftWithoutActions
  BY DEF IInv, TypeOK, SocketTypeOK
<1>1. CASE UNCHANGED out
  BY <1>0, <1>1
<1>2. CASE Write
  <2>1. written + 1 \in 1..MaxWrites
    BY <1>2, MaxWritesIsNat DEF Write, IInv, TypeOK
  <2>2. out' = out \/ out' = Append(out, written + 1)
    BY <1>2 DEF Write, Corrupted, kept, WriteBuf, Fresh
  <2> QED BY <1>0, <1>1, <2>1, <2>2, Longer
<1>3. CASE SocketStep
  <2>1. CASE Closing
    BY <1>0, <2>1 DEF Closing, LeftWithoutActions, BothEnded
  <2>2. CASE UNCHANGED out
    BY <1>1, <2>2
  <2> QED BY <1>3, <2>1, <2>2 DEF SocketStep, SocketSteps, IoEvent, TimeoutEvent, ReadNothing,
                ReadConnects, ReadData, ReadEof, ReadError, WriteNothing, Send, SendError, Decide
<1>4. CASE ~(Write \/ SocketStep)
  <2>1. UNCHANGED out
    BY <1>4 DEF Next, JSServer, JSSocket, TakeClient, Hook, Network, socketVars, kept,
         NewServer, NewHttpServer, ListenTCP, CloseServer, CollectServer, OnConnection,
         HttpOnConnection, Reject, ClientArrives, NewSocket, ConnectTCP, Resolve, AfterResolve,
         ConnectFails, End, StaleCall, HookReturns, OnDrain, Collect, Establish, Reset,
         Corrupted, Attach, FullClose, HalfClose, WriteEof, Destroy, PeerResets
  <2> QED BY <1>1, <2>1
<1> QED BY <1>2, <1>3, <1>4

\* Only an end that the program, the timeout or a reset made drops data.
THEOREM EndsDropData == Spec => OnlyCloseDropsData
<1>1. IInv /\ [Next]_vars => [DropStep]_vars
  BY StepDropsNothing
<1>2. [][DropStep]_vars => OnlyCloseDropsData
  BY PTL DEF DropStep, OnlyCloseDropsData
<1> QED BY <1>1, <1>2, Inductive, PTL DEF Spec
=============================================================================
